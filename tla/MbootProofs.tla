----------------------------- MODULE MbootProofs -----------------------------
(***************************************************************************)
(* A whole run of mboot, for every number of modules, size of messages and *)
(* of the log, page tables and runtime ranges, wherever it fails: what it  *)
(* does to the firmware after the shutdown, what it leaves behind when it  *)
(* returns, and what it tells the kernel of the log.                       *)
(***************************************************************************)
EXTENDS Mboot, FirmwareProofs, FiniteSetTheorems

(* The steps after firmware_shutdown; those after the log was closed; those *)
(* after the firmware's console was unsubscribed.                           *)
Late == {"exit", "boot_register", "compute_relocations", "boot_set_runtime_pointers",
         "relocate_runtime_services", "install_trampoline", "jump", "panic"}
Closed == Late \cup {"shutdown"}
Quiet == Closed \cup {"expand_disable"}

Silence ==
  /\ misuse = FALSE
  /\ pc \notin Late => ~ShuttingDown
  /\ pc \in Quiet => "firmware_print" \notin consoles
  /\ pc \in Closed => ~expand

Handed ==
  /\ bufferSize \in Nat
  /\ pc \notin Late \/ pc \in {"exit", "boot_register"} => registered = 0 /\ told = 0
  /\ pc \in {"compute_relocations", "boot_set_runtime_pointers"} =>
       registered = bufferSize /\ told = 0
  /\ pc \in {"relocate_runtime_services", "install_trampoline", "jump"} =>
       registered = bufferSize /\ told = bufferSize
  /\ KernelLog

(* The steps before a file is read.                                         *)
Before == {"mboot_init", "options", "dump", "show", "gui", "fbcon", "headless", "config",
           "edit", "secure", "acpi", "file_load"}

Owned(i) == pool \cap {<<"file", i>>, <<"data", i>>}

(* What belongs to the modules loaded, and to the one that is being loaded. *)
Mem ==
  /\ n \in Nat /\ modules = [i \in ModuleIds |-> modules[i]]
  /\ \A i \in ModuleIds : i < n => Owned(i) \subseteq {modules[i]}
  /\ \A i \in ModuleIds : i > n => Owned(i) = {}
  /\ n \in ModuleIds => Owned(n) \subseteq {addr}
  /\ pc \in Before => n \in ModuleIds /\ Owned(n) = {}
  /\ pc = "extract" => n \in ModuleIds /\ addr = <<"file", n>>
  /\ pc \in {"check", "record"} => n \in ModuleIds
  /\ pc = "returned" =>
       /\ installed = {}
       /\ \A i \in ModuleIds : modules[i] = NULL /\ (i < n => Owned(i) = {})

MInv == Silence /\ Handed /\ Mem

LEMMA MInitInv == Init => MInv
<1> SUFFICES ASSUME Init PROVE MInv
  OBVIOUS
<1>1. Silence
  BY DEF Init, ExitInit, Silence, ShuttingDown, Late, Closed, Quiet
<1>2. Handed
  <2>1. bufferSize \in Nat
    BY InheritedSize DEF Init, LogInit, NoBuffer
  <2> QED
    BY <2>1 DEF Init, Handed, KernelLog, Late
<1>3. Mem
  <2>1. pool = {} /\ n = 1 /\ pc = "mboot_init" /\ 1 \in ModuleIds
    BY MbootConstants DEF Init, ExitInit, ModuleIds
  <2>2. \A i : Owned(i) = {}
    BY <2>1 DEF Owned
  <2>3. modules = [i \in ModuleIds |-> modules[i]]
    BY DEF Init
  <2> QED
    BY <2>1, <2>2, <2>3 DEF Mem, Before
<1> QED
  BY <1>1, <1>2, <1>3 DEF MInv

-----------------------------------------------------------------------------
(* Steps that change little.                                               *)

(* Before the log is closed, nothing is at stake.                           *)
LEMMA EarlyKeeps ==
  ASSUME MInv, pc \notin Late, pc' \notin Quiet,
         UNCHANGED <<misuse, registered, told>>,
         ~ShuttingDown', bufferSize' \in Nat
  PROVE  Silence' /\ Handed'
<1>1. Silence'
  BY DEF MInv, Silence, Late, Closed, Quiet
<1>2. registered = 0 /\ told = 0
  BY DEF MInv, Handed
<1>3. Handed'
  BY <1>2 DEF Handed, KernelLog, Late, Closed, Quiet
<1> QED
  BY <1>1, <1>3

(* Memory that is freed, and memory for something else.                     *)
LEMMA MemKeeps ==
  ASSUME MInv, pool' \subseteq pool \cup MapBuffers \cup EbInfo,
         UNCHANGED <<n, addr, modules>>,
         pc' \in Before => pc \in Before,
         pc' = "extract" => pc = "extract",
         pc' \in {"check", "record"} => pc \in {"check", "record"},
         pc' = "returned" => pc = "returned" /\ installed' = installed
  PROVE  Mem'
<1>1. \A i \in ModuleIds : Owned(i)' \subseteq Owned(i)
  <2>1. SUFFICES ASSUME NEW i \in ModuleIds, NEW b \in Owned(i)' PROVE b \in Owned(i)
    OBVIOUS
  <2>2. b \in pool' /\ b \in {<<"file", i>>, <<"data", i>>}
    BY <2>1 DEF Owned
  <2>3. b \in Buffers
    BY <2>2 DEF Buffers
  <2>4. b \notin EbInfo
    BY <2>2 DEF EbInfo
  <2>5. b \in pool
    BY <2>2, <2>3, <2>4, MbootConstants
  <2> QED
    BY <2>2, <2>5 DEF Owned
<1> QED
  BY <1>1 DEF MInv, Mem

(* Reading the map and leaving boot services takes only buffers for maps.   *)
LEMMA ExitPool ==
  ASSUME efi_get_memory_map \/ GiveUp \/ get_memory_map \/ ExitBootServices
  PROVE  pool' \subseteq pool \cup MapBuffers
<1>1. ASSUME NEW next, Another(next) PROVE pool' \subseteq pool \cup MapBuffers
  <2>1. NewBuffer \in MapBuffers
    BY <1>1, NewIsFree DEF Another
  <2> QED
    BY <1>1, <2>1 DEF Another, Replacing
<1>2. ASSUME Fails PROVE pool' \subseteq pool
  BY <1>2 DEF Fails, Freeing
<1>3. ASSUME TooSmall \/ Read PROVE pool' \subseteq pool
  BY <1>3 DEF TooSmall, Read, heapVars
<1>4. CASE efi_get_memory_map
  BY <1>1, <1>2, <1>3, <1>4 DEF efi_get_memory_map, Query, First, Second
<1>5. CASE GiveUp \/ get_memory_map
  BY <1>5 DEF GiveUp, get_memory_map, Freeing, heapVars
<1>6. CASE ExitBootServices
  BY <1>6 DEF ExitBootServices, Leave, Refused, ExitError, free_memory_map, Freeing,
              heapVars
<1> QED
  BY <1>4, <1>5, <1>6

-----------------------------------------------------------------------------
(* Starting and loading.                                                   *)

LEMMA StartsInv ==
  ASSUME MInv,
         mboot_init \/ (pc = "options" /\ serial_log_init) \/ NoSerial
         \/ NoDebug \/ Shown \/ video_set_mode \/ gui_init_failed \/ fbcon_init
         \/ parse_config \/ EditDone
         \/ secure_boot_mode \/ install_acpitab \/ AcpiDone \/ secure_boot_check
         \/ (pc = "edit" /\ (serial_log_init \/ fbcon_set_verbosity))
  PROVE  MInv'
<1>1. /\ pc \in Before \cup {"verify"} /\ pc' \in Before \cup {"boot_init"}
      /\ pc = "verify" => pc' = "boot_init"
  BY DEF mboot_init, serial_log_init, NoSerial, NoDebug, Shown, video_set_mode,
         gui_init_failed, fbcon_init,
         parse_config, EditDone, secure_boot_mode, install_acpitab, AcpiDone,
         secure_boot_check, fbcon_set_verbosity, Goto, Before
<1>2. CASE mboot_init
  <2>1. UNCHANGED <<misuse, registered, told, phase, pool, n, addr, modules>>
    BY <1>2 DEF mboot_init, runVars, loadVars, handVars, exitVars, heapVars, fwVars
  <2>2. bufferSize' \in Nat
    BY <1>2, LogConstants DEF mboot_init, log_init, FreshBuffer, MInv, Handed
  <2> QED
    BY <1>1, <2>1, <2>2, EarlyKeeps, MemKeeps
       DEF MInv, Silence, ShuttingDown, Before, Late, Closed, Quiet
<1>3. CASE secure_boot_check
  <2>1. UNCHANGED <<misuse, registered, told, pool, n, addr, modules, bufferSize>>
    BY <1>3 DEF secure_boot_check, Estimate, Begin, runVars, loadVars, handVars, heapVars,
                fwVars, logVars, bufferVars
  <2>2. ~ShuttingDown'
    BY <1>3 DEF secure_boot_check, Estimate, Begin, ShuttingDown
  <2> QED
    BY <1>1, <2>1, <2>2, EarlyKeeps, MemKeeps DEF MInv, Handed, Before, Late, Closed, Quiet
<1>4. CASE ~mboot_init /\ ~secure_boot_check
  <2>1. UNCHANGED <<misuse, registered, told, phase, pool, n, addr, modules, bufferSize>>
    BY <1>4 DEF serial_log_init, NoSerial, NoDebug, Shown, video_set_mode, gui_init_failed,
                fbcon_init,
                parse_config, EditDone, secure_boot_mode, install_acpitab, AcpiDone,
                fbcon_set_verbosity, runVars, loadVars, handVars, exitVars, heapVars,
                fwVars, logVars, bufferVars
  <2> QED
    BY <1>1, <2>1, EarlyKeeps, MemKeeps
       DEF MInv, Silence, ShuttingDown, Handed, Before, Late, Closed, Quiet
<1> QED
  BY <1>2, <1>3, <1>4

(* Showing the map takes buffers for it, whatever comes of it.              *)
LEMMA ShowInv ==
  ASSUME MInv, log_memory_map \/ ShowRuns
  PROVE  MInv'
<1>1. /\ pc \in {"dump", "show"} /\ pc' = "show"
      /\ UNCHANGED <<misuse, registered, told, n, addr, modules, bufferSize>>
  BY DEF log_memory_map, ShowRuns, Goto, runVars, loadVars, handVars, logVars, bufferVars
<1>2. ~ShuttingDown' /\ pool' \subseteq pool \cup MapBuffers
  <2>1. CASE log_memory_map
    BY <2>1 DEF log_memory_map, Show, Begin, ShuttingDown, heapVars
  <2>2. CASE ShowRuns /\ (efi_get_memory_map \/ GiveUp)
    <3>1. phase' \in {"init", "show"}
      BY <2>2 DEF ShowRuns, GiveUp, efi_get_memory_map, Query, First, Second, Another,
                  TooSmall, Fails, Read
    <3> QED
      BY <2>2, <3>1, ExitPool DEF ShuttingDown
  <2>3. CASE ShowRuns /\ Estimated
    BY <2>3 DEF ShowRuns, Estimated, Freeing, ShuttingDown
  <2> QED
    BY <2>1, <2>2, <2>3 DEF ShowRuns
<1>3. Silence' /\ Handed'
  BY <1>1, <1>2, EarlyKeeps DEF MInv, Handed, Late, Closed, Quiet
<1>4. Mem'
  BY <1>1, <1>2, MemKeeps DEF Before
<1> QED
  BY <1>3, <1>4 DEF MInv

LEMMA CleanUpMem ==
  ASSUME MInv, CleanUp
  PROVE  Mem'
<1>1. /\ pc' = "returned" /\ installed' = {} /\ n' = n /\ addr' = addr
      /\ pool' = pool \ {modules[i] : i \in ModuleIds}
      /\ modules' = [i \in ModuleIds |-> NULL]
  BY DEF CleanUp, unload_boot_modules, Freeing
<1>2. \A i \in ModuleIds : Owned(i)' = Owned(i) \ {modules[j] : j \in ModuleIds}
  BY <1>1 DEF Owned
<1>3. \A i \in ModuleIds : i < n => Owned(i)' = {}
  BY <1>2 DEF MInv, Mem
<1> QED
  BY <1>1, <1>2, <1>3 DEF MInv, Mem, Before

LEMMA FailInv ==
  ASSUME MInv, clean \/ LoadFailed \/ EstimateFailed \/ chainload_parent
  PROVE  MInv'
<1>1. /\ pc \notin Late
      /\ CleanUp \/ Hang
      /\ UNCHANGED <<misuse, phase, bufferSize>>
  BY DEF clean, LoadFailed, EstimateFailed, chainload_parent, Fail, Fallible, Late,
         logVars, bufferVars, fwVars
<1>2. CASE CleanUp
  <2>1. pc' = "returned" /\ UNCHANGED <<registered, told>>
    BY <1>2 DEF CleanUp, handVars
  <2> QED
    BY <1>1, <1>2, <2>1, EarlyKeeps, CleanUpMem
       DEF MInv, Silence, ShuttingDown, Handed, Late, Closed, Quiet
<1>3. CASE Hang
  <2>1. pc' = "hung" /\ UNCHANGED <<registered, told, pool, n, addr, modules>>
    BY <1>3 DEF Hang, runVars, loadVars, handVars, heapVars
  <2> QED
    BY <1>1, <2>1, EarlyKeeps, MemKeeps
       DEF MInv, Silence, ShuttingDown, Handed, Before, Late, Closed, Quiet
<1> QED
  BY <1>1, <1>2, <1>3

LEMMA LoadInv ==
  ASSUME MInv,
         file_load \/ Extracted \/ ExtractFailed \/ KernelInvalid \/ Checked \/ RecordModule
  PROVE  MInv'
<1>1. /\ pc \in {"file_load", "extract", "check", "record"}
      /\ pc' \in {"extract", "check", "failed", "record", "verify", "file_load"}
      /\ UNCHANGED <<misuse, registered, told, phase, bufferSize>>
  BY DEF file_load, Extracted, ExtractFailed, KernelInvalid, Checked, RecordModule, Goto,
         runVars, handVars, exitVars, fwVars, logVars, bufferVars
<1>2. Silence' /\ Handed'
  BY <1>1, EarlyKeeps DEF MInv, Silence, ShuttingDown, Handed, Late, Closed, Quiet
<1>3. n \in ModuleIds /\ n \in Nat
  BY <1>1 DEF MInv, Mem, Before
<1>4. CASE file_load
  <2>1. /\ pc = "file_load" /\ pc' = "extract" /\ addr' = <<"file", n>>
        /\ pool' = pool \cup {<<"file", n>>} /\ UNCHANGED <<n, modules>>
    BY <1>4 DEF file_load, Goto
  <2>2. Owned(n) = {}
    BY <2>1 DEF MInv, Mem, Before
  <2>3. \A i \in ModuleIds : Owned(i)' = IF i = n THEN {<<"file", n>>} ELSE Owned(i)
    BY <2>1, <2>2 DEF Owned
  <2> QED
    BY <1>2, <1>3, <2>1, <2>3 DEF MInv, Mem, Before
<1>5. CASE Extracted
  <2>1. /\ pc = "extract" /\ pc' = "check" /\ UNCHANGED <<n, modules>>
    BY <1>5 DEF Extracted, Goto
  <2>2. addr = <<"file", n>> /\ Owned(n) \subseteq {<<"file", n>>}
    BY <2>1 DEF MInv, Mem
  <2>3. \/ pool' = pool \ {addr}
        \/ addr' = <<"data", n>> /\ pool' = (pool \ {addr}) \cup {addr'}
        \/ addr' = addr /\ pool' = pool
    BY <1>5 DEF Extracted, Freeing, Replacing, heapVars
  <2>4. \A i \in ModuleIds \ {n} : Owned(i)' \subseteq Owned(i)
    BY <2>3 DEF Owned
  <2>5. Owned(n)' \subseteq {addr'}
    BY <2>1, <2>2, <2>3 DEF Owned
  <2> QED
    BY <1>2, <1>3, <2>1, <2>4, <2>5 DEF MInv, Mem, Before
<1>6. CASE RecordModule
  <2>1. /\ pc = "record" /\ pc' = IF n = ModulesNr THEN "verify" ELSE "file_load"
        /\ modules' = [modules EXCEPT ![n] = addr] /\ n' = n + 1 /\ pool' = pool
    BY <1>6 DEF RecordModule, LastModule, exitVars, heapVars
  <2>2. Owned(n) \subseteq {addr} /\ \A i \in ModuleIds : Owned(i)' = Owned(i)
    BY <2>1 DEF MInv, Mem, Owned
  <2>3. \A i \in ModuleIds : i < n + 1 => Owned(i)' \subseteq {modules'[i]}
    <3>1. \A i \in ModuleIds : modules'[i] = IF i = n THEN addr ELSE modules[i]
      BY <2>1 DEF MInv, Mem
    <3>2. \A i \in ModuleIds : i < n + 1 => i < n \/ i = n
      BY <1>3 DEF ModuleIds
    <3> QED
      BY <2>2, <3>1, <3>2 DEF MInv, Mem
  <2>4. n + 1 \in Nat /\ (pc' = "file_load" => n + 1 \in ModuleIds)
    BY <1>3, <2>1, MbootConstants DEF ModuleIds
  <2>5. modules' = [i \in ModuleIds |-> modules'[i]]
    BY <2>1 DEF MInv, Mem
  <2>6. \A i \in ModuleIds : ~(i < n + 1) => Owned(i) = {}
    BY <1>3 DEF MInv, Mem, ModuleIds
  <2> QED
    BY <1>2, <2>1, <2>2, <2>3, <2>4, <2>5, <2>6 DEF MInv, Mem, Before, ModuleIds
<1>7. CASE ExtractFailed \/ KernelInvalid \/ Checked
  <2>1. /\ pool' \subseteq pool /\ UNCHANGED <<n, addr, modules>>
        /\ \/ pc = "extract" /\ pc' = "failed"
           \/ pc = "check" /\ pc' \in {"failed", "record"}
    BY <1>7 DEF ExtractFailed, KernelInvalid, Checked, Goto, Freeing, runVars, loadVars,
                exitVars, heapVars
  <2> QED
    BY <1>2, <2>1, MemKeeps DEF MInv, Before
<1> QED
  BY <1>4, <1>5, <1>6, <1>7

-----------------------------------------------------------------------------
(* The information for the kernel, and the end of the log.                 *)

LEMMA InfoInv ==
  ASSUME MInv,
         EstimateRuns \/ EstimateDone \/ esxbootinfo_init \/ NameTooLong
         \/ esxbootinfo_init_vbe
  PROVE  MInv'
<1>1. /\ pc \in {"boot_init", "eb_info", "vbe"}
      /\ pc' \in {"boot_init", "eb_info", "vbe", "failed", "log_unsubscribe"}
  BY DEF EstimateRuns, EstimateDone, esxbootinfo_init, NameTooLong, esxbootinfo_init_vbe,
         Goto
<1>2. UNCHANGED <<misuse, registered, told, n, addr, modules, bufferSize>>
  BY DEF EstimateRuns, EstimateDone, esxbootinfo_init, NameTooLong, esxbootinfo_init_vbe,
         runVars, handVars, loadVars, logVars, bufferVars
<1>3. ~ShuttingDown
  BY <1>1 DEF MInv, Silence, Late
<1>4. ~ShuttingDown' /\ pool' \subseteq pool \cup MapBuffers \cup EbInfo
  <2>1. CASE EstimateRuns
    <3>1. efi_get_memory_map \/ GiveUp
      BY <2>1 DEF EstimateRuns
    <3>2. pool' \subseteq pool \cup MapBuffers
      BY <3>1, ExitPool
    <3>3. CASE efi_get_memory_map
      <4>1. phase' = phase
        BY <3>3 DEF efi_get_memory_map, Query, First, Second, Another, TooSmall, Fails, Read
      <4> QED
        BY <1>3, <3>2, <4>1 DEF ShuttingDown
    <3>4. CASE GiveUp
      BY <2>1, <3>2, <3>4 DEF EstimateRuns, GiveUp, ShuttingDown
    <3> QED
      BY <3>1, <3>3, <3>4
  <2>2. CASE EstimateDone
    BY <2>2 DEF EstimateDone, Estimated, Freeing, ShuttingDown
  <2>3. CASE esxbootinfo_init \/ NameTooLong \/ esxbootinfo_init_vbe
    BY <1>3, <2>3 DEF esxbootinfo_init, NameTooLong, esxbootinfo_init_vbe,
                      exitVars, heapVars, ShuttingDown
  <2> QED
    BY <2>1, <2>2, <2>3
<1>5. Silence' /\ Handed'
  BY <1>1, <1>2, <1>4, EarlyKeeps DEF MInv, Handed, Late, Closed, Quiet
<1>6. Mem'
  BY <1>1, <1>2, <1>4, MemKeeps DEF Before
<1> QED
  BY <1>5, <1>6 DEF MInv

LEMMA CloseInv ==
  ASSUME MInv, QuietFirmware \/ CloseLog \/ firmware_shutdown
  PROVE  MInv'
<1>1. UNCHANGED <<misuse, registered, told, n, addr, modules, pool>>
  BY DEF QuietFirmware, CloseLog, firmware_shutdown, Shutdown, NotSanitized, Begin,
         runVars, handVars,
         loadVars, exitVars, heapVars, fwVars
<1>2. registered = 0 /\ told = 0 /\ (firmware_shutdown \/ ~ShuttingDown')
  BY DEF QuietFirmware, CloseLog, firmware_shutdown, Goto, MInv, Silence, ShuttingDown,
         Handed, Late, exitVars
<1>3. CASE QuietFirmware
  <2>1. /\ pc' = "expand_disable" /\ "firmware_print" \notin consoles'
        /\ bufferSize' = bufferSize /\ ~ShuttingDown'
    BY <1>2, <1>3 DEF QuietFirmware, QuietConsole, log_unsubscribe, Goto, bufferVars,
                      firmware_shutdown
  <2> QED
    BY <1>1, <1>2, <2>1, MemKeeps
       DEF MInv, Silence, Handed, KernelLog, Before, Late, Closed
<1>4. CASE CloseLog
  <2>1. /\ pc = "expand_disable" /\ pc' = "shutdown" /\ consoles' = consoles /\ ~expand'
        /\ bufferSize' \in Nat /\ ~ShuttingDown'
    BY <1>2, <1>4, LogConstants
       DEF CloseLog, LastExpansion, syslogbuf_expand_disable, Goto, MInv, Handed,
           firmware_shutdown
  <2>2. "firmware_print" \notin consoles'
    BY <2>1 DEF MInv, Silence, Quiet
  <2> QED
    BY <1>1, <1>2, <2>1, <2>2, MemKeeps DEF MInv, Silence, Handed, KernelLog, Before, Late
<1>5. CASE firmware_shutdown
  <2>1. /\ pc = "shutdown" /\ pc' = "exit" /\ UNCHANGED <<consoles, expand, bufferSize>>
    BY <1>5 DEF firmware_shutdown, Goto, logVars, bufferVars
  <2> QED
    BY <1>1, <1>2, <2>1, MemKeeps
       DEF MInv, Silence, Handed, KernelLog, Before, Late, Closed, Quiet
<1> QED
  BY <1>3, <1>4, <1>5

-----------------------------------------------------------------------------
(* After the shutdown.                                                     *)

LEMMA LateKeeps ==
  ASSUME MInv, pc \in Late, pc' \in Late,
         UNCHANGED <<misuse, consoles, expand, bufferSize>>,
         pool' \subseteq pool \cup MapBuffers, UNCHANGED <<n, addr, modules>>
  PROVE  Silence' /\ Mem'
<1>1. Silence'
  BY DEF MInv, Silence, Late, Closed, Quiet
<1>2. Mem'
  BY MemKeeps DEF Late, Before
<1> QED
  BY <1>1, <1>2

LEMMA ExitInvM ==
  ASSUME MInv, ExitRuns \/ MeasureTables \/ ExitFailed
  PROVE  MInv'
<1>1. /\ pc = "exit" /\ pc' \in {"exit", "panic"}
      /\ UNCHANGED <<misuse, consoles, expand, bufferSize, n, addr, modules,
                     registered, told>>
  BY DEF ExitRuns, MeasureTables, ExitFailed, Goto, runVars, loadVars, handVars, logVars,
         bufferVars
<1>2. pool' \subseteq pool \cup MapBuffers
  BY ExitPool DEF ExitRuns, MeasureTables, ExitFailed, allocate_page_tables, exitVars,
                  heapVars
<1>3. Silence' /\ Mem'
  BY <1>1, <1>2, LateKeeps DEF Late
<1>4. Handed'
  BY <1>1 DEF MInv, Handed, KernelLog, Late
<1> QED
  BY <1>3, <1>4 DEF MInv

LEMMA HandInv ==
  ASSUME MInv,
         relocate_page_tables1 \/ boot_register \/ compute_relocations
         \/ boot_set_runtime_pointers \/ relocate_runtime_services
         \/ install_trampoline \/ Unrecoverable
  PROVE  MInv'
<1>1. /\ pc \in Late /\ pc' \in Late
      /\ UNCHANGED <<misuse, consoles, expand, bufferSize, n, addr, modules, pool>>
  BY DEF relocate_page_tables1, boot_register, compute_relocations,
         boot_set_runtime_pointers, relocate_runtime_services, install_trampoline,
         Unrecoverable, Goto, runVars, loadVars, exitVars, heapVars, logVars, bufferVars,
         Late
<1>2. Silence' /\ Mem'
  BY <1>1, LateKeeps
<1>3. CASE boot_register
  BY <1>1, <1>2, <1>3 DEF boot_register, Goto, MInv, Handed, KernelLog, Late
<1>4. CASE boot_set_runtime_pointers
  BY <1>1, <1>2, <1>4 DEF boot_set_runtime_pointers, Goto, MInv, Handed, KernelLog, Late
<1>5. CASE relocate_page_tables1 \/ compute_relocations \/ relocate_runtime_services
             \/ install_trampoline \/ Unrecoverable
  <2>1. UNCHANGED <<registered, told>>
    BY <1>5 DEF relocate_page_tables1, compute_relocations, relocate_runtime_services,
                install_trampoline, Unrecoverable, runVars, handVars
  <2>2. \/ pc = "exit" /\ pc' = "boot_register"
        \/ pc = "compute_relocations" /\ pc' = "boot_set_runtime_pointers"
        \/ pc = "relocate_runtime_services" /\ pc' = "install_trampoline"
        \/ pc = "install_trampoline" /\ pc' = "jump"
        \/ pc' = "panic"
    BY <1>5 DEF relocate_page_tables1, compute_relocations, relocate_runtime_services,
                install_trampoline, Unrecoverable, Goto
  <2> QED
    BY <1>1, <1>2, <2>1, <2>2 DEF MInv, Handed, KernelLog, Late
<1> QED
  BY <1>3, <1>4, <1>5

-----------------------------------------------------------------------------
(* A message at any moment.                                                *)

LEMMA MessageInv ==
  ASSUME MInv, NEW size \in MsgSizes, Message(size)
  PROVE  MInv'
<1>1. /\ UNCHANGED <<pc, registered, told, n, addr, modules, pool, phase, installed>>
      /\ pc # "returned" /\ Log(size)
  BY DEF Message, runVars, handVars, loadVars, acpiVars, heapVars
<1>2. Mem'
  BY <1>1, MemKeeps
<1>3. consoles' = consoles /\ (~expand => ~expand')
  BY <1>1 DEF Log, Keep, Drop, Write, Overflow, bufferVars
<1>4. bufferSize' \in Nat /\ (~expand => bufferSize' = bufferSize)
  <2>1. CASE buf = "none"
    BY <1>1, <2>1 DEF Log, bufferVars, MInv, Handed
  <2>2. CASE buf # "none"
    <3>1. PICK k \in 0 .. MaxLog : Write(size, k) \/ Overflow(size, k)
      BY <1>1, <2>2 DEF Log, Keep, Drop
    <3>2. bufferSize' = bufferSize + k * LogPage /\ (k > 0 => expand)
      BY <3>1 DEF Write, Overflow
    <3>3. k \in Nat /\ LogPage \in Nat /\ bufferSize \in Nat
      BY LogConstants DEF MInv, Handed
    <3>4. k * LogPage \in Nat /\ (k = 0 => k * LogPage = 0)
      BY <3>3
    <3> QED
      BY <3>2, <3>3, <3>4
  <2> QED
    BY <2>1, <2>2
<1>5. Silence'
  <2>1. ShuttingDown => "firmware_print" \notin consoles /\ ~Grows(size)
    BY DEF MInv, Silence, Grows, Late, Closed, Quiet
  <2>2. misuse' = \/ misuse
                  \/ ShuttingDown /\ ("firmware_print" \in consoles \/ Grows(size))
    BY DEF Message
  <2>3. misuse' = FALSE
    BY <2>1, <2>2 DEF MInv, Silence
  <2> QED
    BY <1>1, <1>3, <2>3 DEF MInv, Silence, ShuttingDown
<1>6. Handed'
  <2>1. CASE pc \in Late
    <3>1. ~expand
      BY <2>1 DEF MInv, Silence, Closed
    <3> QED
      BY <1>1, <1>4, <3>1 DEF MInv, Handed, KernelLog
  <2>2. CASE pc \notin Late
    BY <1>1, <1>4, <2>2 DEF MInv, Handed, KernelLog, Late
  <2> QED
    BY <2>1, <2>2
<1> QED
  BY <1>2, <1>5, <1>6 DEF MInv

LEMMA SameInv ==
  ASSUME MInv, FirmwareChange \/ UNCHANGED vars
  PROVE  MInv'
<1>1. UNCHANGED <<pc, misuse, registered, told, n, addr, modules, pool, phase,
                  installed, consoles, expand, bufferSize>>
  BY DEF FirmwareChange, Change, vars, runVars, handVars, loadVars, acpiVars, exitVars,
         heapVars, fwVars, logVars, bufferVars
<1>2. Mem'
  BY <1>1, MemKeeps
<1>3. Silence' /\ Handed'
  BY <1>1 DEF MInv, Silence, ShuttingDown, Handed, KernelLog
<1> QED
  BY <1>2, <1>3 DEF MInv

LEMMA MNextInv == MInv /\ [Next]_vars => MInv'
<1> SUFFICES ASSUME MInv, [Next]_vars PROVE MInv'
  OBVIOUS
<1>1. CASE Starting
  BY <1>1, StartsInv, ShowInv, FailInv, LoadInv DEF Starting, Loading
<1>2. CASE Ending
  BY <1>2, FailInv, InfoInv, CloseInv, ExitInvM, HandInv DEF Ending
<1> QED
  BY <1>1, <1>2, StartsInv, MessageInv, SameInv DEF Next, Step

-----------------------------------------------------------------------------
\* mboot.c:666 and log.c:262: no message makes the firmware print, or give the
\* log memory, from the moment its shutdown begins.
THEOREM NoFirmwareAfterExit == Spec => []FirmwareDiscipline
<1>1. MInv => FirmwareDiscipline
  BY DEF MInv, Silence, FirmwareDiscipline
<1> QED
  BY <1>1, MInitInv, MNextInv, PTL DEF Spec

\* boot_register and boot_set_runtime_pointers: the log the kernel is told of
\* has the size of the one that is moved for it.
THEOREM LogHandedOver == Spec => []KernelLog
<1>1. MInv => KernelLog
  BY DEF MInv, Handed
<1> QED
  BY <1>1, MInitInv, MNextInv, PTL DEF Spec

\* clean: wherever mboot fails, it returns having asked for its tables to be
\* uninstalled and with all modules unloaded; at most the one buffer that
\* load_module held is still allocated.
THEOREM ReturnsClean == Spec => []CleanReturn
<1>1. MInv => CleanReturn
  <2>1. SUFFICES ASSUME MInv, pc = "returned", NEW b \in pool \cap Buffers
                 PROVE  b = addr
    BY DEF MInv, Mem, CleanReturn
  <2>2. PICK i \in ModuleIds : b \in {<<"file", i>>, <<"data", i>>}
    BY <2>1 DEF Buffers
  <2>3. b \in Owned(i)
    BY <2>1, <2>2 DEF Owned
  <2>4. ~(i < n) /\ ~(i > n) /\ i \in Nat /\ n \in Nat
    BY <2>1, <2>3 DEF MInv, Mem, ModuleIds
  <2>5. i = n
    BY <2>4
  <2> QED
    BY <2>1, <2>3, <2>5 DEF MInv, Mem
<1> QED
  BY <1>1, MInitInv, MNextInv, PTL DEF Spec
-----------------------------------------------------------------------------
(* The log in a run of mboot: every step is a step of LogBuffer, or none of *)
(* its business.                                                           *)

LEMMA LogSteps == ASSUME [Next]_vars PROVE [LogNext]_logVars
<1>1. ASSUME mboot_init PROVE LogNext
  BY <1>1 DEF mboot_init, LogNext
<1>2. ASSUME serial_log_init \/ fbcon_init \/ fbcon_set_verbosity PROVE LogNext
  <2>1. PICK c \in Consoles : log_subscribe(c) /\ UNCHANGED bufferVars
    BY <1>2, MbootConstants DEF serial_log_init, fbcon_init, fbcon_set_verbosity
  <2> QED
    BY <2>1 DEF LogNext
<1>3. ASSUME video_set_mode \/ esxbootinfo_init_vbe \/ QuietFirmware
      PROVE  [LogNext]_logVars
  <2>1. \/ UNCHANGED logVars
        \/ \E c \in Consoles \cup {"firmware_print"} :
             log_unsubscribe(c) /\ UNCHANGED bufferVars
    BY <1>3, MbootConstants
       DEF video_set_mode, esxbootinfo_init_vbe, QuietFirmware, QuietConsole, logVars
  <2> QED
    BY <2>1 DEF LogNext
<1>4. ASSUME CloseLog PROVE LogNext
  BY <1>4 DEF CloseLog, LastExpansion, LogNext
<1>5. ASSUME NEW size \in MsgSizes, Message(size) PROVE LogNext
  BY <1>5 DEF Message, LogNext
<1>6. ASSUME clean \/ LoadFailed \/ EstimateFailed \/ chainload_parent
      PROVE  UNCHANGED logVars
  BY <1>6 DEF clean, LoadFailed, EstimateFailed, chainload_parent, Fail
<1>7. ASSUME NoSerial \/ log_memory_map \/ NoDebug \/ ShowRuns \/ Shown
             \/ gui_init_failed \/ parse_config \/ EditDone \/ secure_boot_mode
             \/ install_acpitab \/ AcpiDone \/ file_load \/ Extracted \/ ExtractFailed
             \/ KernelInvalid \/ Checked \/ RecordModule \/ secure_boot_check
      PROVE  UNCHANGED logVars
  BY <1>7 DEF NoSerial, log_memory_map, NoDebug, ShowRuns, Shown, gui_init_failed,
              parse_config, EditDone, secure_boot_mode,
              install_acpitab, AcpiDone, file_load, Extracted, ExtractFailed,
              KernelInvalid, Checked, RecordModule, secure_boot_check
<1>8. ASSUME EstimateRuns \/ EstimateDone \/ esxbootinfo_init \/ NameTooLong
             \/ firmware_shutdown \/ ExitRuns \/ MeasureTables \/ ExitFailed
             \/ relocate_page_tables1 \/ boot_register \/ compute_relocations
             \/ boot_set_runtime_pointers \/ relocate_runtime_services
             \/ install_trampoline \/ Unrecoverable \/ FirmwareChange
      PROVE  UNCHANGED logVars
  BY <1>8 DEF EstimateRuns, EstimateDone, esxbootinfo_init, NameTooLong, firmware_shutdown,
              ExitRuns, MeasureTables, ExitFailed, relocate_page_tables1, boot_register,
              compute_relocations, boot_set_runtime_pointers, relocate_runtime_services,
              install_trampoline, Unrecoverable, FirmwareChange
<1>9. CASE UNCHANGED vars
  BY <1>9 DEF vars
<1> QED
  BY <1>1, <1>2, <1>3, <1>4, <1>5, <1>6, <1>7, <1>8, <1>9
     DEF Next, Step, Starting, Ending, Loading

\* bootlib/log.c under mboot.c: whatever the run does, its log is one of those
\* LogBuffer describes; mboot calls the log in no other way.
THEOREM LogOfRun == Spec => LogSpec
<1>1. Init => LogInit
  BY DEF Init
<1> QED
  BY <1>1, LogSteps, PTL DEF Spec, LogSpec

\* bootlib/log.c under mboot.c: no message of a run is lost without the text
\* that says so.
THEOREM RunMarksLosses == Spec => []LostIsMarked
BY LogOfRun, LogSound, PTL

\* bootlib/log.c under mboot.c: nothing follows that text in a run, also not
\* what the last expansion before the shutdown makes room for.
THEOREM RunEndsLog == Spec => OverflowIsLast
BY LogOfRun, LogEnds, PTL

-----------------------------------------------------------------------------
(* Memory and types in a run of mboot.  No module's memory is freed twice,  *)
(* so that no call for it disturbs the buffers for maps.                    *)

Pool ==
  /\ addr \in {NULL, <<"file", n>>, <<"data", n>>}
  /\ pc \in {"extract", "check", "record"} /\ addr # NULL => addr \in pool
  /\ \A i \in ModuleIds :
       /\ modules[i] \in {NULL, <<"file", i>>, <<"data", i>>}
       /\ modules[i] # NULL => i < n /\ modules[i] \in pool

Types ==
  /\ headless \in BOOLEAN /\ secure_boot \in BOOLEAN
  /\ acpitab_nr \in 0 .. MaxAcpiTabs /\ installed \subseteq 1 .. MaxAcpiTabs
  /\ n \in 1 .. ModulesNr + 1 /\ (addr # NULL => n \in ModuleIds)
  /\ registered \in Nat /\ told \in Nat
  /\ pages \in {0} \cup PageCounts /\ pdbr \in {Root, Copy1, Copy2}

RunInv == MInv /\ ExitInv /\ Pool /\ Types

LEMMA RunInitInv == Init => RunInv
<1> SUFFICES ASSUME Init PROVE RunInv
  OBVIOUS
<1>1. MInv
  BY MInitInv
<1>2. ExitInv
  BY ExitInitInv DEF Init
<1>3. Pool
  BY DEF Init, Pool
<1>4. Types
  <2>1. 0 \in 0 .. MaxAcpiTabs /\ 1 \in 1 .. ModulesNr + 1
    BY MbootConstants
  <2> QED
    BY <2>1 DEF Init, Types
<1> QED
  BY <1>1, <1>2, <1>3, <1>4 DEF RunInv

(* Addresses of different uses differ.                                     *)
LEMMA ModuleBuffers ==
  \A i \in ModuleIds : \A b \in {<<"file", i>>, <<"data", i>>} :
    b \in Buffers /\ b # NULL /\ b \notin MapBuffers /\ b \notin EbInfo
<1> SUFFICES ASSUME NEW i \in ModuleIds, NEW b \in {<<"file", i>>, <<"data", i>>}
             PROVE  b \in Buffers /\ b # NULL /\ b \notin MapBuffers /\ b \notin EbInfo
  OBVIOUS
<1>1. b \in Buffers
  BY DEF Buffers
<1>2. b \notin EbInfo
  BY DEF EbInfo
<1> QED
  BY <1>1, <1>2, MbootConstants

(* A step that keeps the addresses of modules, and what has them.           *)
LEMMA PoolKeeps ==
  ASSUME RunInv, UNCHANGED <<n, addr, modules>>,
         \A b \in Buffers : b \in pool => b \in pool',
         pc' \in {"extract", "check", "record"} => pc \in {"extract", "check", "record"}
  PROVE  Pool'
<1>1. \A i \in ModuleIds : modules[i] # NULL => modules[i] \in pool'
  BY ModuleBuffers DEF RunInv, Pool
<1>2. pc' \in {"extract", "check", "record"} /\ addr # NULL => addr \in pool'
  BY ModuleBuffers DEF RunInv, Pool, Types
<1> QED
  BY <1>1, <1>2 DEF RunInv, Pool

(* A step that takes or gives back memory for anything but maps.            *)
LEMMA ExitKeeps ==
  ASSUME ExitInv, UNCHANGED <<phase, step, mapVars, fwVars, fault>>,
         pool' \cap MapBuffers = pool \cap MapBuffers, NULL \notin pool'
  PROVE  ExitInv'
<1>1. ExitTypeOK' /\ Held'
  BY DEF ExitInv, ExitTypeOK, Held, mapVars, fwVars
<1>2. MapsOwned'
  BY DEF ExitInv, MapsOwned, mapVars
<1>3. MapIsCurrent'
  BY DEF ExitInv, ExitTypeOK, MapIsCurrent, mapVars, fwVars
<1> QED
  BY <1>1, <1>2, <1>3 DEF ExitInv

LEMMA FreeingKeeps ==
  ASSUME ExitInv, UNCHANGED <<phase, step, mapVars, fwVars>>,
         NEW S, Freeing(S), S \cap MapBuffers = {}, S \ {NULL} \subseteq pool
  PROVE  ExitInv'
<1>1. pool' = pool \ S /\ fault' = fault
  BY DEF Freeing, ExitInv, ExitTypeOK
<1>2. pool' \cap MapBuffers = pool \cap MapBuffers /\ NULL \notin pool'
  BY <1>1 DEF ExitInv, MapsOwned
<1> QED
  BY <1>1, <1>2, ExitKeeps

(* A step of ExitBoot keeps the memory that is not for maps.                *)
LEMMA ExitStepPool ==
  ASSUME ExitInv, Estimated \/ exit_boot_services
  PROVE  \A b \in pool : b \notin MapBuffers => b \in pool'
<1>1. {Buffer, efiMap} \subseteq MapBuffers \cup {NULL} /\ NULL \notin pool
  BY DEF ExitInv, ExitTypeOK, MapsOwned
<1>2. ASSUME NEW next, Another(next) PROVE pool \ {Buffer} \subseteq pool'
  BY <1>2 DEF Another, Replacing
<1>3. ASSUME Fails PROVE pool \ {Buffer} \subseteq pool'
  BY <1>3 DEF Fails, Freeing
<1>4. CASE efi_get_memory_map
  BY <1>1, <1>2, <1>3, <1>4
     DEF efi_get_memory_map, Query, First, Second, TooSmall, Read, heapVars
<1>5. CASE Estimated \/ GiveUp \/ allocate_page_tables \/ get_memory_map
  BY <1>1, <1>5
     DEF Estimated, GiveUp, allocate_page_tables, get_memory_map, Freeing, heapVars
<1>6. CASE ExitBootServices
  BY <1>1, <1>6
     DEF ExitBootServices, Leave, Refused, ExitError, free_memory_map, Freeing, heapVars
<1> QED
  BY <1>4, <1>5, <1>6 DEF exit_boot_services

LEMMA StartsRun ==
  ASSUME RunInv,
         mboot_init \/ (pc = "options" /\ serial_log_init) \/ NoSerial
         \/ NoDebug \/ Shown \/ video_set_mode \/ gui_init_failed \/ fbcon_init
         \/ parse_config \/ EditDone
         \/ secure_boot_mode \/ install_acpitab \/ AcpiDone \/ secure_boot_check
         \/ (pc = "edit" /\ (serial_log_init \/ fbcon_set_verbosity))
  PROVE  RunInv'
<1>1. MInv'
  BY StartsInv DEF RunInv
<1>2. ExitInv'
  <2>1. CASE secure_boot_check
    BY <2>1, ExitNextInv DEF secure_boot_check, ExitNext, RunInv
  <2>2. CASE ~secure_boot_check
    <3>1. UNCHANGED exitVars
      BY <2>2 DEF mboot_init, serial_log_init, NoSerial, NoDebug, Shown, video_set_mode,
                  gui_init_failed,
                  fbcon_init, parse_config, EditDone, secure_boot_mode, install_acpitab,
                  AcpiDone, fbcon_set_verbosity
    <3> QED
      BY <3>1, ExitNextInv DEF RunInv
  <2> QED
    BY <2>1, <2>2
<1>3. UNCHANGED <<n, addr, modules, registered, told, pages, pdbr, pool>>
  BY DEF mboot_init, serial_log_init, NoSerial, NoDebug, Shown, video_set_mode,
         gui_init_failed, fbcon_init,
         parse_config, EditDone, secure_boot_mode, install_acpitab, AcpiDone,
         secure_boot_check, Estimate, Begin, fbcon_set_verbosity, runVars, loadVars,
         handVars, ptVars, exitVars, heapVars
<1>4. pc' \notin {"extract", "check", "record"}
  BY DEF mboot_init, serial_log_init, NoSerial, NoDebug, Shown, video_set_mode,
         gui_init_failed, fbcon_init,
         parse_config, EditDone, secure_boot_mode, install_acpitab, AcpiDone,
         secure_boot_check, fbcon_set_verbosity, Goto
<1>5. Pool'
  BY <1>3, <1>4, PoolKeeps
<1>6. /\ headless' \in BOOLEAN /\ secure_boot' \in BOOLEAN
      /\ acpitab_nr' \in 0 .. MaxAcpiTabs
  BY DEF mboot_init, serial_log_init, NoSerial, NoDebug, Shown, video_set_mode,
         gui_init_failed, fbcon_init,
         parse_config, EditDone, secure_boot_mode, install_acpitab, AcpiDone,
         secure_boot_check, fbcon_set_verbosity, runVars, bootVars, acpiVars, RunInv, Types
<1>7. installed' \subseteq 1 .. MaxAcpiTabs
  <2>1. CASE install_acpitab
    <3>1. Cardinality(installed) \in Nat
      <4>1. IsFiniteSet(1 .. MaxAcpiTabs)
        BY FS_Interval, MbootConstants
      <4> QED
        BY <4>1, FS_Subset, FS_CardinalityType DEF RunInv, Types
    <3>2. Cardinality(installed) + 1 \in 1 .. MaxAcpiTabs
      BY <2>1, <3>1, MbootConstants DEF install_acpitab, RunInv, Types
    <3> QED
      BY <2>1, <3>2 DEF install_acpitab, RunInv, Types
  <2>2. CASE ~install_acpitab
    BY <2>2 DEF mboot_init, serial_log_init, NoSerial, NoDebug, Shown, video_set_mode,
                gui_init_failed,
                fbcon_init, parse_config, EditDone, secure_boot_mode, AcpiDone,
                secure_boot_check, fbcon_set_verbosity, runVars, acpiVars, RunInv, Types
  <2> QED
    BY <2>1, <2>2
<1>8. Types'
  BY <1>3, <1>6, <1>7 DEF RunInv, Types
<1> QED
  BY <1>1, <1>2, <1>5, <1>8 DEF RunInv

LEMMA FailRun ==
  ASSUME RunInv, clean \/ LoadFailed \/ EstimateFailed \/ chainload_parent
  PROVE  RunInv'
<1>1. MInv'
  BY FailInv DEF RunInv
<1>2. (CleanUp \/ Hang) /\ UNCHANGED <<phase, step, fwVars>>
  BY DEF clean, LoadFailed, EstimateFailed, chainload_parent, Fail
<1>3. CASE CleanUp
  <2>1. DEFINE S == {modules[i] : i \in ModuleIds}
  <2>2. /\ Freeing(S) /\ modules' = [i \in ModuleIds |-> NULL] /\ pc' = "returned"
        /\ installed' = {} /\ acpitab_nr' = 0
        /\ UNCHANGED <<headless, secure_boot, n, addr, registered, told, pages, pdbr,
                     mapVars>>
    BY <1>3 DEF CleanUp, unload_boot_modules, bootVars, ptVars, handVars
  <2>3. S \cap MapBuffers = {} /\ S \ {NULL} \subseteq pool
    BY ModuleBuffers, MapConstants DEF RunInv, Pool
  <2>4. ExitInv'
    <3> HIDE DEF S
    <3> QED
      BY <1>2, <2>2, <2>3, FreeingKeeps DEF RunInv
  <2>5. Pool'
    BY <2>2 DEF RunInv, Pool
  <2>6. 0 \in 0 .. MaxAcpiTabs
    BY MbootConstants
  <2>7. Types'
    BY <2>2, <2>6 DEF RunInv, Types
  <2> QED
    BY <1>1, <2>4, <2>5, <2>7 DEF RunInv
<1>4. CASE Hang
  <2>1. UNCHANGED <<runVars, mapVars, heapVars>> /\ pc' = "hung"
    BY <1>4 DEF Hang
  <2>2. ExitInv'
    BY <1>2, <2>1, ExitKeeps DEF heapVars, RunInv, ExitInv, MapsOwned
  <2>3. Pool' /\ Types'
    BY <2>1, PoolKeeps DEF runVars, bootVars, acpiVars, loadVars, ptVars, handVars,
                           heapVars,
                           RunInv, Types
  <2> QED
    BY <1>1, <2>2, <2>3 DEF RunInv
<1> QED
  BY <1>2, <1>3, <1>4

LEMMA LoadRun ==
  ASSUME RunInv,
         file_load \/ Extracted \/ ExtractFailed \/ KernelInvalid \/ Checked \/ RecordModule
  PROVE  RunInv'
<1>1. MInv'
  BY LoadInv DEF RunInv
<1>2. /\ pc \in {"file_load", "extract", "check", "record"}
      /\ UNCHANGED <<headless, secure_boot, acpitab_nr, installed, registered, told,
                     pages, pdbr, phase, step, mapVars, fwVars>>
  BY DEF file_load, Extracted, ExtractFailed, KernelInvalid, Checked, RecordModule, Goto,
         runVars, bootVars, acpiVars, ptVars, handVars, exitVars
<1>3. n \in ModuleIds /\ n \in Nat
  BY <1>2 DEF RunInv, MInv, Mem, Before
<1>4. addr # NULL => addr \in Buffers /\ addr \notin MapBuffers
  BY <1>3, ModuleBuffers DEF RunInv, Pool
<1>5. CASE file_load
  <2>1. /\ addr' = <<"file", n>> /\ pool' = pool \cup {<<"file", n>>}
        /\ UNCHANGED <<n, modules, fault>>
    BY <1>5 DEF file_load
  <2>2. <<"file", n>> \notin MapBuffers /\ <<"file", n>> # NULL
    BY <1>3, ModuleBuffers
  <2>3. ExitInv'
    BY <1>2, <2>1, <2>2, ExitKeeps DEF RunInv, ExitInv, MapsOwned
  <2>4. Pool' /\ Types'
    BY <1>2, <1>3, <2>1 DEF RunInv, Pool, Types
  <2> QED
    BY <1>1, <2>3, <2>4 DEF RunInv
<1>6. CASE Extracted \/ ExtractFailed \/ KernelInvalid
  <2>1. /\ pc \in {"extract", "check"} /\ pc' \in {"check", "failed"}
        /\ UNCHANGED <<n, modules>>
    BY <1>6 DEF Extracted, ExtractFailed, KernelInvalid, Goto, runVars, loadVars
  <2>2. addr # NULL => addr \in pool
    BY <2>1 DEF RunInv, Pool
  <2>3. \A i \in ModuleIds : modules[i] # NULL => modules[i] # addr
    <3>1. SUFFICES ASSUME NEW i \in ModuleIds, modules[i] # NULL, modules[i] = addr
                   PROVE FALSE
      OBVIOUS
    <3>2. i # n /\ modules[i] \in {<<"file", i>>, <<"data", i>>}
      BY <1>3, <3>1 DEF RunInv, Pool
    <3> QED
      BY <3>1, <3>2 DEF RunInv, Pool
  <2>4. CASE Freeing({addr}) /\ (addr' = NULL \/ (addr' = addr /\ pc' = "failed"))
    <3>1. ExitInv'
      BY <1>2, <1>4, <2>2, <2>4, FreeingKeeps, MapConstants DEF RunInv
    <3>2. Pool'
      BY <2>1, <2>3, <2>4 DEF Freeing, RunInv, Pool
    <3> QED
      BY <1>1, <1>2, <2>1, <2>4, <3>1, <3>2 DEF RunInv, Types
  <2>5. CASE addr' = <<"data", n>> /\ Replacing(addr, addr') /\ pc' = "check"
    <3>1. addr' # NULL /\ addr' \notin MapBuffers
      BY <1>3, <2>5, ModuleBuffers
    <3>2. pool' = (pool \ {addr}) \cup {addr'} /\ fault' = fault
      BY <2>2, <2>5 DEF Replacing, RunInv, ExitInv, ExitTypeOK
    <3>3. pool' \cap MapBuffers = pool \cap MapBuffers /\ NULL \notin pool'
      BY <1>4, <3>1, <3>2, MapConstants DEF RunInv, ExitInv, MapsOwned
    <3>4. ExitInv'
      BY <1>2, <3>2, <3>3, ExitKeeps DEF RunInv
    <3>5. Pool'
      BY <2>1, <2>3, <2>5, <3>2 DEF RunInv, Pool
    <3> QED
      BY <1>1, <1>2, <1>3, <2>1, <3>4, <3>5 DEF RunInv, Types
  <2>6. CASE UNCHANGED <<addr, heapVars>>
    <3>1. ExitInv'
      BY <1>2, <2>6, ExitKeeps DEF heapVars, RunInv, ExitInv, MapsOwned
    <3>2. Pool'
      BY <2>1, <2>6, PoolKeeps DEF heapVars
    <3> QED
      BY <1>1, <1>2, <2>1, <2>6, <3>1, <3>2 DEF RunInv, Types
  <2> QED
    BY <1>6, <2>4, <2>5, <2>6
       DEF Extracted, ExtractFailed, KernelInvalid, Goto, runVars, loadVars
<1>7. CASE Checked
  <2>1. UNCHANGED <<n, addr, modules, pool, fault>> /\ pc = "check"
    BY <1>7 DEF Checked, Goto, runVars, loadVars, exitVars, heapVars
  <2>2. ExitInv'
    BY <1>2, <2>1, ExitKeeps DEF RunInv, ExitInv, MapsOwned
  <2>3. Pool'
    BY <2>1, PoolKeeps
  <2> QED
    BY <1>1, <1>2, <2>1, <2>2, <2>3 DEF RunInv, Types
<1>8. CASE RecordModule
  <2>1. /\ pc = "record" /\ pc' \in {"verify", "file_load"}
        /\ modules' = [modules EXCEPT ![n] = addr] /\ n' = n + 1 /\ addr' = NULL
        /\ pool' = pool /\ fault' = fault
    BY <1>8 DEF RecordModule, exitVars, heapVars
  <2>2. ExitInv'
    BY <1>2, <2>1, ExitKeeps DEF RunInv, ExitInv, MapsOwned
  <2>3. \A i \in ModuleIds : modules'[i] = IF i = n THEN addr ELSE modules[i]
    BY <2>1 DEF RunInv, MInv, Mem
  <2>4. \A i \in ModuleIds : i < n \/ i = n => i < n + 1
    BY <1>3 DEF ModuleIds
  <2>5. Pool'
    BY <2>1, <2>3, <2>4 DEF RunInv, Pool
  <2>6. n + 1 \in 1 .. ModulesNr + 1
    BY <1>3, MbootConstants DEF ModuleIds
  <2> QED
    BY <1>1, <1>2, <2>1, <2>2, <2>5, <2>6 DEF RunInv, Types
<1> QED
  BY <1>5, <1>6, <1>7, <1>8

(* The steps that are ExitBoot's own, and those that change nothing of it.  *)
LEMMA ServicesRun ==
  ASSUME RunInv, MInv',
         \/ Estimated \/ exit_boot_services \/ Show \/ Shutdown \/ Change
         \/ UNCHANGED exitVars,
         UNCHANGED <<n, addr, modules>>,
         pc' \notin {"extract", "check", "record"} \/ pc' = pc,
         Types'
  PROVE  RunInv'
<1>1. ExitInv'
  BY ExitNextInv DEF ExitNext, RunInv
<1>2. \A b \in Buffers : b \in pool => b \in pool'
  <2>1. \A b \in Buffers : b \notin MapBuffers
    BY MbootConstants
  <2>2. CASE Estimated \/ exit_boot_services
    BY <2>1, <2>2, ExitStepPool DEF RunInv
  <2>3. CASE Show \/ Shutdown \/ Change \/ UNCHANGED exitVars
    BY <2>3 DEF Show, Shutdown, NotSanitized, Begin, Change, exitVars, heapVars
  <2> QED
    BY <2>2, <2>3
<1>3. Pool'
  BY <1>2, PoolKeeps
<1> QED
  BY <1>1, <1>3 DEF RunInv

LEMMA ShowRun ==
  ASSUME RunInv, log_memory_map \/ ShowRuns
  PROVE  RunInv'
<1>1. MInv'
  BY ShowInv DEF RunInv
<1>2. /\ UNCHANGED runVars
      /\ pc' \notin {"extract", "check", "record"}
      /\ Show \/ Estimated \/ exit_boot_services
  BY DEF log_memory_map, ShowRuns, Goto, exit_boot_services
<1>3. Types' /\ UNCHANGED <<n, addr, modules>>
  BY <1>2 DEF runVars, bootVars, acpiVars, loadVars, ptVars, handVars, RunInv, Types
<1> QED
  BY <1>1, <1>2, <1>3, ServicesRun

LEMMA InfoRun ==
  ASSUME RunInv,
         EstimateRuns \/ EstimateDone \/ esxbootinfo_init \/ NameTooLong
         \/ esxbootinfo_init_vbe
  PROVE  RunInv'
<1>1. MInv'
  BY InfoInv DEF RunInv
<1>2. /\ UNCHANGED runVars
      /\ pc' \notin {"extract", "check", "record"}
  BY DEF EstimateRuns, EstimateDone, esxbootinfo_init, NameTooLong, esxbootinfo_init_vbe,
         Goto
<1>3. Types' /\ UNCHANGED <<n, addr, modules>>
  BY <1>2 DEF runVars, bootVars, acpiVars, loadVars, ptVars, handVars, RunInv, Types
<1>4. CASE EstimateRuns \/ EstimateDone \/ esxbootinfo_init_vbe
  BY <1>1, <1>2, <1>3, <1>4, ServicesRun
     DEF EstimateRuns, EstimateDone, esxbootinfo_init_vbe, exit_boot_services
<1>5. CASE esxbootinfo_init \/ NameTooLong
  <2>1. /\ pool' = pool \cup EbInfo
        /\ UNCHANGED <<fault, phase, step, mapVars, fwVars>>
    BY <1>5 DEF esxbootinfo_init, NameTooLong
  <2>2. ExitInv'
    BY <2>1, MbootConstants, ExitKeeps DEF RunInv, ExitInv, MapsOwned
  <2>3. Pool'
    BY <1>2, <1>3, <2>1, PoolKeeps
  <2> QED
    BY <1>1, <1>3, <2>2, <2>3 DEF RunInv
<1> QED
  BY <1>4, <1>5

LEMMA CloseRun ==
  ASSUME RunInv, QuietFirmware \/ CloseLog \/ firmware_shutdown
  PROVE  RunInv'
<1>1. MInv'
  BY CloseInv DEF RunInv
<1>2. /\ UNCHANGED runVars
      /\ pc' \notin {"extract", "check", "record"}
      /\ UNCHANGED exitVars \/ Shutdown
  BY DEF QuietFirmware, CloseLog, firmware_shutdown, Goto
<1>3. Types' /\ UNCHANGED <<n, addr, modules>>
  BY <1>2 DEF runVars, bootVars, acpiVars, loadVars, ptVars, handVars, RunInv, Types
<1> QED
  BY <1>1, <1>2, <1>3, ServicesRun

LEMMA ExitRun ==
  ASSUME RunInv, ExitRuns \/ MeasureTables \/ ExitFailed
  PROVE  RunInv'
<1>1. MInv'
  BY ExitInvM DEF RunInv
<1>2. /\ UNCHANGED <<bootVars, acpiVars, loadVars, handVars, pdbr>>
      /\ pc' \notin {"extract", "check", "record"}
      /\ exit_boot_services \/ UNCHANGED exitVars
  BY DEF ExitRuns, MeasureTables, ExitFailed, Goto, exit_boot_services, runVars, ptVars
<1>3. pages' \in {0} \cup PageCounts
  BY DEF ExitRuns, MeasureTables, ExitFailed, PageCounts, runVars, ptVars, RunInv, Types
<1>4. Types' /\ UNCHANGED <<n, addr, modules>>
  BY <1>2, <1>3 DEF bootVars, acpiVars, loadVars, handVars, RunInv, Types
<1> QED
  BY <1>1, <1>2, <1>4, ServicesRun

LEMMA HandRun ==
  ASSUME RunInv,
         relocate_page_tables1 \/ boot_register \/ compute_relocations
         \/ boot_set_runtime_pointers \/ relocate_runtime_services
         \/ install_trampoline \/ Unrecoverable
  PROVE  RunInv'
<1>1. MInv'
  BY HandInv DEF RunInv
<1>2. /\ UNCHANGED <<bootVars, acpiVars, loadVars, pages, exitVars>>
      /\ pc' \notin {"extract", "check", "record"}
  BY DEF relocate_page_tables1, boot_register, compute_relocations,
         boot_set_runtime_pointers, relocate_runtime_services, install_trampoline,
         Unrecoverable, Goto, runVars, ptVars, SwitchTables
<1>3. bufferSize \in Nat
  BY DEF RunInv, MInv, Handed
<1>4. registered' \in Nat /\ told' \in Nat /\ pdbr' \in {Root, Copy1, Copy2}
  BY <1>3 DEF relocate_page_tables1, boot_register, compute_relocations,
              boot_set_runtime_pointers, relocate_runtime_services, install_trampoline,
              Unrecoverable, runVars, ptVars, handVars, SwitchTables, RunInv, Types
<1>5. Types' /\ UNCHANGED <<n, addr, modules>>
  BY <1>2, <1>4 DEF bootVars, acpiVars, loadVars, RunInv, Types
<1> QED
  BY <1>1, <1>2, <1>5, ServicesRun

(* A message may make the firmware's map change, but not after it has left. *)
LEMMA MessageRun ==
  ASSUME RunInv, NEW size \in MsgSizes, Message(size)
  PROVE  RunInv'
<1>1. MInv'
  BY MessageInv DEF RunInv
<1>2. UNCHANGED <<pc, runVars, phase, step, mapVars, heapVars, grown, changes>>
  BY DEF Message
<1>3. Types' /\ Pool'
  BY <1>2, PoolKeeps
     DEF runVars, bootVars, acpiVars, loadVars, ptVars, handVars, heapVars, RunInv, Types
<1>4. ExitInv'
  <2>1. CASE ~Grows(size)
    BY <1>2, <2>1, ExitKeeps
       DEF Message, fwVars, heapVars, RunInv, ExitInv, MapsOwned
  <2>2. CASE Grows(size)
    <3>1. phase # "left"
      BY <2>2 DEF Grows, RunInv, MInv, Silence, ShuttingDown, Closed
    <3>2. keyFresh' = FALSE /\ mapFresh' = FALSE
      BY <2>2 DEF Message, MapChanges
    <3>3. ExitTypeOK' /\ MapsOwned' /\ Held'
      BY <1>2, <3>2 DEF mapVars, heapVars, RunInv, ExitInv, ExitTypeOK, MapsOwned, Held
    <3>4. MapIsCurrent'
      BY <1>2, <3>1 DEF MapIsCurrent
    <3> QED
      BY <3>3, <3>4 DEF ExitInv
  <2> QED
    BY <2>1, <2>2
<1> QED
  BY <1>1, <1>3, <1>4 DEF RunInv

LEMMA SameRun ==
  ASSUME RunInv, FirmwareChange \/ UNCHANGED vars
  PROVE  RunInv'
<1>1. MInv'
  BY SameInv DEF RunInv
<1>2. UNCHANGED <<pc, runVars>> /\ (Change \/ UNCHANGED exitVars)
  BY DEF FirmwareChange, vars
<1>3. Types' /\ UNCHANGED <<n, addr, modules>>
  BY <1>2 DEF runVars, bootVars, acpiVars, loadVars, ptVars, handVars, RunInv, Types
<1> QED
  BY <1>1, <1>2, <1>3, ServicesRun

LEMMA RunNextInv == RunInv /\ [Next]_vars => RunInv'
<1> SUFFICES ASSUME RunInv, [Next]_vars PROVE RunInv'
  OBVIOUS
<1>1. CASE Starting
  BY <1>1, StartsRun, ShowRun, FailRun, LoadRun DEF Starting, Loading
<1>2. CASE Ending
  BY <1>2, FailRun, InfoRun, CloseRun, ExitRun, HandRun DEF Ending
<1> QED
  BY <1>1, <1>2, StartsRun, MessageRun, SameRun DEF Next, Step

\* memory.c, exitboot.c and load.c together: in a run of mboot no buffer for a
\* map is leaked, shared or freed twice, and no memory of a module is either.
THEOREM RunOwnsMaps == Spec => []MapsOwned
<1>1. RunInv => MapsOwned
  BY DEF RunInv, ExitInv
<1> QED
  BY <1>1, RunInitInv, RunNextInv, PTL DEF Spec

\* exit_boot_services in a run of mboot: the map the kernel gets is current,
\* although messages are logged until the jump and may need memory.
THEOREM RunMapIsCurrent == Spec => []MapIsCurrent
<1>1. RunInv => MapIsCurrent
  BY DEF RunInv, ExitInv
<1> QED
  BY <1>1, RunInitInv, RunNextInv, PTL DEF Spec

\* mboot.c: every variable of the run, of its log and of the firmware's side
\* has its type.
THEOREM RunTypes == Spec => []TypeOK
<1>1. Spec => []LogTypeOK
  BY LogOfRun, LogSound, PTL
<1>2. LogTypeOK /\ RunInv => TypeOK
  BY ModuleBuffers, ZenonT(60) DEF RunInv, ExitInv, Pool, Types, MInv, Mem, Silence, TypeOK
<1> QED
  BY <1>1, <1>2, RunInitInv, RunNextInv, PTL DEF Spec

\* relocate_runtime_services: in every run the ranges of the runtime services
\* are apart, in the kernel's region, and where the kernel's capabilities and
\* the code in them need them.
THEOREM RunPlacesServices == Spec => []RtsSound
<1>1. RtsUsable(NoServices)
  <2>1. NoServices.map = << >> /\ DOMAIN << >> = {}
    BY DEF NoServices
  <2> QED
    BY <2>1 DEF RtsUsable
<1>2. Init => RtsSound
  BY <1>1 DEF Init, RtsSound
<1>3. RtsSound /\ [Next]_vars => RtsSound'
  <2>1. SUFFICES ASSUME RtsSound, [Next]_vars PROVE RtsSound'
    OBVIOUS
  <2>2. rts' = rts \/ rts' \in VirtualMaps
    <3>1. CASE relocate_runtime_services
      BY <3>1 DEF relocate_runtime_services
    <3>2. CASE Ending /\ ~relocate_runtime_services
      BY <3>2 DEF Ending, EstimateRuns, EstimateDone, EstimateFailed, esxbootinfo_init,
                  NameTooLong, esxbootinfo_init_vbe, QuietFirmware, CloseLog,
                  firmware_shutdown, ExitRuns, MeasureTables, ExitFailed,
                  relocate_page_tables1, boot_register, compute_relocations,
                  boot_set_runtime_pointers, install_trampoline, Unrecoverable, Fail,
                  CleanUp, Hang, runVars, handVars
    <3>3. CASE Starting
      BY <3>3 DEF Starting, Loading, mboot_init, serial_log_init, NoSerial, log_memory_map,
                  NoDebug, ShowRuns, Shown, video_set_mode,
                  gui_init_failed, fbcon_init, parse_config, EditDone, chainload_parent,
                  secure_boot_mode, install_acpitab, AcpiDone, file_load, Extracted,
                  ExtractFailed, KernelInvalid, Checked, LoadFailed, RecordModule,
                  secure_boot_check, clean, Fail, CleanUp, Hang, runVars, handVars
    <3> QED
      BY <2>1, <3>1, <3>2, <3>3
         DEF Next, Step, FirmwareChange, serial_log_init, fbcon_set_verbosity, Message,
             vars, runVars, handVars
  <2>3. CASE rts' = rts
    BY <2>1, <2>3 DEF RtsSound
  <2>4. CASE rts' \in VirtualMaps
    <3>1. PICK rt \in RtMaps, no_quirks \in BOOLEAN, caps \in KernelCaps,
               quirks \in SUBSET {"UNKNOWN_MEM"} :
                 rts' = VirtualMap(rt, no_quirks, quirks, caps)
      BY <2>4 DEF VirtualMaps
    <3> QED
      BY <3>1, VirtualMapUsable, RuntimeMaps DEF RtsSound
  <2> QED
    BY <2>2, <2>3, <2>4
<1> QED
  BY <1>2, <1>3, PTL DEF Spec
=============================================================================
