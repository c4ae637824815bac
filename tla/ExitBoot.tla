------------------------------ MODULE ExitBoot ------------------------------
(***************************************************************************)
(* Leaving UEFI's boot services (uefi/efiutils/memory.c and exitboot.c).   *)
(* The boot loader must give ExitBootServices the key of the map as it is  *)
(* at that moment.  Reading the map takes memory and so changes it, and    *)
(* the firmware changes it by itself; the loader tries again until nothing *)
(* has changed.                                                            *)
(***************************************************************************)
EXTENDS Integers

CONSTANTS
  MapBuffers,  \* the addresses a buffer for the map can have
  MaxChanges,  \* bound: how often the firmware changes the map by itself
  NULL

ASSUME MapConstants == NULL \notin MapBuffers /\ MaxChanges \in Nat

VARIABLES
  phase,     \* what the map is read for, or how it ended
  step,      \* where efi_get_memory_map is
  Buffer,    \* its local variable
  ptMap,     \* pt_reloc_cached_mmap
  efiMap,    \* efi_info.mmap
  pool,      \* what has been allocated from the firmware
  fault,     \* history: memory has been freed that was not allocated
  keyFresh,  \* whether MapKey is the key of the firmware's current map
  mapFresh,  \* whether efi_info.mmap shows the firmware's current map
  grown,     \* whether the map may have outgrown the buffer's size
  changes    \* the changes the firmware made by itself

heapVars == <<pool, fault>>
mapVars == <<Buffer, ptMap, efiMap>>
fwVars == <<keyFresh, mapFresh, grown, changes>>
exitVars == <<phase, step, mapVars, heapVars, fwVars>>

Phases == {"init", "show", "estimate", "ready", "tables", "exit",
           "left", "error", "panic"}
Steps == {"none", "query", "first", "second", "got", "failed", "key"}

ExitInit ==
  /\ phase = "init" /\ step = "none"
  /\ Buffer = NULL /\ ptMap = NULL /\ efiMap = NULL
  /\ pool = {} /\ fault = FALSE
  /\ keyFresh = FALSE /\ mapFresh = FALSE
  /\ grown = FALSE /\ changes = 0
-----------------------------------------------------------------------------
\* sys_free of each of S; of NULL it is no operation.
Freeing(S) ==
  /\ pool' = pool \ S
  /\ fault' = (fault \/ ~(S \ {NULL} \subseteq pool))

\* sys_free of old, then sys_malloc.
Replacing(old, new) ==
  /\ pool' = (pool \ {old}) \cup {new}
  /\ fault' = (fault \/ (old # NULL /\ old \notin pool))

NewBuffer == CHOOSE b \in MapBuffers : b \notin pool

\* Every call that takes or returns memory changes the map.
MapChanges == keyFresh' = FALSE /\ mapFresh' = FALSE

\* A timer, a driver or a deferred call of the firmware takes memory.
Change ==
  /\ phase \in {"show", "estimate", "tables", "exit"}
  /\ changes < MaxChanges /\ changes' = changes + 1
  /\ MapChanges /\ grown' = TRUE
  /\ UNCHANGED <<phase, step, mapVars, heapVars>>
-----------------------------------------------------------------------------
\* efi_get_memory_map, in the steps between which the map may change.
Fails ==
  /\ step' = "failed"
  /\ Freeing({Buffer}) /\ Buffer' = NULL
  /\ MapChanges
  /\ UNCHANGED <<phase, ptMap, efiMap, grown, changes>>

Another(next) ==
  /\ step' = next
  /\ ~(MapBuffers \subseteq pool)
  /\ Replacing(Buffer, NewBuffer) /\ Buffer' = NewBuffer
  /\ MapChanges /\ grown' = FALSE
  /\ UNCHANGED <<phase, ptMap, efiMap, changes>>

TooSmall ==
  /\ grown /\ step' = "query"
  /\ UNCHANGED <<phase, mapVars, heapVars, fwVars>>

Query == step = "query" /\ (Another("first") \/ Fails)

First == step = "first" /\ (Another("second") \/ TooSmall \/ Fails)

Read ==
  /\ step' = "got" /\ keyFresh' = TRUE /\ grown' = FALSE
  /\ UNCHANGED <<phase, mapVars, heapVars, mapFresh, changes>>

Second == step = "second" /\ (Read \/ TooSmall \/ Fails)

efi_get_memory_map == Query \/ First \/ Second
-----------------------------------------------------------------------------
Begin(p) ==
  /\ phase' = p /\ step' = "query"
  /\ UNCHANGED <<mapVars, heapVars, fwVars>>

\* log_memory_map shows the map, when that is asked for.
Show == phase = "init" /\ Begin("show")

\* esxbootinfo_init counts the ranges of the map.
Estimate == phase = "init" /\ Begin("estimate")

\* Both give the map back.
Estimated ==
  /\ phase \in {"show", "estimate"} /\ step = "got"
  /\ phase' = (IF phase = "show" THEN "init" ELSE "ready") /\ step' = "none"
  /\ Freeing({efiMap, Buffer})
  /\ efiMap' = NULL /\ Buffer' = NULL
  /\ MapChanges
  /\ UNCHANGED <<ptMap, grown, changes>>

\* The tables of the firmware may not be fit for use.
NotSanitized ==
  /\ phase' = "panic"
  /\ UNCHANGED <<step, mapVars, heapVars, fwVars>>

\* exit_boot_services reads the map for allocate_page_tables, which keeps it.
Shutdown == phase = "ready" /\ (Begin("tables") \/ NotSanitized)

allocate_page_tables ==
  /\ phase = "tables" /\ step = "got"
  /\ ptMap' = Buffer /\ Buffer' = NULL
  /\ \/ phase' = "exit" /\ step' = "query"
     \/ phase' = "panic" /\ step' = "none"
  /\ MapChanges
  /\ UNCHANGED <<efiMap, heapVars, grown, changes>>

\* get_memory_map frees the map of an earlier call, after it read the new one.
get_memory_map ==
  /\ phase = "exit" /\ step = "got"
  /\ Freeing({efiMap})
  /\ efiMap' = Buffer /\ Buffer' = NULL
  /\ step' = "key"
  /\ IF efiMap = NULL THEN mapFresh' = keyFresh /\ UNCHANGED keyFresh
                      ELSE MapChanges
  /\ UNCHANGED <<phase, ptMap, grown, changes>>

\* A slip: the map is left to the next get_memory_map to free.
KeepMemoryMap == UNCHANGED <<heapVars, efiMap, keyFresh, mapFresh>>

\* A slip: the pointer is left behind.
FreeOnly == Freeing({efiMap}) /\ UNCHANGED efiMap /\ MapChanges

free_memory_map == Freeing({efiMap}) /\ efiMap' = NULL /\ MapChanges

\* The firmware refuses a stale key, and may fail for reasons of its own.
Leave ==
  /\ keyFresh
  /\ phase' = "left" /\ step' = "none"
  /\ UNCHANGED <<heapVars, efiMap, keyFresh, mapFresh>>

\* A slip: any answer is taken for success.
RefusalMissed ==
  /\ ~keyFresh
  /\ phase' = "left" /\ step' = "none"
  /\ UNCHANGED <<heapVars, efiMap, keyFresh, mapFresh>>

Refused ==
  /\ ~keyFresh
  /\ step' = "query" /\ UNCHANGED phase
  /\ free_memory_map

ExitError ==
  /\ phase' = "panic" /\ step' = "none"
  /\ UNCHANGED <<heapVars, efiMap, keyFresh, mapFresh>>

ExitBootServices ==
  /\ phase = "exit" /\ step = "key"
  /\ Leave \/ Refused \/ ExitError
  /\ UNCHANGED <<Buffer, ptMap, grown, changes>>

\* A map that cannot be shown is no error.  Before firmware_shutdown main can
\* clean up and return; after, it must panic.
GiveUp ==
  /\ step = "failed" /\ step' = "none"
  /\ phase' = CASE phase = "show" -> "init"
                [] phase = "estimate" -> "error"
                [] OTHER -> "panic"
  /\ UNCHANGED <<mapVars, heapVars, fwVars>>

exit_boot_services ==
  \/ efi_get_memory_map \/ GiveUp
  \/ allocate_page_tables \/ get_memory_map \/ ExitBootServices

ExitNext ==
  \/ Change \/ Show \/ Estimate \/ Estimated \/ Shutdown \/ exit_boot_services

ExitSpec == ExitInit /\ [][ExitNext]_exitVars
-----------------------------------------------------------------------------
ExitTypeOK ==
  /\ phase \in Phases /\ step \in Steps
  /\ Buffer \in MapBuffers \cup {NULL}
  /\ ptMap \in MapBuffers \cup {NULL}
  /\ efiMap \in MapBuffers \cup {NULL}
  /\ fault \in BOOLEAN
  /\ keyFresh \in BOOLEAN /\ mapFresh \in BOOLEAN /\ grown \in BOOLEAN
  /\ changes \in 0 .. MaxChanges

\* efi_get_memory_map, get_memory_map and free_memory_map: every buffer for a
\* map belongs to one pointer, and is freed once, whatever fails or is retried.
MapsOwned ==
  /\ ~fault /\ NULL \notin pool
  /\ pool \cap MapBuffers = {Buffer, ptMap, efiMap} \ {NULL}
  /\ Buffer # NULL => Buffer \notin {ptMap, efiMap}
  /\ ptMap # NULL => ptMap # efiMap

\* exit_boot_services: the map the kernel gets is the firmware's map at the
\* moment boot services end, and is still there.
MapIsCurrent == phase = "left" => mapFresh /\ efiMap # NULL /\ efiMap \in pool
=============================================================================
