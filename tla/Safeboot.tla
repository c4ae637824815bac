------------------------------ MODULE Safeboot ------------------------------
(***************************************************************************)
(* The choice of a boot bank (safeboot/bootbank.c, config.c, safeboot.c):  *)
(* every power-on, safeboot scans the volumes for boot banks, advances the *)
(* upgrade state kept in their /boot.cfg, and chainloads mboot from the    *)
(* one with the highest update counter.  SHIFT+R in mboot brings safeboot  *)
(* back, on UEFI into the same process with its static variables, on BIOS  *)
(* into a fresh one, to invalidate the default bank.                       *)
(*                                                                         *)
(* External, from how bootbank.c describes them: the kernel, which comes   *)
(* up or not, and the upgrade tools it runs.                               *)
(***************************************************************************)
EXTENDS Integers, FiniteSets, Least

CONSTANTS
  MaxVolume,     \* volumes are numbered 1 .. MaxVolume
  Disks,         \* what the volumes may hold when the system is installed
  MaxUpdated,    \* bound: the highest update counter
  MaxIncidents,  \* bound: power failures, key presses and I/O errors together
  Uefi,          \* whether SHIFT+R returns to the safeboot that started mboot
  ReadErrors,    \* whether reading a volume may fail
  WriteErrors    \* whether overwriting /boot.cfg may fail

BOOTBANKS_NR == 3
Volumes      == 1 .. MaxVolume
Slots        == 1 .. BOOTBANKS_NR

\* The 'bootstate' line of /boot.cfg: one of the four states, a number that
\* is none of them, or no such line.
Bootstates == {"VALID", "UPGRADING", "DIRTY", "INVALID", "odd", "missing"}

\* A volume that is no boot bank (no VMware FAT UUID, no or malformed boot.cfg).
NoBank == [bootstate |-> "missing", updated |-> -1, quickboot |-> FALSE,
           boots |-> FALSE]

\* boots: whether the hypervisor in the bank comes up (of no concern to
\* safeboot).  updated is 0 for a bank with a bad counter or build number.
Bank == [bootstate : Bootstates, updated : 0 .. MaxUpdated,
         quickboot : BOOLEAN, boots : BOOLEAN]

\* "Assume the ESXi image contains at most three bootbank partitions".
ASSUME Installation ==
  /\ MaxVolume \in Nat \ {0} /\ MaxUpdated \in Nat /\ MaxIncidents \in Nat
  /\ {Uefi, ReadErrors, WriteErrors} \subseteq BOOLEAN
  /\ Disks \subseteq [Volumes -> Bank \cup {NoBank}]
  /\ \A d \in Disks : Cardinality({v \in Volumes : d[v] # NoBank}) <= BOOTBANKS_NR

VARIABLES
  pc,         \* off, scan, rollback, select, mboot, up, or stopped
  disk,       \* what is on the volumes: survives power failures
  banks,      \* the static banks[]
  volid,      \* get_boot_bank: the volume scanned next
  nfound,     \* get_boot_bank: banks found so far
  shift_r,    \* static shift_r
  rollback,   \* safeboot.rollback
  bank,       \* the volume last chainloaded since power-on, 0 if none
  tries,      \* boots of each bank since it was last upgraded or known good
  incidents   \* how much has gone wrong

vars == <<pc, disk, banks, volid, nfound, shift_r, rollback, bank, tries,
          incidents>>

memory == <<banks, volid, nfound, shift_r, rollback, bank>>

\* A cleared entry of banks[].
Cleared == [volid |-> 0, bootstate |-> "missing", updated |-> 0,
            upgrading |-> FALSE, valid |-> FALSE]

Entries == [volid : 0 .. MaxVolume, bootstate : Bootstates,
            updated : 0 .. MaxUpdated, upgrading : BOOLEAN, valid : BOOLEAN]

Init ==
  /\ pc = "off"
  /\ disk \in Disks
  /\ banks = [s \in Slots |-> Cleared]
  /\ volid = 1 /\ nfound = 0
  /\ shift_r = FALSE /\ rollback = FALSE
  /\ bank = 0
  /\ tries = [v \in Volumes |-> 0]
  /\ incidents = 0

Incident == incidents < MaxIncidents /\ incidents' = incidents + 1

-----------------------------------------------------------------------------
(* Starting safeboot: main, get_boot_bank.                                 *)

\* A slip: a second scan goes on filling banks[] where the first one ended.
StartScanAppending ==
  /\ pc' = "scan"
  /\ volid' = 1
  /\ nfound' = nfound

StartScan ==
  /\ pc' = "scan"
  /\ volid' = 1
  /\ nfound' = 0

\* Static variables start zeroed.
StartProcess(request) ==
  /\ StartScan
  /\ banks' = [s \in Slots |-> Cleared]
  /\ shift_r' = request
  /\ rollback' = FALSE

PowerOn ==
  /\ pc = "off"
  /\ StartProcess(FALSE)
  /\ bank' = 0
  /\ UNCHANGED <<disk, tries, incidents>>

-----------------------------------------------------------------------------
(* bank_set_bootstate: the outcome is that of the first two steps; whether *)
(* the write succeeds is ignored.                                          *)

\* scan_config finds a digit that is a state.
CanSetBootstate(v) == disk[v].bootstate \notin {"odd", "missing"}

\* A slip: the new state is only kept in memory.
Remembers(v, bootstate) ==
  \/ UNCHANGED <<disk, incidents>>
  \/ WriteErrors /\ Incident /\ UNCHANGED disk

Overwrites(v, bootstate) ==
  \/ /\ disk' = [disk EXCEPT ![v].bootstate = bootstate]
     /\ UNCHANGED incidents
  \/ WriteErrors /\ Incident /\ UNCHANGED disk

-----------------------------------------------------------------------------
(* bank_scan, for one volume.                                              *)

\* bank_get_config: a missing 'bootstate' takes the default of its option, 0.
bank_get_config(v) ==
  IF disk[v].bootstate = "missing" THEN "VALID" ELSE disk[v].bootstate

\* bank->upgrading, and is_valid_bootbank before the new state is known.
Upgrading(v) ==
  ~disk[v].quickboot /\ bank_get_config(v) \in {"UPGRADING", "DIRTY"}

WellFormed(v) ==
  /\ disk[v].updated > 0
  /\ bank_get_config(v) # "odd"
  /\ ~disk[v].quickboot

\* A slip: a bank that failed to come up stays dirty, and is tried again.
StaysDirty(v) ==
  LET old == bank_get_config(v)
  IN  IF disk[v].quickboot \/ (Upgrading(v) /\ ~WellFormed(v)) THEN "INVALID"
      ELSE CASE old = "UPGRADING" -> "DIRTY"
             [] old = "odd"       -> "INVALID"
             [] OTHER             -> old

NewState(v) ==
  LET old == bank_get_config(v)
  IN  IF disk[v].quickboot \/ (Upgrading(v) /\ ~WellFormed(v)) THEN "INVALID"
      ELSE CASE old = "UPGRADING"         -> "DIRTY"
             [] old \in {"DIRTY", "odd"}  -> "INVALID"
             [] OTHER                     -> old

\* A slip: the new state is not checked.
ScannedWellFormed(v) ==
  [volid |-> v, bootstate |-> NewState(v), updated |-> disk[v].updated,
   upgrading |-> Upgrading(v), valid |-> WellFormed(v)]

Scanned(v) ==
  [volid |-> v, bootstate |-> NewState(v), updated |-> disk[v].updated,
   upgrading |-> Upgrading(v),
   valid |-> WellFormed(v) /\ NewState(v) \in {"VALID", "DIRTY"}]

Scanning(v) == pc = "scan" /\ v = volid /\ nfound < BOOTBANKS_NR

\* bank_scan returns an error: the entry it was filling is left not valid, and
\* will hold the next bank.
Skips(v) ==
  /\ banks' = [banks EXCEPT ![nfound + 1] = Cleared]
  /\ volid' = volid + 1
  /\ UNCHANGED <<pc, nfound, shift_r, bank, tries>>

ScanFails(v) ==
  /\ Scanning(v)
  /\ Skips(v)
  /\ \/ disk[v] = NoBank /\ UNCHANGED incidents
     \/ ReadErrors /\ Incident
  /\ UNCHANGED <<disk, rollback>>

\* The bank needs a new state, and has no line to write it in or cannot be read
\* back.
ScanCannotUpdate(v) ==
  /\ Scanning(v) /\ disk[v] # NoBank
  /\ NewState(v) # bank_get_config(v)
  /\ \/ ~CanSetBootstate(v) /\ UNCHANGED incidents
     \/ ReadErrors /\ Incident
  /\ Skips(v)
  /\ rollback' = (rollback \/ (Upgrading(v) /\ ~WellFormed(v)))
  /\ UNCHANGED disk

ScanFinds(v) ==
  /\ Scanning(v) /\ disk[v] # NoBank
  /\ IF NewState(v) = bank_get_config(v)
       THEN UNCHANGED <<disk, incidents>>
       ELSE CanSetBootstate(v) /\ Overwrites(v, NewState(v))
  /\ banks' = [banks EXCEPT ![nfound + 1] = Scanned(v)]
  /\ nfound' = nfound + 1
  /\ volid' = volid + 1
  /\ rollback' = (rollback \/ (Upgrading(v) /\ ~WellFormed(v)))
  /\ UNCHANGED <<pc, shift_r, bank, tries>>

ScanEnds ==
  /\ pc = "scan"
  /\ volid > MaxVolume \/ nfound = BOOTBANKS_NR
  /\ pc' = IF shift_r THEN "rollback" ELSE "select"
  /\ UNCHANGED <<disk, memory, tries, incidents>>

-----------------------------------------------------------------------------
(* bank_auto_select, bank_kill and the end of get_boot_bank.               *)

Valid == {s \in Slots : banks[s].valid}

\* A slip: the comparison is reversed.
Earliest ==
  Least({s \in Valid : \A o \in Valid : banks[s].updated <= banks[o].updated})

\* The first valid bank with the highest update counter.
Latest ==
  Least({s \in Valid : \A o \in Valid : banks[o].updated <= banks[s].updated})

\* "No hypervisor found": safeboot waits for a key, then gives up.
NothingToBoot ==
  /\ pc \in {"rollback", "select"}
  /\ Valid = {}
  /\ pc' = "stopped"
  /\ UNCHANGED <<disk, memory, tries, incidents>>

\* A slip: bank_kill counts the bank it is about to invalidate.
HasAny == Valid # {}

\* bank_kill: nvalid >= 2.
HasAlternate == \E s, o \in Valid : s # o

\* bank_kill: there is no alternate hypervisor, the user presses N, or the
\* state cannot be read back and overwritten.
RollbackRefused ==
  /\ pc = "rollback" /\ Valid # {}
  /\ rollback' = FALSE
  /\ pc' = "select"
  /\ UNCHANGED <<disk, banks, volid, nfound, shift_r, bank, tries, incidents>>

\* bank_kill: the user presses Y.
RollbackConfirmed ==
  LET v == banks[Latest].volid
  IN  /\ pc = "rollback"
      /\ HasAlternate
      /\ CanSetBootstate(v)
      /\ Overwrites(v, "INVALID")
      /\ banks' = [banks EXCEPT ![Latest].bootstate = "INVALID",
                                ![Latest].valid = FALSE]
      /\ rollback' = TRUE
      /\ pc' = "select"
      /\ UNCHANGED <<volid, nfound, shift_r, bank, tries>>

\* Select a bank, and chainload mboot from it.
Chainload ==
  /\ pc = "select" /\ Valid # {}
  /\ bank' = banks[Latest].volid
  /\ pc' = "mboot"
  /\ UNCHANGED <<disk, banks, volid, nfound, shift_r, rollback, tries, incidents>>

\* build_mboot_cmdline: the build number of a damaged bank has no version.
ChainloadFails ==
  /\ pc = "select" /\ Valid # {}
  /\ ~disk[banks[Latest].volid].boots
  /\ pc' = "stopped"
  /\ UNCHANGED <<disk, memory, tries, incidents>>

-----------------------------------------------------------------------------
(* mboot and the hypervisor: external.                                     *)

\* SHIFT+R in mboot.  UEFI: mboot exits, and main loops with shift_r set.
\* BIOS: mboot starts a new safeboot -r.
RequestRollback ==
  /\ pc = "mboot"
  /\ Incident
  /\ IF Uefi
       THEN StartScan /\ shift_r' = TRUE /\ UNCHANGED <<banks, rollback>>
       ELSE StartProcess(TRUE)
  /\ UNCHANGED <<disk, bank, tries>>

\* The hypervisor comes up, or the machine has to be reset.
StartKernel ==
  /\ pc = "mboot"
  /\ pc' = IF disk[bank].boots THEN "up" ELSE "stopped"
  /\ tries' = [tries EXCEPT ![bank] =
                 IF disk[bank].bootstate = "VALID" THEN 0
                 ELSE IF @ < 2 THEN @ + 1 ELSE @]
  /\ UNCHANGED <<disk, memory, incidents>>

\* The tools mark the bank that has come up as valid.
MarkValid ==
  /\ pc = "up" /\ disk[bank].bootstate \in {"UPGRADING", "DIRTY"}
  /\ disk' = [disk EXCEPT ![bank].bootstate = "VALID"]
  /\ tries' = [tries EXCEPT ![bank] = 0]
  /\ UNCHANGED <<pc, memory, incidents>>

\* The tools upgrade a bank other than the running one, which by then is valid.
Upgrade(v, boots) ==
  /\ pc = "up" /\ v # bank /\ disk[v] # NoBank
  /\ disk[bank].bootstate \notin {"UPGRADING", "DIRTY"}
  /\ \A w \in Volumes : disk[w].updated < MaxUpdated
  /\ \E updated \in 1 .. MaxUpdated :
       /\ IsLeast(updated,
                  {u \in 1 .. MaxUpdated : \A w \in Volumes : disk[w].updated < u})
       /\ disk' = [disk EXCEPT ![v] = [bootstate |-> "UPGRADING",
                                       updated |-> updated,
                                       quickboot |-> FALSE, boots |-> boots]]
  /\ tries' = [tries EXCEPT ![v] = 0]
  /\ UNCHANGED <<pc, memory, incidents>>

\* The operator reboots a running machine, or resets one that has stopped.
Reboot ==
  /\ pc \in {"up", "stopped"}
  /\ pc' = "off"
  /\ UNCHANGED <<disk, memory, tries, incidents>>

\* Power may fail at any time.
PowerFails ==
  /\ pc # "off"
  /\ Incident
  /\ pc' = "off"
  /\ UNCHANGED <<disk, memory, tries>>

Boot ==
  \/ PowerOn
  \/ \E v \in Volumes : ScanFails(v) \/ ScanCannotUpdate(v) \/ ScanFinds(v)
  \/ ScanEnds
  \/ NothingToBoot \/ RollbackRefused \/ RollbackConfirmed
  \/ Chainload \/ ChainloadFails
  \/ RequestRollback \/ StartKernel \/ Reboot

Tools == MarkValid \/ \E v \in Volumes, boots \in BOOLEAN : Upgrade(v, boots)

Next == Boot \/ Tools \/ PowerFails

\* Safeboot runs to its end once started, a machine that has stopped or been
\* powered off is started again, and the tools confirm an upgrade in the end.
Spec == Init /\ [][Next]_vars /\ WF_vars(Boot) /\ SF_vars(MarkValid)

-----------------------------------------------------------------------------
(* Properties.                                                             *)

TypeOK ==
  /\ pc \in {"off", "scan", "rollback", "select", "mboot", "up", "stopped"}
  /\ disk \in [Volumes -> Bank \cup {NoBank}]
  /\ banks \in [Slots -> Entries]
  /\ volid \in 1 .. MaxVolume + 1
  /\ nfound \in 0 .. BOOTBANKS_NR /\ nfound < volid
  /\ shift_r \in BOOLEAN /\ rollback \in BOOLEAN
  /\ bank \in 0 .. MaxVolume
  /\ tries \in [Volumes -> 0 .. 2]
  /\ incidents \in 0 .. MaxIncidents

\* An upgraded bank is booted once; unless the tools find it good, the next
\* power-on does not boot it again (bootbank.c:19), wherever power failed.
TriedOnce == \A v \in Volumes : tries[v] <= 1

\* A bank safeboot boots is one that the doc of the states lets it boot.
BootsEligible ==
  pc = "mboot" => disk[bank].bootstate \in {"VALID", "DIRTY"}

\* Safeboot boots the most recent of the banks that may be booted.
Eligible == {v \in Volumes : /\ disk[v].bootstate \in {"VALID", "DIRTY"}
                             /\ disk[v].updated > 0 /\ ~disk[v].quickboot}

BootsLatest ==
  pc = "mboot" => \A v \in Eligible : disk[v].updated <= disk[bank].updated

\* A confirmed rollback never invalidates the last bank there is to boot, as the
\* next scan will read the states: a bank without 'bootstate' passes for valid.
Bootable == {v \in Volumes : /\ bank_get_config(v) \in {"VALID", "DIRTY"}
                             /\ disk[v].updated > 0 /\ ~disk[v].quickboot}

KeepsOne ==
  [][pc = "rollback" /\ rollback' /\ disk' # disk => Bootable' # {}]_vars

\* SHIFT+R kills the default bank (bootbank.c:314), the one mboot was loading
\* from, and no other.
KillsCurrent ==
  [][pc = "rollback" /\ disk' # disk => disk'[bank] # disk[bank]]_vars

\* As long as the installed hypervisor comes up, a failed upgrade costs at most
\* some reboots: the machine comes up again and again.
Recovers == []<>(pc = "up")
=============================================================================
