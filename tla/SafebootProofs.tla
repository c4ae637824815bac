--------------------------- MODULE SafebootProofs ---------------------------
(***************************************************************************)
(* Safeboot's choice of a bank, for every number of volumes, every content *)
(* of theirs with at most three banks, every number of power failures and  *)
(* key presses, on UEFI and BIOS.  The theorems but the first assume that  *)
(* no read or write of a volume fails: the runs safeboot_io and            *)
(* safeboot_stale show what remains, and what does not, when one does.     *)
(***************************************************************************)
EXTENDS Safeboot, LeastProofs, FiniteSetTheorems

Healthy ==
  /\ ~ReadErrors /\ ~WriteErrors
  /\ \A d \in Disks : \A v \in Volumes :
       d[v] # NoBank => d[v].bootstate # "missing"

-----------------------------------------------------------------------------
(* The rank of a volume among the ones that are found: its slot.           *)

Rank(F, v) == Cardinality(F \cap (1 .. v))

LEMMA RankType ==
  ASSUME NEW F, NEW v \in Nat
  PROVE  IsFiniteSet(F \cap (1 .. v)) /\ Rank(F, v) \in Nat
<1>1. IsFiniteSet(1 .. v)
  BY FS_Interval
<1>2. F \cap (1 .. v) \in SUBSET (1 .. v)
  OBVIOUS
<1>3. IsFiniteSet(F \cap (1 .. v))
  BY <1>1, <1>2, FS_Subset
<1> QED
  BY <1>3, FS_CardinalityType DEF Rank

LEMMA RankStep ==
  ASSUME NEW F, NEW v \in Nat \ {0}
  PROVE  Rank(F, v) = Rank(F, v - 1) + (IF v \in F THEN 1 ELSE 0)
<1>1. v - 1 \in Nat /\ IsFiniteSet(F \cap (1 .. (v - 1))) /\ Rank(F, v - 1) \in Nat
  BY RankType
<1>2. CASE v \in F
  <2>1. F \cap (1 .. v) = (F \cap (1 .. (v - 1))) \cup {v}
    BY <1>2
  <2>2. v \notin F \cap (1 .. (v - 1))
    OBVIOUS
  <2>3. Cardinality((F \cap (1 .. (v - 1))) \cup {v}) = Cardinality(F \cap (1 .. (v - 1))) + 1
    BY <1>1, <2>2, FS_AddElement
  <2> QED
    BY <1>2, <2>1, <2>3 DEF Rank
<1>3. CASE v \notin F
  <2>1. F \cap (1 .. v) = F \cap (1 .. (v - 1))
    BY <1>3
  <2> QED
    BY <1>1, <1>3, <2>1 DEF Rank
<1> QED
  BY <1>2, <1>3

LEMMA RankMono ==
  ASSUME NEW F, NEW u \in Nat, NEW v \in Nat, u <= v
  PROVE  Rank(F, u) <= Rank(F, v)
<1>1. F \cap (1 .. u) \in SUBSET (F \cap (1 .. v))
  OBVIOUS
<1>2. IsFiniteSet(F \cap (1 .. v))
  BY RankType
<1> QED
  BY <1>1, <1>2, FS_Subset DEF Rank

LEMMA RankLess ==
  ASSUME NEW F, NEW u \in Nat, NEW v \in Nat, u < v, v \in F
  PROVE  Rank(F, u) < Rank(F, v)
<1>1. v - 1 \in Nat /\ u <= v - 1 /\ v \in Nat \ {0}
  OBVIOUS
<1>2. Rank(F, u) <= Rank(F, v - 1)
  BY <1>1, RankMono
<1>3. Rank(F, v) = Rank(F, v - 1) + 1
  BY <1>1, RankStep
<1>4. Rank(F, u) \in Nat /\ Rank(F, v - 1) \in Nat
  BY <1>1, RankType
<1> QED
  BY <1>2, <1>3, <1>4

LEMMA RankZero == \A F : Rank(F, 0) = 0
<1> TAKE F
<1>1. F \cap (1 .. 0) = {}
  OBVIOUS
<1> QED
  BY <1>1, FS_EmptySet DEF Rank

LEMMA RankBound ==
  ASSUME NEW F, F \subseteq Volumes, NEW v \in Nat
  PROVE  Rank(F, v) <= Cardinality(F)
<1>1. IsFiniteSet(Volumes)
  BY Installation, FS_Interval DEF Volumes
<1>2. IsFiniteSet(F)
  BY <1>1, FS_Subset
<1>3. F \cap (1 .. v) \in SUBSET F
  OBVIOUS
<1> QED
  BY <1>2, <1>3, FS_Subset DEF Rank

-----------------------------------------------------------------------------
(* Types.                                                                  *)

LEMMA NoBankFacts == NoBank.bootstate = "missing" /\ NoBank.updated = -1
BY DEF NoBank

LEMMA BankFacts ==
  ASSUME TypeOK, NEW v \in Volumes, disk[v] # NoBank
  PROVE  /\ disk[v] \in Bank
         /\ \A st \in Bootstates : [disk[v] EXCEPT !.bootstate = st] \in Bank
<1>1. disk[v] \in Bank
  BY DEF TypeOK
<1> QED
  BY <1>1 DEF Bank

LEMMA WriteType ==
  ASSUME TypeOK, NEW v, v \in Volumes => disk[v] # NoBank,
         NEW st \in Bootstates,
         disk' = [disk EXCEPT ![v].bootstate = st]
  PROVE  disk' \in [Volumes -> Bank \cup {NoBank}]
<1>1. CASE v \in Volumes
  <2>1. [disk[v] EXCEPT !.bootstate = st] \in Bank
    BY <1>1, BankFacts
  <2> QED
    BY <1>1, <2>1 DEF TypeOK
<1>2. CASE v \notin Volumes
  BY <1>2 DEF TypeOK
<1> QED
  BY <1>1, <1>2

LEMMA IncidentType ==
  ASSUME TypeOK, Incident \/ UNCHANGED incidents
  PROVE  incidents' \in 0 .. MaxIncidents
BY Installation DEF TypeOK, Incident

LEMMA EntryTypes == Cleared \in Entries
BY Installation DEF Cleared, Entries, Bootstates

LEMMA ScannedType ==
  ASSUME TypeOK, NEW v \in Volumes, disk[v] # NoBank
  PROVE  /\ Scanned(v) \in Entries
         /\ NewState(v) \in Bootstates
<1>1. disk[v] \in Bank
  BY BankFacts
<1>2. bank_get_config(v) \in Bootstates
  BY <1>1 DEF bank_get_config, Bank, Bootstates
<1>3. NewState(v) \in Bootstates
  BY <1>2 DEF NewState, Bootstates
<1>4. Upgrading(v) \in BOOLEAN /\ WellFormed(v) \in BOOLEAN
  BY DEF Upgrading, WellFormed
<1>5. disk[v].updated \in 0 .. MaxUpdated
  BY <1>1 DEF Bank
<1>6. v \in 0 .. MaxVolume
  BY DEF Volumes
<1> QED
  BY <1>3, <1>4, <1>5, <1>6 DEF Scanned, Entries

(* bank_auto_select finds a bank when there is one.                        *)
LEMMA LatestIsLatest ==
  ASSUME TypeOK, Valid # {}
  PROVE  /\ Latest \in Valid /\ Latest \in Slots
         /\ \A o \in Valid : banks[o].updated <= banks[Latest].updated
<1> DEFINE Below == {MaxUpdated - banks[s].updated : s \in Valid}
           Best == {s \in Valid : \A o \in Valid : banks[o].updated <= banks[s].updated}
<1>1. \A s \in Valid : s \in Slots /\ banks[s].updated \in 0 .. MaxUpdated
  BY DEF Valid, TypeOK, Entries
<1>2. Below \subseteq Nat /\ Below # {}
  BY <1>1, Installation
<1>3. IsLeast(Least(Below), Below)
  BY <1>2, LeastIsLeast
<1>4. PICK s \in Valid : Least(Below) = MaxUpdated - banks[s].updated
  BY <1>3 DEF IsLeast
<1>5. \A o \in Valid : banks[o].updated <= banks[s].updated
  <2> TAKE o \in Valid
  <2>1. MaxUpdated - banks[s].updated <= MaxUpdated - banks[o].updated
    BY <1>3, <1>4 DEF IsLeast
  <2> QED
    BY <2>1, <1>1, Installation
<1>6. Best # {} /\ Best \subseteq Nat
  BY <1>1, <1>5 DEF Slots
<1>7. IsLeast(Least(Best), Best)
  BY <1>6, LeastIsLeast
<1>8. Latest = Least(Best)
  BY DEF Latest
<1> QED
  BY <1>1, <1>7, <1>8 DEF IsLeast

LEMMA InitTypes == Init => TypeOK
<1> SUFFICES ASSUME Init PROVE TypeOK
  OBVIOUS
<1>1. disk \in [Volumes -> Bank \cup {NoBank}] /\ 0 \in 0 .. MaxIncidents
  BY Installation DEF Init
<1>2. banks \in [Slots -> Entries]
  BY EntryTypes DEF Init
<1>3. volid \in 1 .. MaxVolume + 1 /\ bank \in 0 .. MaxVolume
  BY Installation DEF Init
<1>4. tries \in [Volumes -> 0 .. 2]
  BY DEF Init
<1>5. nfound \in 0 .. BOOTBANKS_NR /\ nfound < volid
  BY DEF Init, BOOTBANKS_NR
<1> QED
  BY <1>1, <1>2, <1>3, <1>4, <1>5 DEF Init, TypeOK

LEMMA ScanTypes ==
  ASSUME TypeOK, NEW v \in Volumes,
         ScanFails(v) \/ ScanCannotUpdate(v) \/ ScanFinds(v)
  PROVE  TypeOK'
<1>1. /\ pc = "scan" /\ v = volid /\ nfound < BOOTBANKS_NR
      /\ volid' = volid + 1 /\ UNCHANGED <<pc, shift_r, bank, tries>>
  BY DEF ScanFails, ScanCannotUpdate, ScanFinds, Scanning, Skips
<1>2. incidents' \in 0 .. MaxIncidents
  <2>1. Incident \/ UNCHANGED incidents
    BY DEF ScanFails, ScanCannotUpdate, ScanFinds, Overwrites
  <2> QED
    BY <2>1, IncidentType
<1>3. rollback' \in BOOLEAN
  BY DEF ScanFails, ScanCannotUpdate, ScanFinds, TypeOK
<1>4. disk' \in [Volumes -> Bank \cup {NoBank}]
  <2>1. CASE UNCHANGED disk
    BY <2>1 DEF TypeOK
  <2>2. CASE disk[v] # NoBank /\ disk' = [disk EXCEPT ![v].bootstate = NewState(v)]
    BY <2>2, ScannedType, WriteType
  <2> QED
    BY <2>1, <2>2 DEF ScanFails, ScanCannotUpdate, ScanFinds, Overwrites
<1>5. banks' \in [Slots -> Entries]
  <2>1. CASE banks' = [banks EXCEPT ![nfound + 1] = Cleared]
    BY <2>1, EntryTypes DEF TypeOK
  <2>2. CASE disk[v] # NoBank /\ banks' = [banks EXCEPT ![nfound + 1] = Scanned(v)]
    BY <2>2, ScannedType DEF TypeOK
  <2> QED
    BY <2>1, <2>2 DEF ScanFails, ScanCannotUpdate, ScanFinds, Skips
<1>6. volid' \in 1 .. MaxVolume + 1
  BY <1>1, Installation DEF Volumes
<1>7. nfound' \in 0 .. BOOTBANKS_NR /\ nfound' < volid'
  <2>1. nfound' \in {nfound, nfound + 1}
    BY DEF ScanFails, ScanCannotUpdate, ScanFinds, Skips
  <2> QED
    BY <2>1, <1>1 DEF TypeOK, BOOTBANKS_NR
<1> QED
  BY <1>1, <1>2, <1>3, <1>4, <1>5, <1>6, <1>7 DEF TypeOK

LEMMA SelectTypes ==
  ASSUME TypeOK,
         ScanEnds \/ NothingToBoot \/ RollbackRefused \/ RollbackConfirmed
           \/ Chainload \/ ChainloadFails
  PROVE  TypeOK'
<1>1. CASE ScanEnds \/ NothingToBoot \/ RollbackRefused \/ ChainloadFails
  BY <1>1 DEF ScanEnds, NothingToBoot, RollbackRefused, ChainloadFails, memory, TypeOK
<1>2. CASE RollbackConfirmed
  <2>1. Valid # {}
    BY <1>2 DEF RollbackConfirmed, HasAlternate
  <2>2. Latest \in Slots
    BY <2>1, LatestIsLatest
  <2> DEFINE v == banks[Latest].volid
  <2>3. v \in Volumes => disk[v] # NoBank
    BY <1>2, NoBankFacts DEF RollbackConfirmed, CanSetBootstate
  <2>4. disk' \in [Volumes -> Bank \cup {NoBank}]
    <3>1. CASE UNCHANGED disk
      BY <3>1 DEF TypeOK
    <3>2. CASE disk' = [disk EXCEPT ![v].bootstate = "INVALID"]
      BY <2>3, <3>2, WriteType DEF Bootstates
    <3> QED
      BY <1>2, <3>1, <3>2 DEF RollbackConfirmed, Overwrites
  <2>5. banks' \in [Slots -> Entries]
    <3>1. banks[Latest] \in Entries
      BY <2>2 DEF TypeOK
    <3>2. [banks[Latest] EXCEPT !.bootstate = "INVALID", !.valid = FALSE] \in Entries
      BY <3>1 DEF Entries, Bootstates
    <3>3. banks' = [banks EXCEPT ![Latest] =
                      [banks[Latest] EXCEPT !.bootstate = "INVALID", !.valid = FALSE]]
      BY <1>2, <2>2 DEF RollbackConfirmed, TypeOK
    <3> QED
      BY <2>2, <3>2, <3>3 DEF TypeOK
  <2>6. incidents' \in 0 .. MaxIncidents
    BY <1>2, IncidentType DEF RollbackConfirmed, Overwrites
  <2> QED
    BY <1>2, <2>4, <2>5, <2>6 DEF RollbackConfirmed, TypeOK
<1>3. CASE Chainload
  <2>1. banks[Latest].volid \in 0 .. MaxVolume
    BY <1>3, LatestIsLatest DEF Chainload, TypeOK, Entries
  <2> QED
    BY <1>3, <2>1 DEF Chainload, TypeOK
<1> QED
  BY <1>1, <1>2, <1>3

LEMMA StartTypes ==
  ASSUME TypeOK, PowerOn \/ RequestRollback \/ Reboot \/ PowerFails
  PROVE  TypeOK'
<1>1. incidents' \in 0 .. MaxIncidents
  BY IncidentType DEF PowerOn, RequestRollback, Reboot, PowerFails
<1>2. [s \in Slots |-> Cleared] \in [Slots -> Entries]
  BY EntryTypes
<1>3. CASE PowerOn \/ RequestRollback
  <2>1. pc' = "scan" /\ volid' = 1 /\ nfound' = 0 /\ UNCHANGED <<disk, tries>>
    BY <1>3 DEF PowerOn, RequestRollback, StartProcess, StartScan
  <2>2. banks' \in [Slots -> Entries]
    <3>1. banks' = banks \/ banks' = [s \in Slots |-> Cleared]
      BY <1>3 DEF PowerOn, RequestRollback, StartProcess
    <3> QED
      BY <3>1, <1>2 DEF TypeOK
  <2>3. shift_r' \in BOOLEAN /\ rollback' \in BOOLEAN /\ bank' \in 0 .. MaxVolume
    <3>1. 0 \in 0 .. MaxVolume
      BY Installation
    <3>2. CASE PowerOn
      BY <3>1, <3>2 DEF PowerOn, StartProcess
    <3>3. CASE RequestRollback
      BY <3>3 DEF RequestRollback, StartProcess, TypeOK
    <3> QED
      BY <1>3, <3>2, <3>3
  <2>4. 1 \in 1 .. MaxVolume + 1 /\ 0 \in 0 .. BOOTBANKS_NR
    BY Installation DEF BOOTBANKS_NR
  <2> QED
    BY <1>1, <2>1, <2>2, <2>3, <2>4 DEF TypeOK
<1>4. CASE Reboot \/ PowerFails
  BY <1>1, <1>4 DEF Reboot, PowerFails, memory, TypeOK
<1> QED
  BY <1>3, <1>4

LEMMA TriesType ==
  ASSUME TypeOK, NEW v, NEW k, v \in Volumes => k \in 0 .. 2,
         tries' = [tries EXCEPT ![v] = k]
  PROVE  tries' \in [Volumes -> 0 .. 2]
<1>1. CASE v \in Volumes
  BY <1>1 DEF TypeOK
<1>2. CASE v \notin Volumes
  BY <1>2 DEF TypeOK
<1> QED
  BY <1>1, <1>2

LEMMA KernelTypes ==
  ASSUME TypeOK,
         StartKernel \/ MarkValid
           \/ \E v \in Volumes, boots \in BOOLEAN : Upgrade(v, boots)
  PROVE  TypeOK'
<1>1. CASE StartKernel
  <2>1. tries' \in [Volumes -> 0 .. 2]
    <3> DEFINE k == IF disk[bank].bootstate = "VALID" THEN 0
                    ELSE IF tries[bank] < 2 THEN tries[bank] + 1 ELSE tries[bank]
    <3>1. tries' = [tries EXCEPT ![bank] = k]
      BY <1>1 DEF StartKernel
    <3>2. ASSUME bank \in Volumes PROVE k \in 0 .. 2
      <4>1. tries[bank] \in 0 .. 2
        BY <3>2 DEF TypeOK
      <4> QED
        BY <4>1
    <3> HIDE DEF k
    <3> QED
      BY <3>1, <3>2, TriesType
  <2> QED
    BY <1>1, <2>1 DEF StartKernel, memory, TypeOK
<1>2. CASE MarkValid
  <2>1. disk[bank] # NoBank
    BY <1>2, NoBankFacts DEF MarkValid
  <2>2. disk' \in [Volumes -> Bank \cup {NoBank}]
    BY <1>2, <2>1, WriteType DEF MarkValid, Bootstates
  <2>3. tries' \in [Volumes -> 0 .. 2]
    <3>1. tries' = [tries EXCEPT ![bank] = 0]
      BY <1>2 DEF MarkValid
    <3>2. bank \in Volumes => 0 \in 0 .. 2
      OBVIOUS
    <3> QED
      BY <3>1, <3>2, TriesType
  <2> QED
    BY <1>2, <2>2, <2>3 DEF MarkValid, memory, TypeOK
<1>3. ASSUME NEW v \in Volumes, NEW boots \in BOOLEAN, Upgrade(v, boots)
      PROVE  TypeOK'
  <2>1. PICK updated \in 1 .. MaxUpdated :
          disk' = [disk EXCEPT ![v] = [bootstate |-> "UPGRADING", updated |-> updated,
                                       quickboot |-> FALSE, boots |-> boots]]
    BY <1>3 DEF Upgrade
  <2>2. [bootstate |-> "UPGRADING", updated |-> updated, quickboot |-> FALSE,
         boots |-> boots] \in Bank
    BY DEF Bank, Bootstates
  <2>3. disk' \in [Volumes -> Bank \cup {NoBank}]
    BY <2>1, <2>2 DEF TypeOK
  <2>4. tries' \in [Volumes -> 0 .. 2]
    BY <1>3 DEF Upgrade, TypeOK
  <2> QED
    BY <1>3, <2>3, <2>4 DEF Upgrade, memory, TypeOK
<1> QED
  BY <1>1, <1>2, <1>3

LEMMA NextTypes == TypeOK /\ [Next]_vars => TypeOK'
<1> SUFFICES ASSUME TypeOK, [Next]_vars PROVE TypeOK'
  OBVIOUS
<1>1. CASE UNCHANGED vars
  BY <1>1 DEF vars, TypeOK
<1> QED
  BY <1>1, ScanTypes, SelectTypes, StartTypes, KernelTypes DEF Next, Boot, Tools

\* bootbank.c: banks[] and its indices keep their types and bounds, and what is
\* written to /boot.cfg stays a bootstate, also when reads and writes fail.
THEOREM SafebootTypes == Spec => []TypeOK
BY InitTypes, NextTypes, PTL DEF Spec

-----------------------------------------------------------------------------
(* What holds besides, as long as no read or write fails.                  *)

Banked == {v \in Volumes : disk[v] # NoBank}

(* The banks a scan enters in banks[], and the slot it gives them.          *)
Found ==
  {v \in Banked : NewState(v) = bank_get_config(v) \/ CanSetBootstate(v)}

Slot(v) == Rank(Found, v)

Running == pc \in {"scan", "rollback", "select", "mboot"}

(* Every bank on the disk has a bootstate, and there are at most three.     *)
DiskOK ==
  /\ \A v \in Banked : disk[v].bootstate # "missing"
  /\ Cardinality(Banked) <= BOOTBANKS_NR

(* An entry left over from an earlier scan is in the slot that this scan    *)
(* will give its volume.                                                    *)
Slotted ==
  /\ nfound = Slot(volid - 1)
  /\ \A s \in Slots : banks[s].valid => banks[s].volid # 0
  /\ \A s \in Slots : banks[s].volid # 0 =>
       banks[s].volid \in Found /\ s = Slot(banks[s].volid)

(* What has been scanned is in banks[] as it is on the disk.                *)
MirroredAt(v) ==
  /\ Slot(v) \in Slots
  /\ banks[Slot(v)].volid = v
  /\ banks[Slot(v)].updated = disk[v].updated
  /\ banks[Slot(v)].valid <=> v \in Eligible

Mirrored == \A v \in Found : v < volid => MirroredAt(v)

Complete == \A v \in Found : v < volid

Chosen ==
  /\ bank \in Eligible
  /\ \A v \in Eligible : disk[v].updated <= disk[bank].updated

(* A bank that was tried is dirty, and is invalid once it has been scanned. *)
TrialAt(v) ==
  tries[v] # 0 =>
    /\ tries[v] = 1
    /\ disk[v].bootstate \in {"DIRTY", "INVALID"}
    /\ Running /\ v < volid => disk[v].bootstate = "INVALID"

Trial == \A v \in Volumes : TrialAt(v)

Inv ==
  /\ TypeOK /\ DiskOK /\ Trial
  /\ Running => Slotted /\ Mirrored
  /\ pc \in {"rollback", "select", "mboot"} => Complete
  /\ pc = "mboot" => Chosen

LEMMA InitInv == Healthy /\ Init => Inv
<1> SUFFICES ASSUME Healthy, Init PROVE Inv
  OBVIOUS
<1>1. DiskOK
  BY Installation DEF Init, Healthy, DiskOK, Banked
<1>2. TypeOK
  BY InitTypes
<1> QED
  BY <1>1, <1>2 DEF Init, Inv, Trial, TrialAt, Running

(* Eligible banks are found: the state of any can be set.                   *)
LEMMA EligibleFound == Eligible \subseteq Found
<1> SUFFICES ASSUME NEW v \in Eligible PROVE v \in Found
  OBVIOUS
<1>1. v \in Volumes /\ disk[v].bootstate \in {"VALID", "DIRTY"}
  BY DEF Eligible
<1>2. CanSetBootstate(v)
  BY <1>1 DEF CanSetBootstate
<1>3. disk[v] # NoBank
  BY <1>1, NoBankFacts
<1> QED
  BY <1>1, <1>2, <1>3 DEF Found, Banked

(* Setting the state of a bank changes neither which banks there are, nor   *)
(* which of them are found, nor anything about the others.                  *)
LEMMA SetState ==
  ASSUME TypeOK, DiskOK,
         NEW v \in Banked, NEW st \in {"VALID", "DIRTY", "INVALID"},
         CanSetBootstate(v), disk' = [disk EXCEPT ![v].bootstate = st]
  PROVE  /\ DiskOK' /\ Found' = Found
         /\ \A u \in Volumes : disk'[u].updated = disk[u].updated
         /\ \A u \in Volumes \ {v} :
              disk'[u] = disk[u] /\ (u \in Eligible' <=> u \in Eligible)
         /\ disk'[v].bootstate = st
         /\ v \in Eligible' <=> /\ st # "INVALID" /\ disk[v].updated > 0
                                /\ ~disk[v].quickboot
<1>1. v \in Volumes /\ disk[v] # NoBank /\ disk[v] \in Bank
  BY BankFacts DEF Banked
<1>2. /\ disk'[v].bootstate = st /\ disk'[v].updated = disk[v].updated
      /\ disk'[v].quickboot = disk[v].quickboot
  BY <1>1 DEF TypeOK, Bank
<1>3. \A u \in Volumes \ {v} : disk'[u] = disk[u]
  BY DEF TypeOK
<1>4. disk'[v] # NoBank
  BY <1>2, NoBankFacts
<1>5. Banked' = Banked
  BY <1>1, <1>3, <1>4 DEF Banked
<1>6. Found' = Found
  <2>1. \A u \in Volumes \ {v} : u \in Found' <=> u \in Found
    <3> TAKE u \in Volumes \ {v}
    <3>1. disk'[u] = disk[u]
      BY <1>3
    <3>2. /\ NewState(u)' = NewState(u) /\ bank_get_config(u)' = bank_get_config(u)
          /\ CanSetBootstate(u)' = CanSetBootstate(u)
      BY <3>1 DEF NewState, bank_get_config, CanSetBootstate, Upgrading, WellFormed
    <3> QED
      BY <1>5, <3>2 DEF Found
  <2>2. v \in Found' /\ v \in Found
    BY <1>2, <1>5 DEF Found, CanSetBootstate
  <2>3. Found' \subseteq Volumes /\ Found \subseteq Volumes
    BY DEF Found, Banked
  <2> QED
    BY <2>1, <2>2, <2>3
<1>7. DiskOK'
  BY <1>2, <1>3, <1>5 DEF DiskOK, Banked
<1> QED
  BY <1>1, <1>2, <1>3, <1>6, <1>7 DEF Eligible

LEMMA SlotFacts ==
  ASSUME TypeOK, DiskOK, nfound = Slot(volid - 1), NEW v \in Found
  PROVE  /\ v \in Volumes /\ v \in Nat /\ Slot(v) \in Slots
         /\ v < volid => Slot(v) <= nfound
         /\ v = volid => Slot(v) = nfound + 1
         /\ ~(v < volid) => Slot(v) > nfound
<1>1. v \in Volumes /\ v \in Nat \ {0} /\ Found \subseteq Volumes
  BY Installation DEF Found, Banked, Volumes
<1>2. volid \in Nat \ {0} /\ volid - 1 \in Nat
  BY Installation DEF TypeOK
<1>3. Slot(v) = Rank(Found, v) /\ nfound = Rank(Found, volid - 1)
  BY DEF Slot
<1>4. Rank(Found, v) \in Nat /\ nfound \in Nat
  BY <1>1, <1>2, <1>3, RankType
<1>5. Rank(Found, v) <= BOOTBANKS_NR
  <2>1. IsFiniteSet(Banked)
    <3>1. IsFiniteSet(Volumes) /\ Banked \in SUBSET Volumes
      BY Installation, FS_Interval DEF Volumes, Banked
    <3> QED
      BY <3>1, FS_Subset
  <2>2. Cardinality(Found) <= Cardinality(Banked) /\ IsFiniteSet(Found)
    BY <2>1, FS_Subset DEF Found
  <2>3. Rank(Found, v) <= Cardinality(Found)
    BY <1>1, RankBound
  <2>4. Cardinality(Found) \in Nat /\ Cardinality(Banked) \in Nat
    BY <2>1, <2>2, FS_CardinalityType
  <2> QED
    BY <1>4, <2>2, <2>3, <2>4 DEF DiskOK, BOOTBANKS_NR
<1>6. Rank(Found, v) > 0
  <2>1. 0 \in Nat /\ 0 < v
    BY <1>1
  <2> QED
    BY <1>1, <2>1, RankLess, RankZero
<1>7. v < volid => Slot(v) <= nfound
  <2>1. SUFFICES ASSUME v < volid PROVE Slot(v) <= nfound
    OBVIOUS
  <2>2. v <= volid - 1
    BY <1>1, <1>2, <2>1
  <2> QED
    BY <1>1, <1>2, <1>3, <2>2, RankMono
<1>8. v = volid => Slot(v) = nfound + 1
  BY <1>2, <1>3, RankStep
<1>9. ~(v < volid) => Slot(v) > nfound
  <2>1. SUFFICES ASSUME ~(v < volid) PROVE Slot(v) > nfound
    OBVIOUS
  <2>2. volid - 1 < v
    BY <1>1, <1>2, <2>1
  <2>3. Rank(Found, volid - 1) < Rank(Found, v)
    BY <1>1, <1>2, <2>2, RankLess
  <2> QED
    BY <1>3, <1>4, <2>3
<1> QED
  BY <1>1, <1>3, <1>4, <1>5, <1>6, <1>7, <1>8, <1>9 DEF Slots, BOOTBANKS_NR

(* A volume that is passed over is none that is found.                      *)
LEMMA SkipInv ==
  ASSUME Healthy, Inv, NEW v \in Volumes, ScanFails(v) \/ ScanCannotUpdate(v)
  PROVE  Inv'
<1>1. /\ pc = "scan" /\ v = volid /\ nfound < BOOTBANKS_NR
      /\ banks' = [banks EXCEPT ![nfound + 1] = Cleared]
      /\ volid' = volid + 1 /\ UNCHANGED <<pc, nfound, tries, disk>>
  BY DEF ScanFails, ScanCannotUpdate, Scanning, Skips
<1>2. v \notin Found
  BY DEF ScanFails, ScanCannotUpdate, Found, Banked, Healthy
<1>3. TypeOK /\ TypeOK' /\ DiskOK /\ Trial /\ Slotted /\ Mirrored
  BY <1>1, ScanTypes DEF Inv, Running
<1>4. /\ Found' = Found /\ DiskOK' /\ Eligible' = Eligible
      /\ \A u : Slot(u)' = Slot(u)
  BY <1>1, <1>3 DEF Found, Banked, DiskOK, Eligible, Slot, NewState, bank_get_config,
                    CanSetBootstate, Upgrading, WellFormed
<1>5. Slotted'
  <2>1. nfound' = Slot(volid - 1)'
    <3>1. v \in Nat \ {0} /\ volid' - 1 = v
      BY <1>1 DEF Volumes
    <3>2. Rank(Found, v) = Rank(Found, v - 1) + 0
      BY <1>2, <3>1, RankStep
    <3>3. Rank(Found, v - 1) \in Nat
      <4>1. v - 1 \in Nat
        BY <3>1
      <4> QED
        BY <4>1, RankType
    <3>4. Slot(v) = nfound
      BY <1>1, <1>3, <3>2, <3>3 DEF Slot, Slotted
    <3>5. Rank(Found', volid' - 1) = Rank(Found, v)
      BY <1>4, <3>1
    <3> QED
      BY <1>1, <3>4, <3>5 DEF Slot
  <2>2. \A s \in Slots : banks'[s] = banks[s] \/ banks'[s] = Cleared
    BY <1>1, <1>3 DEF TypeOK
  <2>3. Cleared.valid = FALSE /\ Cleared.volid = 0
    BY DEF Cleared
  <2>4. \A s \in Slots : banks'[s].valid => banks'[s].volid # 0
    BY <1>3, <2>2, <2>3 DEF Slotted
  <2>5. ASSUME NEW s \in Slots, banks'[s].volid # 0
        PROVE  banks'[s].volid \in Found /\ s = Slot(banks'[s].volid)
    BY <1>3, <2>2, <2>3, <2>5 DEF Slotted
  <2>6. \A s \in Slots : banks'[s].volid # 0 =>
          banks'[s].volid \in Found' /\ s = Rank(Found', banks'[s].volid)
    BY <1>4, <2>5 DEF Slot
  <2> QED
    BY <2>1, <2>4, <2>6 DEF Slotted, Slot
<1>6. Mirrored'
  <2>1. SUFFICES ASSUME NEW u \in Found, u < v + 1 PROVE MirroredAt(u)'
    BY <1>1, <1>4 DEF Mirrored
  <2>2. u < volid
    BY <1>1, <1>2, <2>1 DEF Found, Banked, Volumes
  <2>3. MirroredAt(u)
    BY <1>3, <2>2 DEF Mirrored
  <2>4. Slot(u) <= nfound /\ Slot(u) \in Slots
    BY <1>3, <2>2, SlotFacts DEF Slotted
  <2>5. Slot(u) # nfound + 1
    BY <1>3, <2>4 DEF TypeOK, Slots
  <2>6. banks'[Slot(u)] = banks[Slot(u)]
    BY <1>1, <1>3, <2>4, <2>5 DEF TypeOK
  <2> QED
    BY <1>1, <1>4, <2>3, <2>6 DEF MirroredAt
<1>7. Trial'
  <2>1. SUFFICES ASSUME NEW u \in Volumes, tries[u] # 0 PROVE TrialAt(u)'
    BY <1>1 DEF Trial, TrialAt
  <2>2. TrialAt(u)
    BY <1>3 DEF Trial
  <2>3. u \in Found
    <3>1. disk[u].bootstate \in {"DIRTY", "INVALID"}
      BY <2>1, <2>2 DEF TrialAt
    <3> QED
      BY <3>1, NoBankFacts DEF Found, Banked, CanSetBootstate
  <2>4. u < volid + 1 => u < volid
    BY <1>1, <1>2, <2>3 DEF Volumes
  <2> QED
    BY <1>1, <2>2, <2>4 DEF TrialAt, Running
<1> QED
  BY <1>1, <1>3, <1>4, <1>5, <1>6, <1>7 DEF Inv

LEMMA FindInv ==
  ASSUME Healthy, Inv, NEW v \in Volumes, ScanFinds(v)
  PROVE  Inv'
<1>1. /\ pc = "scan" /\ v = volid /\ nfound < BOOTBANKS_NR /\ disk[v] # NoBank
      /\ banks' = [banks EXCEPT ![nfound + 1] = Scanned(v)]
      /\ nfound' = nfound + 1 /\ volid' = volid + 1
      /\ UNCHANGED <<pc, tries>>
  BY DEF ScanFinds, Scanning
<1>2. v \in Found /\ v \in Banked
  BY DEF ScanFinds, Found, Banked
<1>3. TypeOK /\ TypeOK' /\ DiskOK /\ Trial /\ Slotted /\ Mirrored
  BY <1>1, ScanTypes DEF Inv, Running
<1>4. bank_get_config(v) = disk[v].bootstate /\ disk[v] \in Bank
  BY <1>1, <1>2, <1>3, BankFacts DEF DiskOK, bank_get_config
<1>5. NewState(v) = bank_get_config(v) => NewState(v) # "odd"
  BY DEF NewState
<1>6. /\ DiskOK' /\ Found' = Found
      /\ \A u \in Volumes : disk'[u].updated = disk[u].updated
      /\ \A u \in Volumes \ {v} :
           disk'[u] = disk[u] /\ (u \in Eligible' <=> u \in Eligible)
      /\ disk'[v].bootstate = NewState(v)
      /\ v \in Eligible' <=> Scanned(v).valid
  <2>1. CASE NewState(v) = bank_get_config(v)
    <3>1. disk' = disk
      BY <2>1 DEF ScanFinds
    <3>2. DiskOK' /\ Found' = Found /\ Eligible' = Eligible
      BY <1>3, <3>1 DEF Found, Banked, DiskOK, Eligible, NewState, bank_get_config,
                        CanSetBootstate, Upgrading, WellFormed
    <3>3. Scanned(v).valid <=> WellFormed(v) /\ NewState(v) \in {"VALID", "DIRTY"}
      BY DEF Scanned
    <3>4. v \in Eligible <=> /\ NewState(v) \in {"VALID", "DIRTY"}
                             /\ disk[v].updated > 0 /\ ~disk[v].quickboot
      BY <1>4, <2>1 DEF Eligible
    <3>5. v \in Eligible <=> Scanned(v).valid
      BY <2>1, <3>3, <3>4 DEF WellFormed
    <3> QED
      BY <1>4, <2>1, <3>1, <3>2, <3>5
  <2>2. CASE NewState(v) # bank_get_config(v)
    <3>1. CanSetBootstate(v) /\ disk' = [disk EXCEPT ![v].bootstate = NewState(v)]
      BY <2>2 DEF ScanFinds, Overwrites, Healthy
    <3>2. NewState(v) \in {"DIRTY", "INVALID"}
      BY <2>2 DEF NewState
    <3>3. Scanned(v).valid <=> WellFormed(v) /\ NewState(v) = "DIRTY"
      BY <3>2 DEF Scanned
    <3>4. WellFormed(v) <=> disk[v].updated > 0 /\ ~disk[v].quickboot
      BY <1>4, <3>1 DEF WellFormed, CanSetBootstate
    <3>5. /\ DiskOK' /\ Found' = Found
          /\ \A u \in Volumes : disk'[u].updated = disk[u].updated
          /\ \A u \in Volumes \ {v} :
               disk'[u] = disk[u] /\ (u \in Eligible' <=> u \in Eligible)
          /\ disk'[v].bootstate = NewState(v)
          /\ v \in Eligible' <=> /\ NewState(v) # "INVALID" /\ disk[v].updated > 0
                                 /\ ~disk[v].quickboot
      BY <1>2, <1>3, <3>1, <3>2, SetState
    <3> QED
      BY <3>2, <3>3, <3>4, <3>5
  <2> QED
    BY <2>1, <2>2
<1>7. Slot(v) = nfound + 1 /\ Slot(v) \in Slots
  BY <1>1, <1>2, <1>3, SlotFacts DEF Slotted
<1>8. /\ banks'[Slot(v)] = Scanned(v)
      /\ \A s \in Slots \ {Slot(v)} : banks'[s] = banks[s]
  BY <1>1, <1>3, <1>7 DEF TypeOK
<1>9. Scanned(v).volid = v /\ Scanned(v).updated = disk[v].updated /\ v # 0
  BY DEF Scanned, Volumes
<1>10. Slotted'
  <2>1. nfound' = Rank(Found', volid' - 1)
    <3>1. volid' - 1 = v
      BY <1>1 DEF Volumes
    <3> QED
      BY <1>1, <1>6, <1>7, <3>1 DEF Slot
  <2>2. \A s \in Slots : banks'[s].valid => banks'[s].volid # 0
    BY <1>3, <1>8, <1>9 DEF Slotted
  <2>3. \A s \in Slots : banks'[s].volid # 0 =>
          banks'[s].volid \in Found /\ s = Slot(banks'[s].volid)
    BY <1>2, <1>3, <1>7, <1>8, <1>9 DEF Slotted
  <2>4. \A s \in Slots : banks'[s].volid # 0 =>
          banks'[s].volid \in Found' /\ s = Rank(Found', banks'[s].volid)
    BY <1>6, <2>3 DEF Slot
  <2> QED
    BY <2>1, <2>2, <2>4 DEF Slotted, Slot
<1>11. Mirrored'
  <2>1. SUFFICES ASSUME NEW u \in Found, u < v + 1 PROVE MirroredAt(u)'
    BY <1>1, <1>6 DEF Mirrored
  <2>2. Slot(u)' = Slot(u)
    BY <1>6 DEF Slot
  <2>3. CASE u = v
    BY <1>6, <1>7, <1>8, <1>9, <2>2, <2>3 DEF MirroredAt
  <2>4. CASE u # v
    <3>1. u < volid
      BY <1>1, <2>1, <2>4 DEF Found, Banked, Volumes
    <3>2. MirroredAt(u)
      BY <1>3, <3>1 DEF Mirrored
    <3>3. Slot(u) <= nfound /\ Slot(u) \in Slots /\ u \in Volumes
      BY <1>3, <3>1, SlotFacts DEF Slotted
    <3>4. Slot(u) # nfound + 1
      BY <1>3, <3>3 DEF TypeOK, Slots
    <3>5. banks'[Slot(u)] = banks[Slot(u)]
      BY <1>7, <1>8, <3>3, <3>4
    <3> QED
      BY <1>6, <2>2, <2>4, <3>2, <3>3, <3>5 DEF MirroredAt
  <2> QED
    BY <2>3, <2>4
<1>12. Trial'
  <2>1. SUFFICES ASSUME NEW u \in Volumes, tries[u] # 0 PROVE TrialAt(u)'
    BY <1>1 DEF Trial, TrialAt
  <2>2. TrialAt(u)
    BY <1>3 DEF Trial
  <2>3. CASE u = v
    <3>1. disk[v].bootstate \in {"DIRTY", "INVALID"}
      BY <2>1, <2>2, <2>3 DEF TrialAt
    <3>2. NewState(v) = "INVALID"
      BY <1>4, <3>1 DEF NewState
    <3> QED
      BY <1>1, <1>6, <2>1, <2>2, <2>3, <3>2 DEF TrialAt
  <2>4. CASE u # v
    <3>1. u < volid + 1 => u < volid
      BY <1>1, <2>4 DEF Volumes
    <3>2. disk'[u] = disk[u]
      BY <1>6, <2>4
    <3> QED
      BY <1>1, <2>2, <3>1, <3>2 DEF TrialAt, Running
  <2> QED
    BY <2>3, <2>4
<1> QED
  BY <1>1, <1>3, <1>6, <1>10, <1>11, <1>12 DEF Inv

-----------------------------------------------------------------------------
(* Selecting: the valid entries of banks[] are the eligible banks.         *)

LEMMA ValidEligible ==
  ASSUME TypeOK, DiskOK, Slotted, Mirrored, Complete
  PROVE  /\ \A s \in Valid : /\ banks[s].volid \in Eligible
                             /\ banks[s].updated = disk[banks[s].volid].updated
                             /\ s = Slot(banks[s].volid)
         /\ \A v \in Eligible : Slot(v) \in Valid /\ banks[Slot(v)].volid = v
<1>1. ASSUME NEW s \in Valid
      PROVE  /\ banks[s].volid \in Eligible
             /\ banks[s].updated = disk[banks[s].volid].updated
             /\ s = Slot(banks[s].volid)
  <2>1. s \in Slots /\ banks[s].valid
    BY DEF Valid
  <2>2. banks[s].volid \in Found /\ s = Slot(banks[s].volid)
    BY <2>1 DEF Slotted
  <2>3. MirroredAt(banks[s].volid)
    BY <2>2 DEF Mirrored, Complete
  <2> QED
    BY <2>1, <2>2, <2>3 DEF MirroredAt
<1>2. ASSUME NEW v \in Eligible
      PROVE  Slot(v) \in Valid /\ banks[Slot(v)].volid = v
  <2>1. MirroredAt(v)
    BY EligibleFound DEF Mirrored, Complete
  <2> QED
    BY <2>1 DEF MirroredAt, Valid
<1> QED
  BY <1>1, <1>2

LEMMA SelectInv ==
  ASSUME Inv, ScanEnds \/ NothingToBoot \/ RollbackRefused \/ Chainload \/ ChainloadFails
  PROVE  Inv'
<1>1. TypeOK /\ TypeOK' /\ DiskOK /\ Trial /\ Slotted /\ Mirrored /\ Running
  BY SelectTypes DEF Inv, Running, ScanEnds, NothingToBoot, RollbackRefused,
                     Chainload, ChainloadFails
<1>2. UNCHANGED <<disk, banks, volid, nfound, tries>>
  BY DEF ScanEnds, NothingToBoot, RollbackRefused, Chainload, ChainloadFails, memory
<1>3. Found' = Found /\ Eligible' = Eligible /\ DiskOK'
  BY <1>1, <1>2 DEF Found, Banked, DiskOK, Eligible, NewState, bank_get_config,
                    CanSetBootstate, Upgrading, WellFormed
<1>4. \A v : Slot(v)' = Slot(v)
  BY <1>3 DEF Slot
<1>5. Slotted' /\ Mirrored' /\ Trial'
  <2>1. Slotted'
    BY <1>1, <1>2, <1>3 DEF Slotted, Slot
  <2>2. Mirrored'
    BY <1>1, <1>2, <1>3, <1>4 DEF Mirrored, MirroredAt
  <2>3. Trial'
    BY <1>1, <1>2 DEF Trial, TrialAt
  <2> QED
    BY <2>1, <2>2, <2>3
<1>6. CASE ScanEnds
  <2>1. Complete
    <3>1. SUFFICES ASSUME NEW v \in Found PROVE v < volid
      BY DEF Complete
    <3>2. /\ v \in Volumes /\ Slot(v) \in Slots
          /\ ~(v < volid) => Slot(v) > nfound
      BY <1>1, SlotFacts DEF Slotted
    <3>3. CASE volid > MaxVolume
      BY <1>1, <3>2, <3>3, Installation DEF Volumes, TypeOK
    <3>4. CASE nfound = BOOTBANKS_NR
      BY <3>2, <3>4 DEF Slots, BOOTBANKS_NR
    <3> QED
      BY <1>6, <3>3, <3>4 DEF ScanEnds
  <2>2. Complete'
    BY <1>2, <1>3, <2>1 DEF Complete
  <2>3. pc' # "mboot"
    BY <1>6 DEF ScanEnds
  <2> QED
    BY <1>1, <1>3, <1>5, <2>2, <2>3 DEF Inv
<1>7. CASE NothingToBoot \/ RollbackRefused \/ ChainloadFails
  <2>1. pc \in {"rollback", "select"} /\ pc' # "mboot"
    BY <1>7 DEF NothingToBoot, RollbackRefused, ChainloadFails
  <2>2. Complete'
    BY <1>2, <1>3, <2>1 DEF Inv, Complete
  <2> QED
    BY <1>1, <1>3, <1>5, <2>1, <2>2 DEF Inv
<1>8. CASE Chainload
  <2>1. Valid # {} /\ bank' = banks[Latest].volid /\ pc = "select"
    BY <1>8 DEF Chainload
  <2>2. Complete /\ Complete'
    BY <1>2, <1>3, <2>1 DEF Inv, Complete
  <2>3. /\ Latest \in Valid
        /\ \A o \in Valid : banks[o].updated <= banks[Latest].updated
    BY <1>1, <2>1, LatestIsLatest
  <2>4. bank' \in Eligible /\ banks[Latest].updated = disk[bank'].updated
    BY <1>1, <2>1, <2>2, <2>3, ValidEligible
  <2>5. ASSUME NEW v \in Eligible PROVE disk[v].updated <= disk[bank'].updated
    <3>1. Slot(v) \in Valid /\ banks[Slot(v)].updated = disk[v].updated
      BY <1>1, <2>2, ValidEligible
    <3> QED
      BY <2>3, <2>4, <3>1
  <2>6. Chosen'
    BY <1>2, <1>3, <2>4, <2>5 DEF Chosen
  <2> QED
    BY <1>1, <1>3, <1>5, <2>2, <2>6 DEF Inv
<1> QED
  BY <1>6, <1>7, <1>8

(* A confirmed rollback: the bank killed, and one that stays.               *)
LEMMA Kills ==
  ASSUME Healthy, Inv, RollbackConfirmed
  PROVE  /\ Latest \in Valid /\ banks[Latest].volid \in Eligible
         /\ banks[Latest].volid \in Banked
         /\ CanSetBootstate(banks[Latest].volid)
         /\ disk' = [disk EXCEPT ![banks[Latest].volid].bootstate = "INVALID"]
         /\ TypeOK /\ DiskOK /\ Slotted /\ Mirrored /\ Complete
<1>1. TypeOK /\ DiskOK /\ Slotted /\ Mirrored /\ Complete
  BY DEF Inv, RollbackConfirmed, Running
<1>2. Valid # {}
  BY DEF RollbackConfirmed, HasAlternate
<1>3. Latest \in Valid
  BY <1>1, <1>2, LatestIsLatest
<1>4. banks[Latest].volid \in Eligible
  BY <1>1, <1>3, ValidEligible
<1>5. banks[Latest].volid \in Banked
  BY <1>4, EligibleFound DEF Found
<1> QED
  BY <1>1, <1>3, <1>4, <1>5 DEF RollbackConfirmed, Overwrites, Healthy

LEMMA KillInv ==
  ASSUME Healthy, Inv, RollbackConfirmed
  PROVE  Inv'
<1> DEFINE v == banks[Latest].volid
<1>1. TypeOK' /\ TypeOK /\ DiskOK /\ Slotted /\ Mirrored /\ Complete /\ Trial
  BY SelectTypes, Kills DEF Inv
<1>2. /\ Latest \in Slots /\ v \in Eligible /\ v \in Found /\ v \in Volumes
      /\ Latest = Slot(v)
  BY <1>1, Kills, ValidEligible, EligibleFound DEF Valid, Eligible
<1>3. /\ DiskOK' /\ Found' = Found
      /\ \A u \in Volumes : disk'[u].updated = disk[u].updated
      /\ \A u \in Volumes \ {v} :
           disk'[u] = disk[u] /\ (u \in Eligible' <=> u \in Eligible)
      /\ disk'[v].bootstate = "INVALID" /\ v \notin Eligible'
  <2>1. v \in Banked /\ CanSetBootstate(v)
        /\ disk' = [disk EXCEPT ![v].bootstate = "INVALID"]
    BY Kills
  <2> HIDE DEF v
  <2> QED
    BY <1>1, <2>1, SetState
<1>4. /\ pc' = "select" /\ UNCHANGED <<volid, nfound, tries>>
      /\ banks' = [banks EXCEPT ![Latest].bootstate = "INVALID",
                                ![Latest].valid = FALSE]
  BY DEF RollbackConfirmed
<1>5. /\ banks'[Latest].valid = FALSE
      /\ banks'[Latest].volid = v /\ banks'[Latest].updated = banks[Latest].updated
      /\ \A s \in Slots \ {Latest} : banks'[s] = banks[s]
  BY <1>1, <1>2, <1>4 DEF TypeOK, Entries
<1> HIDE DEF v
<1>6. Slotted'
  <2>1. nfound' = Rank(Found', volid' - 1)
    BY <1>1, <1>3, <1>4 DEF Slotted, Slot
  <2>2. \A s \in Slots : banks'[s].valid => banks'[s].volid # 0
    BY <1>1, <1>5 DEF Slotted
  <2>3. \A s \in Slots : banks'[s].volid # 0 =>
          banks'[s].volid \in Found /\ s = Slot(banks'[s].volid)
    BY <1>1, <1>2, <1>5 DEF Slotted
  <2>4. \A s \in Slots : banks'[s].volid # 0 =>
          banks'[s].volid \in Found' /\ s = Rank(Found', banks'[s].volid)
    BY <1>3, <2>3 DEF Slot
  <2> QED
    BY <2>1, <2>2, <2>4 DEF Slotted, Slot
<1>7. Mirrored'
  <2>1. SUFFICES ASSUME NEW u \in Found PROVE MirroredAt(u)'
    BY <1>3 DEF Mirrored
  <2>2. Slot(u)' = Slot(u)
    BY <1>3 DEF Slot
  <2>3. MirroredAt(u) /\ u \in Volumes
    BY <1>1 DEF Mirrored, Complete, Found, Banked
  <2>4. MirroredAt(v)
    BY <1>1, <1>2 DEF Mirrored, Complete
  <2>5. CASE u = v
    BY <1>2, <1>3, <1>5, <2>2, <2>4, <2>5 DEF MirroredAt
  <2>6. CASE u # v
    <3>1. Slot(u) \in Slots \ {Latest}
      BY <1>2, <2>3, <2>4, <2>6 DEF MirroredAt
    <3>2. banks'[Slot(u)] = banks[Slot(u)]
      BY <1>5, <3>1
    <3> QED
      BY <1>3, <2>2, <2>3, <2>6, <3>2 DEF MirroredAt
  <2> QED
    BY <2>5, <2>6
<1>8. Complete'
  BY <1>1, <1>3, <1>4 DEF Complete
<1>9. Trial'
  <2>1. SUFFICES ASSUME NEW u \in Volumes PROVE TrialAt(u)'
    BY DEF Trial
  <2>2. TrialAt(u)
    BY <1>1 DEF Trial
  <2>3. u = v \/ disk'[u] = disk[u]
    BY <1>3
  <2>4. Running
    BY DEF RollbackConfirmed, Running
  <2> QED
    BY <1>3, <1>4, <2>2, <2>3, <2>4 DEF TrialAt
<1> QED
  BY <1>1, <1>3, <1>4, <1>6, <1>7, <1>8, <1>9 DEF Inv

-----------------------------------------------------------------------------
(* Starting, and the kernel.                                               *)

LEMMA StartInv ==
  ASSUME Inv, PowerOn \/ RequestRollback
  PROVE  Inv'
<1>1. TypeOK /\ TypeOK' /\ DiskOK /\ Trial
  BY StartTypes DEF Inv
<1>2. pc' = "scan" /\ volid' = 1 /\ nfound' = 0 /\ UNCHANGED <<disk, tries>>
  BY DEF PowerOn, RequestRollback, StartProcess, StartScan
<1>3. Found' = Found /\ DiskOK'
  BY <1>1, <1>2 DEF Found, Banked, DiskOK, NewState, bank_get_config,
                    CanSetBootstate, Upgrading, WellFormed
<1>4. Slotted'
  <2>1. nfound' = Rank(Found', volid' - 1)
    BY <1>2, RankZero
  <2>2. CASE banks' = [s \in Slots |-> Cleared]
    <3>1. \A s \in Slots : banks'[s].valid = FALSE /\ banks'[s].volid = 0
      BY <2>2 DEF Cleared
    <3> QED
      BY <2>1, <3>1 DEF Slotted, Slot
  <2>3. CASE pc = "mboot" /\ banks' = banks
    <3>1. Slotted
      BY <2>3 DEF Inv, Running
    <3> QED
      BY <1>3, <2>1, <2>3, <3>1 DEF Slotted, Slot
  <2> QED
    BY <2>2, <2>3 DEF PowerOn, RequestRollback, StartProcess
<1>5. \A v \in Volumes : ~(v < volid')
  BY <1>2 DEF Volumes
<1>6. Mirrored' /\ Trial'
  <2>1. Mirrored'
    BY <1>5 DEF Mirrored, Found, Banked
  <2>2. Trial'
    BY <1>1, <1>2, <1>5 DEF Trial, TrialAt
  <2> QED
    BY <2>1, <2>2
<1> QED
  BY <1>1, <1>2, <1>3, <1>4, <1>6 DEF Inv

LEMMA StopInv ==
  ASSUME Inv, Reboot \/ PowerFails
  PROVE  Inv'
<1>1. TypeOK' /\ DiskOK /\ Trial /\ pc' = "off" /\ UNCHANGED <<disk, tries>>
  BY StartTypes DEF Inv, Reboot, PowerFails
<1>2. DiskOK' /\ Trial'
  BY <1>1 DEF DiskOK, Banked, Trial, TrialAt, Running
<1> QED
  BY <1>1, <1>2 DEF Inv, Running

LEMMA KernelInv ==
  ASSUME Inv, StartKernel
  PROVE  Inv'
<1>1. TypeOK /\ TypeOK' /\ DiskOK /\ Trial /\ Chosen /\ Complete
      /\ pc = "mboot" /\ pc' \in {"up", "stopped"} /\ disk' = disk
  BY KernelTypes DEF Inv, StartKernel
<1>2. bank \in Eligible /\ bank \in Volumes /\ bank < volid
  BY <1>1, EligibleFound DEF Chosen, Complete, Eligible
<1>3. tries[bank] = 0 /\ disk[bank].bootstate \in {"VALID", "DIRTY"}
  <2>1. TrialAt(bank) /\ Running
    BY <1>1, <1>2 DEF Trial, Running
  <2> QED
    BY <1>2, <2>1 DEF TrialAt, Eligible
<1>4. tries' = [tries EXCEPT ![bank] = IF disk[bank].bootstate = "VALID" THEN 0 ELSE 1]
  BY <1>1, <1>3 DEF StartKernel, TypeOK
<1>5. Trial'
  <2>1. SUFFICES ASSUME NEW v \in Volumes PROVE TrialAt(v)'
    BY DEF Trial
  <2>2. TrialAt(v) /\ ~Running'
    BY <1>1 DEF Trial, Running
  <2>3. CASE v = bank
    BY <1>1, <1>2, <1>3, <1>4, <2>2, <2>3 DEF TrialAt, TypeOK
  <2>4. CASE v # bank
    BY <1>1, <1>4, <2>2, <2>4 DEF TrialAt, TypeOK
  <2> QED
    BY <2>3, <2>4
<1>6. DiskOK'
  BY <1>1 DEF DiskOK, Banked
<1> QED
  BY <1>1, <1>5, <1>6 DEF Inv, Running

(* The tools touch one bank, and forget its trials.                         *)
Touched(w, st) ==
  /\ \A v \in Volumes \ {w} : disk'[v] = disk[v] /\ tries'[v] = tries[v]
  /\ w \in Volumes =>
       disk[w] # NoBank /\ disk'[w].bootstate = st /\ tries'[w] = 0

LEMMA ToolsInv ==
  ASSUME Inv, MarkValid \/ \E v \in Volumes, boots \in BOOLEAN : Upgrade(v, boots)
  PROVE  Inv'
<1>1. TypeOK /\ TypeOK' /\ DiskOK /\ Trial
  BY KernelTypes DEF Inv
<1>2. pc = "up" /\ pc' = "up"
  BY DEF MarkValid, Upgrade
<1>3. \E w : \E st \in {"VALID", "UPGRADING"} : Touched(w, st)
  <2>1. ASSUME MarkValid PROVE Touched(bank, "VALID")
    <3>1. disk[bank] # NoBank
      BY <2>1, NoBankFacts DEF MarkValid
    <3>2. bank \in Volumes => disk'[bank].bootstate = "VALID"
      BY <1>1, <2>1, <3>1, BankFacts DEF MarkValid, TypeOK, Bank
    <3>3. bank \in Volumes => tries'[bank] = 0
      BY <1>1, <2>1 DEF MarkValid, TypeOK
    <3>4. \A v \in Volumes \ {bank} : disk'[v] = disk[v] /\ tries'[v] = tries[v]
      BY <1>1, <2>1 DEF MarkValid, TypeOK
    <3> QED
      BY <3>1, <3>2, <3>3, <3>4 DEF Touched
  <2>2. ASSUME NEW v \in Volumes, NEW boots \in BOOLEAN, Upgrade(v, boots)
        PROVE  Touched(v, "UPGRADING")
    <3>1. PICK updated \in 1 .. MaxUpdated :
            disk' = [disk EXCEPT ![v] = [bootstate |-> "UPGRADING", updated |-> updated,
                                         quickboot |-> FALSE, boots |-> boots]]
      BY <2>2 DEF Upgrade
    <3>2. tries' = [tries EXCEPT ![v] = 0] /\ disk[v] # NoBank
      BY <2>2 DEF Upgrade
    <3> QED
      BY <1>1, <3>1, <3>2 DEF TypeOK, Touched
  <2> QED
    BY <2>1, <2>2
<1>4. PICK w : \E st \in {"VALID", "UPGRADING"} : Touched(w, st)
  BY <1>3
<1>5. Banked' = Banked
  BY <1>4, NoBankFacts DEF Banked, Touched
<1>6. DiskOK'
  BY <1>1, <1>4, <1>5 DEF DiskOK, Banked, Touched
<1>7. Trial'
  BY <1>1, <1>2, <1>4 DEF Trial, TrialAt, Running, Touched
<1> QED
  BY <1>1, <1>2, <1>6, <1>7 DEF Inv, Running

LEMMA NextInv == Healthy /\ Inv /\ [Next]_vars => Inv'
<1> SUFFICES ASSUME Healthy, Inv, [Next]_vars PROVE Inv'
  OBVIOUS
<1>1. CASE UNCHANGED vars
  <2>1. TypeOK'
    BY <1>1, NextTypes DEF Inv
  <2>2. UNCHANGED <<pc, disk, banks, volid, nfound, bank, tries>>
    BY <1>1 DEF vars
  <2>3. Found' = Found /\ Eligible' = Eligible /\ Banked' = Banked /\ Running' = Running
    BY <2>2 DEF Found, Banked, Eligible, NewState, bank_get_config,
                CanSetBootstate, Upgrading, WellFormed, Running
  <2>4. \A v : Slot(v)' = Slot(v)
    BY <2>3 DEF Slot
  <2>5. (DiskOK => DiskOK') /\ (Trial => Trial')
    BY <2>2, <2>3 DEF DiskOK, Trial, TrialAt
  <2>6. Slotted => Slotted'
    BY <2>2, <2>3 DEF Slotted, Slot
  <2>7. (Mirrored => Mirrored') /\ (Complete => Complete')
    BY <2>2, <2>3, <2>4 DEF Mirrored, MirroredAt, Complete
  <2>8. Chosen => Chosen'
    BY <2>2, <2>3 DEF Chosen
  <2> QED
    BY <2>1, <2>2, <2>3, <2>5, <2>6, <2>7, <2>8 DEF Inv
<1> QED
  BY <1>1, SkipInv, FindInv, SelectInv, KillInv, StartInv, StopInv, KernelInv, ToolsInv
     DEF Next, Boot, Tools

-----------------------------------------------------------------------------
\* bootbank.c: an upgraded bank is booted once, whenever power fails and however
\* often SHIFT+R is pressed, and is not booted again unless it has come up.
THEOREM BootsOnce == ASSUME Healthy PROVE Spec => []TriedOnce
<1>1. Inv => TriedOnce
  BY DEF Inv, Trial, TrialAt, TriedOnce, TypeOK
<1> QED
  BY <1>1, InitInv, NextInv, PTL DEF Spec

\* bank_auto_select: the bank that is booted may be booted: its volume has a
\* bootstate that allows it, also after a scan that was repeated.
THEOREM BootsValid == ASSUME Healthy PROVE Spec => []BootsEligible
<1>1. Inv => BootsEligible
  BY DEF Inv, Chosen, Eligible, BootsEligible
<1> QED
  BY <1>1, InitInv, NextInv, PTL DEF Spec

\* bank_auto_select: the bank that is booted is the most recent of those that
\* may be; no entry of an earlier scan is taken for a current one.
THEOREM BootsTheBest == ASSUME Healthy PROVE Spec => []BootsLatest
<1>1. Inv => BootsLatest
  BY DEF Inv, Chosen, Eligible, BootsLatest
<1> QED
  BY <1>1, InitInv, NextInv, PTL DEF Spec

\* bank_kill: a rollback leaves a bank to boot.
THEOREM RollbackKeepsOne == ASSUME Healthy PROVE Spec => KeepsOne
<1>1. Inv /\ [Next]_vars
        => [pc = "rollback" /\ rollback' /\ disk' # disk => Bootable' # {}]_vars
  <2> SUFFICES ASSUME Inv, Next, pc = "rollback", disk' # disk
               PROVE  Bootable' # {}
    OBVIOUS
  <2>1. RollbackConfirmed
    BY DEF Next, Boot, Tools, PowerOn, ScanFails, ScanCannotUpdate, ScanFinds, Scanning,
           ScanEnds, NothingToBoot, RollbackRefused, Chainload, ChainloadFails,
           RequestRollback, StartKernel, Reboot, MarkValid, Upgrade, PowerFails
  <2> DEFINE v == banks[Latest].volid
  <2>2. PICK o \in Valid : o # Latest
    BY <2>1 DEF RollbackConfirmed, HasAlternate
  <2>3. /\ banks[o].volid \in Eligible /\ o = Slot(banks[o].volid)
        /\ Latest = Slot(v)
    BY <2>1, Kills, ValidEligible
  <2>4. banks[o].volid # v /\ banks[o].volid \in Volumes
    BY <2>2, <2>3 DEF Eligible
  <2>5. \A u \in Volumes \ {v} : u \in Eligible' <=> u \in Eligible
    <3>1. TypeOK /\ DiskOK /\ v \in Banked /\ CanSetBootstate(v)
          /\ disk' = [disk EXCEPT ![v].bootstate = "INVALID"]
      BY <2>1, Kills
    <3> HIDE DEF v
    <3> QED
      BY <3>1, SetState
  <2>6. Eligible' \subseteq Bootable'
    BY DEF Eligible, Bootable, bank_get_config
  <2> QED
    BY <2>3, <2>4, <2>5, <2>6
<1>2. Spec => []Inv
  BY InitInv, NextInv, PTL DEF Spec
<1> QED
  BY <1>1, <1>2, PTL DEF Spec, KeepsOne
=============================================================================
