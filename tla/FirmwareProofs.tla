--------------------------- MODULE FirmwareProofs ---------------------------
(***************************************************************************)
(* The parts of the loader that depend on the firmware, each by itself:    *)
(* the log (LogBuffer), the way out of boot services (ExitBoot) and the    *)
(* place of the runtime services (RuntimeServices).  The proofs hold for   *)
(* every size of page, message and buffer, for any number of buffers and   *)
(* of changes of the memory map, and for every map without overlaps.       *)
(***************************************************************************)
EXTENDS LogBuffer, ExitBoot, RuntimeServices, LeastProofs, TLAPS

(* The log: a message is never lost without the overflow text to tell, and  *)
(* that text stays the end of the log.                                     *)

LogInv == LogTypeOK /\ LogRoom /\ LostIsMarked

\* The buffer of an earlier program consists of pages.
LEMMA InheritedSize ==
  ASSUME Inherited
  PROVE  bufferSize \in Nat /\ 0 < bufferSize
<1>1. PICK k \in 1 .. MaxLog : bufferSize = k * LogPage
  BY DEF Inherited
<1>2. \A p \in Nat : 0 < p => k * p \in Nat /\ 0 < k * p
  BY LogConstants
<1> QED
  BY <1>1, <1>2, LogConstants

LEMMA LogInitInv == LogInit => LogInv
<1> SUFFICES ASSUME LogInit PROVE LogInv
  OBVIOUS
<1>1. consoles = {}
  BY DEF LogInit
<1>2. CASE NoBuffer
  BY <1>1, <1>2 DEF NoBuffer, LogInv, LogTypeOK, LogRoom, LostIsMarked
<1>3. CASE Inherited
  <2>1. bufferSize \in Nat /\ 0 < bufferSize
    BY <1>3, InheritedSize
  <2>2. CASE buf = "live"
    <3>1. /\ expand = TRUE /\ lost = FALSE /\ marked = FALSE
          /\ offset \in 0 .. bufferSize - OverflowLen - 1
      BY <1>3, <2>2 DEF Inherited
    <3>2. offset \in Nat /\ offset + OverflowLen < bufferSize
      BY <2>1, <3>1, LogConstants
    <3> QED
      BY <1>1, <2>1, <2>2, <3>1, <3>2 DEF LogInv, LogTypeOK, LogRoom, LostIsMarked
  <2>3. CASE buf # "live"
    <3>1. /\ buf = "freed" /\ expand = FALSE /\ lost = TRUE /\ marked = TRUE
          /\ offset = bufferSize - 1
      BY <1>3, <2>3 DEF Inherited
    <3>2. offset \in Nat /\ offset + 1 = bufferSize
      BY <2>1, <3>1
    <3> QED
      BY <1>1, <2>1, <3>1, <3>2 DEF LogInv, LogTypeOK, LogRoom, LostIsMarked
  <2> QED
    BY <2>2, <2>3
<1> QED
  BY <1>2, <1>3 DEF LogInit

\* A message that is kept leaves room for the overflow text.
LEMMA KeepInv ==
  ASSUME LogInv, NEW size \in MsgSizes, buf # "none", UNCHANGED consoles, Keep(size)
  PROVE  LogInv'
<1>1. PICK n \in 0 .. MaxLog : Write(size, n)
  BY DEF Keep
<1>2. size + OverflowLen <= bufferSize + n * LogPage - offset
  BY <1>1 DEF Write, Needs, Fits
<1>3. n * LogPage \in Nat
  BY LogConstants
<1>4. ~marked
  <2>1. SUFFICES ASSUME marked PROVE FALSE
    OBVIOUS
  <2>2. n = 0
    BY <2>1, <1>1 DEF Write, LogInv, LogRoom
  <2>3. offset + 1 = bufferSize
    BY <2>1 DEF LogInv, LogRoom
  <2> QED
    BY <2>2, <2>3, <1>2, LogConstants DEF LogInv, LogTypeOK
<1>5. LogTypeOK'
  BY <1>1, <1>3, LogConstants DEF Write, LogInv, LogTypeOK
<1>6. LogRoom'
  BY <1>1, <1>2, <1>3, <1>4, LogConstants DEF Write, LogInv, LogTypeOK, LogRoom
<1> QED
  BY <1>1, <1>5, <1>6 DEF Write, LogInv, LostIsMarked

\* A message that is dropped finds room for the overflow text, or the text.
LEMMA DropInv ==
  ASSUME LogInv, NEW size \in MsgSizes, buf # "none", UNCHANGED consoles, Drop(size)
  PROVE  LogInv'
<1>1. PICK n \in 0 .. MaxLog : Overflow(size, n)
  BY DEF Drop
<1>2. n * LogPage \in Nat
  BY LogConstants
<1>3. CASE marked
  <2>1. n = 0 /\ bufferSize' = bufferSize /\ offset + 1 = bufferSize
    <3>1. ~expand /\ offset + 1 = bufferSize
      BY <1>3 DEF LogInv, LogRoom
    <3>2. n = 0
      BY <1>1, <3>1, LogConstants DEF Overflow
    <3>3. bufferSize' = bufferSize
      BY <1>1, <3>2, LogConstants DEF Overflow, LogInv, LogTypeOK
    <3> QED
      BY <3>1, <3>2, <3>3
  <2>2. UNCHANGED <<marked, expand, offset>>
    BY <1>1, <2>1, LogConstants DEF Overflow, LogInv, LogTypeOK
  <2> QED
    BY <1>1, <1>3, <2>1, <2>2 DEF Overflow, LogInv, LogTypeOK, LogRoom, LostIsMarked
<1>4. CASE ~marked
  <2>1. offset + OverflowLen <= bufferSize' /\ bufferSize' \in Nat /\ 0 < bufferSize'
    BY <1>1, <1>2, <1>4, LogConstants DEF Overflow, LogInv, LogTypeOK, LogRoom
  <2>2. marked' /\ ~expand' /\ offset' = bufferSize' - 1 /\ lost'
    BY <1>1, <2>1 DEF Overflow
  <2>3. buf' \in {"live", "freed"}
    BY <1>1 DEF Overflow, LogInv, LogTypeOK
  <2> QED
    <3>1. offset' = bufferSize' - 1
      BY <2>2
    <3>2. bufferSize' \in Nat /\ 0 < bufferSize'
      BY <2>1
    <3>3. bufferSize' - 1 \in Nat /\ (bufferSize' - 1) + 1 = bufferSize'
      <4>1. \A k \in Nat : 0 < k => k - 1 \in Nat /\ (k - 1) + 1 = k
        OBVIOUS
      <4> QED
        BY <3>2, <4>1
    <3>4. offset' \in Nat /\ offset' + 1 = bufferSize'
      BY <3>1, <3>3
    <3>5. consoles' \subseteq Consoles \cup {"firmware_print"}
      BY DEF LogInv, LogTypeOK
    <3>6. expand' = FALSE /\ lost' = TRUE /\ marked' = TRUE
      BY <1>1, <2>1 DEF Overflow
    <3> QED
      BY <2>1, <2>3, <3>4, <3>5, <3>6 DEF LogInv, LogTypeOK, LogRoom, LostIsMarked
<1> QED
  BY <1>3, <1>4

LEMMA LogNextInv == LogInv /\ [LogNext]_logVars => LogInv'
<1> SUFFICES ASSUME LogInv, [LogNext]_logVars PROVE LogInv'
  OBVIOUS
<1>1. CASE log_init
  <2>1. consoles' \subseteq Consoles \cup {"firmware_print"}
    BY <1>1 DEF log_init, log_subscribe, LogInv, LogTypeOK
  <2>2. CASE buf = "none" /\ FreshBuffer
    BY <1>1, <2>1, <2>2, LogConstants DEF log_init, FreshBuffer, LogInv, LogTypeOK, LogRoom, LostIsMarked
  <2>3. CASE UNCHANGED <<buf, offset, bufferSize, expand>>
    BY <1>1, <2>1, <2>3 DEF log_init, LogInv, LogTypeOK, LogRoom, LostIsMarked
  <2> QED
    BY <1>1, <2>2, <2>3 DEF log_init
<1>2. ASSUME NEW c \in Consoles \cup {"firmware_print"},
             log_subscribe(c) \/ log_unsubscribe(c), UNCHANGED bufferVars
      PROVE  LogInv'
  BY <1>2 DEF log_subscribe, log_unsubscribe, bufferVars, LogInv, LogTypeOK, LogRoom, LostIsMarked
<1>3. ASSUME NEW size \in MsgSizes, Log(size)
      PROVE  LogInv'
  <2>1. CASE buf = "none"
    BY <1>3, <2>1 DEF Log, bufferVars, LogInv, LogTypeOK, LogRoom, LostIsMarked
  <2>2. CASE buf # "none"
    BY <1>3, <2>2, KeepInv, DropInv DEF Log
  <2> QED
    BY <2>1, <2>2
<1>4. ASSUME NEW size \in LastSizes, syslogbuf_expand_disable(size)
      PROVE  LogInv'
  <2>1. /\ expand' = FALSE /\ UNCHANGED <<consoles, offset, lost, marked>>
        /\ buf' \in {"none", "live", "freed"}
    BY <1>4 DEF syslogbuf_expand_disable, LogInv, LogTypeOK
  <2>2. bufferSize' \in Nat /\ bufferSize <= bufferSize'
    BY <1>4, LogConstants DEF syslogbuf_expand_disable, LogInv, LogTypeOK
  <2>3. marked => bufferSize' = bufferSize
    BY <1>4 DEF syslogbuf_expand_disable, LogInv, LogRoom
  <2>4. buf' # "none" => buf # "none"
    BY <1>4 DEF syslogbuf_expand_disable, LogInv, LogRoom
  <2>5. buf' = "none" => buf = "none"
    BY <1>4 DEF syslogbuf_expand_disable
  <2> QED
    <3>1. LogTypeOK'
      BY <2>1, <2>2 DEF LogInv, LogTypeOK
    <3>2. LogRoom'
      <4>1. buf # "none" /\ ~marked => offset + OverflowLen < bufferSize'
        BY <2>2, LogConstants DEF LogInv, LogTypeOK, LogRoom
      <4> QED
        BY <2>1, <2>3, <2>4, <2>5, <4>1 DEF LogInv, LogRoom
    <3> QED
      BY <2>1, <3>1, <3>2 DEF LogInv, LostIsMarked
<1>5. CASE UNCHANGED logVars
  BY <1>5 DEF logVars, bufferVars, LogInv, LogTypeOK, LogRoom, LostIsMarked
<1> QED
  BY <1>1, <1>2, <1>3, <1>4, <1>5 DEF LogNext

\* bootlib/log.c: the log is well formed and keeps room for its overflow text,
\* and Log never drops a message without that text.
THEOREM LogSound == LogSpec => [](LogTypeOK /\ LogRoom /\ LostIsMarked)
<1>1. LogSpec => []LogInv
  BY LogInitInv, LogNextInv, PTL DEF LogSpec
<1> QED
  BY <1>1, PTL DEF LogInv

\* bootlib/log.c: what Log wrote last when the buffer overflowed is neither
\* written over nor followed by anything.
THEOREM LogEnds == LogSpec => OverflowIsLast
<1>1. LogInv /\ [LogNext]_logVars
        => [marked => UNCHANGED <<offset, bufferSize, marked>>]_logVars
  <2> SUFFICES ASSUME LogInv, LogNext, marked
               PROVE  UNCHANGED <<offset, bufferSize, marked>>
    OBVIOUS
  <2>1. buf # "none" /\ ~expand /\ offset + 1 = bufferSize
    BY DEF LogInv, LogRoom
  <2>2. CASE log_init
    BY <2>1, <2>2 DEF log_init
  <2>3. ASSUME NEW size \in MsgSizes, Log(size)
        PROVE  UNCHANGED <<offset, bufferSize, marked>>
    <3>1. PICK n \in 0 .. MaxLog : Write(size, n) \/ Overflow(size, n)
      BY <2>1, <2>3 DEF Log, Keep, Drop
    <3>2. ~(n > 0)
      BY <3>1, <2>1, Zenon DEF Write, Overflow
    <3>3. n = 0
      BY <3>2, LogConstants
    <3>4. n * LogPage = 0
      BY <3>3, LogConstants
    <3>5. bufferSize + n * LogPage = bufferSize /\ offset \in Nat /\ bufferSize \in Nat
      BY <3>4 DEF LogInv, LogTypeOK
    <3>6. ~Fits(size, n)
      BY <3>5, <2>1, LogConstants DEF Fits
    <3>7. Overflow(size, n)
      BY <3>1, <3>6 DEF Write, Needs
    <3>8. bufferSize' = bufferSize /\ ~(offset + OverflowLen <= bufferSize')
      BY <3>7, <3>5, <2>1, LogConstants DEF Overflow
    <3> QED
      BY <3>7, <3>8 DEF Overflow
  <2>4. ASSUME NEW size \in LastSizes, syslogbuf_expand_disable(size)
        PROVE  UNCHANGED <<offset, bufferSize, marked>>
    BY <2>1, <2>4 DEF syslogbuf_expand_disable
  <2> QED
    BY <2>2, <2>3, <2>4 DEF LogNext, bufferVars
<1>2. LogSpec => []LogInv
  BY LogInitInv, LogNextInv, PTL DEF LogSpec
<1> QED
  BY <1>1, <1>2, PTL DEF LogSpec, OverflowIsLast

-----------------------------------------------------------------------------
(* Boot services: every buffer is freed once, and the map that is handed    *)
(* over is the firmware's own at the moment it lets go.                     *)

(* Which pointers hold a map, and what is known of it, at each step.        *)
Held ==
  /\ step \in {"first", "second", "got"} => Buffer # NULL
  /\ step \in {"none", "failed", "key"} => Buffer = NULL
  /\ step # "none" => phase \in {"show", "estimate", "tables", "exit"}
  /\ phase \notin {"exit", "left", "panic"} => efiMap = NULL /\ ptMap = NULL
  /\ phase = "exit" /\ step # "key" => efiMap = NULL
  /\ step = "key" => phase = "exit" /\ efiMap # NULL /\ (keyFresh => mapFresh)

ExitInv == ExitTypeOK /\ MapsOwned /\ Held /\ MapIsCurrent

LEMMA ExitInitInv == ExitInit => ExitInv
<1> SUFFICES ASSUME ExitInit PROVE ExitInv
  OBVIOUS
<1>1. ExitTypeOK
  <2>1. changes \in 0 .. MaxChanges
    BY MapConstants DEF ExitInit
  <2> QED
    BY <2>1 DEF ExitInit, ExitTypeOK, Phases, Steps
<1>2. MapsOwned
  BY DEF ExitInit, MapsOwned
<1>3. Held /\ MapIsCurrent
  BY DEF ExitInit, Held, MapIsCurrent
<1> QED
  BY <1>1, <1>2, <1>3 DEF ExitInv

(* The firmware never gives an address that is in use.                      *)
LEMMA NewIsFree ==
  ASSUME ~(MapBuffers \subseteq pool)
  PROVE  NewBuffer \in MapBuffers /\ NewBuffer \notin pool
BY DEF NewBuffer

LEMMA ChangeInv == ASSUME ExitInv, Change PROVE ExitInv'
<1>1. ExitTypeOK'
  <2>1. changes' \in 0 .. MaxChanges
    BY MapConstants DEF Change, ExitInv, ExitTypeOK
  <2> QED
    BY <2>1 DEF Change, MapChanges, mapVars, heapVars, ExitInv, ExitTypeOK
<1>2. MapsOwned'
  BY DEF Change, mapVars, heapVars, ExitInv, MapsOwned
<1>3. Held' /\ MapIsCurrent'
  BY DEF Change, MapChanges, mapVars, heapVars, ExitInv, Held, MapIsCurrent
<1> QED
  BY <1>1, <1>2, <1>3 DEF ExitInv

LEMMA FailsInv ==
  ASSUME ExitInv, Fails, step \in {"query", "first", "second"}
  PROVE  ExitInv'
<1>1. ExitTypeOK'
  BY DEF Fails, Freeing, MapChanges, ExitInv, ExitTypeOK, MapsOwned, Steps
<1>2. MapsOwned'
  BY MapConstants DEF Fails, Freeing, ExitInv, ExitTypeOK, MapsOwned
<1>3. Held'
  BY DEF Fails, MapChanges, ExitInv, Held
<1>4. phase # "left"
  BY DEF ExitInv, Held
<1>5. MapIsCurrent'
  BY <1>4 DEF Fails, MapIsCurrent
<1> QED
  BY <1>1, <1>2, <1>3, <1>5 DEF ExitInv

LEMMA AnotherInv ==
  ASSUME ExitInv, NEW next \in {"first", "second"}, Another(next),
         step \in {"query", "first"}
  PROVE  ExitInv'
<1>1. NewBuffer \in MapBuffers /\ NewBuffer \notin pool
  BY NewIsFree DEF Another
<1>2. ExitTypeOK'
  BY <1>1 DEF Another, Replacing, MapChanges, ExitInv, ExitTypeOK, MapsOwned, Steps
<1>3. MapsOwned'
  BY <1>1, MapConstants DEF Another, Replacing, ExitInv, ExitTypeOK, MapsOwned
<1>4. Held'
  BY <1>1, MapConstants DEF Another, MapChanges, ExitInv, Held
<1>5. phase # "left"
  BY DEF ExitInv, Held
<1>6. MapIsCurrent'
  BY <1>5 DEF Another, MapIsCurrent
<1> QED
  BY <1>2, <1>3, <1>4, <1>6 DEF ExitInv

LEMMA ReadInv ==
  ASSUME ExitInv, efi_get_memory_map PROVE ExitInv'
<1>1. CASE Query
  BY <1>1, AnotherInv, FailsInv DEF Query
<1>2. CASE First /\ ~TooSmall
  BY <1>2, AnotherInv, FailsInv DEF First
<1>3. CASE TooSmall /\ step \in {"first", "second"}
  BY <1>3 DEF TooSmall, mapVars, heapVars, fwVars, ExitInv, ExitTypeOK, MapsOwned, Held, MapIsCurrent, Steps
<1>4. CASE Second /\ Read
  BY <1>4 DEF Second, Read, mapVars, heapVars, ExitInv, ExitTypeOK, MapsOwned, Held, MapIsCurrent, Steps
<1>5. CASE Second /\ Fails
  BY <1>5, FailsInv DEF Second
<1> QED
  BY <1>1, <1>2, <1>3, <1>4, <1>5 DEF efi_get_memory_map, First, Second

LEMMA UseInv ==
  ASSUME ExitInv, Estimated \/ allocate_page_tables \/ get_memory_map
  PROVE  ExitInv'
<1>1. CASE Estimated
  BY <1>1, MapConstants DEF Estimated, Freeing, MapChanges, ExitInv, ExitTypeOK, MapsOwned, Held, MapIsCurrent, Phases, Steps
<1>2. CASE allocate_page_tables
  BY <1>2, MapConstants DEF allocate_page_tables, MapChanges, heapVars, ExitInv, ExitTypeOK, MapsOwned, Held, MapIsCurrent, Phases, Steps
<1>3. CASE get_memory_map
  <2>1. efiMap = NULL /\ Buffer # NULL
    BY <1>3 DEF get_memory_map, ExitInv, Held
  <2>2. pool' = pool /\ fault' = fault
    BY <1>3, <2>1, MapConstants DEF get_memory_map, Freeing, ExitInv, MapsOwned, ExitTypeOK
  <2> QED
    BY <1>3, <2>1, <2>2, MapConstants DEF get_memory_map, ExitInv, ExitTypeOK, MapsOwned, Held, MapIsCurrent, Phases, Steps
<1> QED
  BY <1>1, <1>2, <1>3

LEMMA EndInv ==
  ASSUME ExitInv, ExitBootServices \/ GiveUp PROVE ExitInv'
<1>1. CASE ExitBootServices /\ Leave
  BY <1>1 DEF ExitBootServices, Leave, heapVars, ExitInv, ExitTypeOK, MapsOwned, Held, MapIsCurrent, Phases, Steps
<1>2. CASE ExitBootServices /\ Refused
  <2>1. efiMap # NULL /\ efiMap \in pool /\ Buffer = NULL /\ phase = "exit"
    BY <1>2 DEF ExitBootServices, ExitInv, ExitTypeOK, MapsOwned, Held
  <2>2. pool' = pool \ {efiMap} /\ fault' = FALSE
    BY <1>2, <2>1 DEF Refused, free_memory_map, Freeing, ExitInv, MapsOwned
  <2>3. ExitTypeOK'
    <3>1. keyFresh' = FALSE /\ mapFresh' = FALSE
      BY <1>2 DEF ExitBootServices, Refused, free_memory_map, MapChanges
    <3>2. UNCHANGED <<phase, Buffer, ptMap, grown, changes>> /\ step' = "query" /\ efiMap' = NULL
      BY <1>2 DEF ExitBootServices, Refused, free_memory_map
    <3> QED
      BY <2>2, <3>1, <3>2 DEF ExitInv, ExitTypeOK, Steps
  <2>4. MapsOwned'
    BY <1>2, <2>1, <2>2 DEF ExitBootServices, Refused, free_memory_map, ExitInv, MapsOwned
  <2>5. Held' /\ MapIsCurrent'
    BY <1>2, <2>1 DEF ExitBootServices, Refused, free_memory_map, MapChanges, ExitInv, Held, MapIsCurrent
  <2> QED
    BY <2>3, <2>4, <2>5 DEF ExitInv
<1>3. CASE ExitBootServices /\ ExitError
  BY <1>3 DEF ExitBootServices, ExitError, heapVars, ExitInv, ExitTypeOK, MapsOwned, Held, MapIsCurrent, Phases, Steps
<1>4. CASE GiveUp
  BY <1>4 DEF GiveUp, mapVars, heapVars, fwVars, ExitInv, ExitTypeOK, MapsOwned, Held, MapIsCurrent, Phases, Steps
<1> QED
  BY <1>1, <1>2, <1>3, <1>4 DEF ExitBootServices

LEMMA ExitNextInv == ExitInv /\ [ExitNext]_exitVars => ExitInv'
<1> SUFFICES ASSUME ExitInv, [ExitNext]_exitVars PROVE ExitInv'
  OBVIOUS
<1>1. CASE Show \/ Estimate \/ Shutdown
  BY <1>1 DEF Show, Estimate, Shutdown, NotSanitized, Begin, mapVars, heapVars, fwVars, ExitInv, ExitTypeOK, MapsOwned, Held, MapIsCurrent, Phases, Steps
<1>2. CASE UNCHANGED exitVars
  BY <1>2 DEF exitVars, mapVars, heapVars, fwVars, ExitInv, ExitTypeOK, MapsOwned, Held, MapIsCurrent
<1> QED
  BY <1>1, <1>2, ChangeInv, ReadInv, UseInv, EndInv DEF ExitNext, exit_boot_services

\* uefi/efiutils/memory.c and exitboot.c: no buffer for a map is leaked, freed
\* twice or shared by two pointers, and the map handed to the kernel is the
\* one the firmware had when it accepted the key.
THEOREM ExitSound == ExitSpec => [](ExitTypeOK /\ MapsOwned /\ MapIsCurrent)
<1>1. ExitSpec => []ExitInv
  BY ExitInitInv, ExitNextInv, PTL DEF ExitSpec
<1> QED
  BY <1>1, PTL DEF ExitInv

-----------------------------------------------------------------------------
(* The runtime services: whatever policy fits, the ranges are apart in the  *)
(* kernel's region.                                                        *)

(* The sums of the first values of d exist: what a recursive function that  *)
(* adds them up is.                                                        *)
LEMMA RunningSum ==
  ASSUME NEW len \in Nat, NEW d \in [1 .. len -> Nat]
  PROVE  /\ \E f : f = [i \in 1 .. len |-> IF i = 1 THEN 0 ELSE f[i - 1] + d[i]]
         /\ \A f : f = [i \in 1 .. len |-> IF i = 1 THEN 0 ELSE f[i - 1] + d[i]]
                  => f \in [1 .. len -> Nat]
<1> DEFINE Sums(f, k) ==
             /\ f \in [1 .. k -> Nat]
             /\ \A i \in 1 .. k : f[i] = IF i = 1 THEN 0 ELSE f[i - 1] + d[i]
           Short == {k \in 0 .. len : ~\E f : Sums(f, k)}
<1>1. Short = {}
  <2>1. SUFFICES ASSUME Short # {} PROVE FALSE
    OBVIOUS
  <2>2. PICK k \in Short : \A l \in Short : k <= l
    <3>1. Short \subseteq Nat
      OBVIOUS
    <3> QED
      BY <2>1, <3>1, LeastIsLeast DEF IsLeast
  <2>3. k # 0
    <3>1. Sums([i \in 1 .. 0 |-> 0], 0)
      OBVIOUS
    <3> QED
      BY <3>1
  <2>4. k \in 1 .. len /\ k - 1 \in 0 .. len
    BY <2>3
  <2>5. PICK f : Sums(f, k - 1)
    <3>1. ~(k <= k - 1)
      BY <2>4
    <3>2. k - 1 \notin Short
      BY <2>2, <3>1
    <3> QED
      BY <2>4, <3>2
  <2>6. DEFINE g == [i \in 1 .. k |-> IF i = k
                                    THEN IF k = 1 THEN 0 ELSE f[k - 1] + d[k]
                                    ELSE f[i]]
  <2>7. \A i \in 1 .. k : i = k \/ i \in 1 .. k - 1
    BY <2>4
  <2>8. k # 1 => f[k - 1] \in Nat /\ d[k] \in Nat
    BY <2>4, <2>5
  <2>9. g \in [1 .. k -> Nat]
    BY <2>4, <2>5, <2>7, <2>8
  <2>10. \A i \in 1 .. k : g[i] = IF i = 1 THEN 0 ELSE g[i - 1] + d[i]
    <3>1. TAKE i \in 1 .. k
    <3>2. i # 1 => i - 1 \in 1 .. k - 1 /\ i - 1 # k /\ i - 1 \in 1 .. k
      BY <2>4
    <3> QED
      BY <2>4, <2>5, <2>7, <3>2
  <2>11. Sums(g, k)
    BY <2>9, <2>10
  <2> QED
    BY <2>11
<1>2. PICK f : Sums(f, len)
  <2>1. len \in 0 .. len
    OBVIOUS
  <2>2. len \notin Short
    <3> HIDE DEF Short
    <3> QED
      BY <1>1
  <2> QED
    BY <2>1, <2>2
<1>3. f = [i \in 1 .. len |-> IF i = 1 THEN 0 ELSE f[i - 1] + d[i]]
  BY <1>2
<1>4. ASSUME NEW h, h = [i \in 1 .. len |-> IF i = 1 THEN 0 ELSE h[i - 1] + d[i]]
      PROVE  h \in [1 .. len -> Nat]
  <2>1. DEFINE Odd == {i \in 1 .. len : h[i] \notin Nat}
  <2>2. SUFFICES ASSUME Odd # {} PROVE FALSE
    BY <1>4
  <2>3. PICK i \in Odd : \A k \in Odd : i <= k
    <3>1. Odd \subseteq Nat
      OBVIOUS
    <3> QED
      BY <2>2, <3>1, LeastIsLeast DEF IsLeast
  <2>4. i # 1 /\ i \in 1 .. len /\ h[i] = h[i - 1] + d[i]
    BY <1>4
  <2>5. i - 1 \in 1 .. len /\ ~(i <= i - 1)
    BY <2>4
  <2>6. h[i - 1] \in Nat
    BY <2>3, <2>5
  <2> QED
    BY <2>4, <2>6
<1> QED
  BY <1>3, <1>4

(* What starts after the one before it has ended starts after all before.   *)
LEMMA Ascending ==
  ASSUME NEW len \in Nat, NEW at \in [1 .. len -> Nat], NEW size \in [1 .. len -> Nat],
         \A i \in 1 .. len : i # 1 => at[i - 1] + size[i - 1] <= at[i]
  PROVE  \A i, j \in 1 .. len : i < j => at[i] + size[i] <= at[j]
<1>1. SUFFICES ASSUME NEW i \in 1 .. len
               PROVE  {j \in 1 .. len : i < j /\ ~(at[i] + size[i] <= at[j])} = {}
  OBVIOUS
<1> DEFINE Below == {j \in 1 .. len : i < j /\ ~(at[i] + size[i] <= at[j])}
<1>2. SUFFICES ASSUME Below # {} PROVE FALSE
  OBVIOUS
<1>3. PICK j \in Below : \A k \in Below : j <= k
  <2>1. Below \subseteq Nat
    OBVIOUS
  <2> QED
    BY <1>2, <2>1, LeastIsLeast DEF IsLeast
<1>4. j - 1 \in 1 .. len /\ (i = j - 1 \/ i < j - 1) /\ j # 1 /\ ~(j <= j - 1)
  OBVIOUS
<1>5. at[j - 1] + size[j - 1] <= at[j]
  BY <1>4
<1>6. i # j - 1
  BY <1>5
<1>7. j - 1 \notin Below
  BY <1>3, <1>4
<1>8. at[i] + size[i] <= at[j - 1]
  BY <1>4, <1>6, <1>7
<1>9. at[i] \in Nat /\ size[i] \in Nat /\ at[j - 1] \in Nat /\ size[j - 1] \in Nat /\ at[j] \in Nat
  BY <1>4
<1> QED
  BY <1>5, <1>8, <1>9, SMTT(30)

(* Each policy puts the ranges, apart from each other, where they may be.   *)
Apart(at, rt) ==
  /\ at \in [DOMAIN rt -> Nat]
  /\ \A i, j \in DOMAIN rt :
       i # j => at[i] + rt[i].pages <= at[j] \/ at[j] + rt[j].pages <= at[i]

Distances(at, rt) ==
  \A i \in DOMAIN rt : i > 1 /\ Related(rt[i - 1], rt[i]) =>
    at[i] - at[i - 1] = rt[i].phys - rt[i - 1].phys

LEMMA SimpleApart ==
  ASSUME NEW rt, RangesOf(rt)
  PROVE  Apart(SimpleAt(rt), rt) /\ Distances(SimpleAt(rt), rt)
<1>1. \A i \in DOMAIN rt : i > 1 => i - 1 \in DOMAIN rt
  BY DEF RangesOf
<1> QED
  BY <1>1 DEF RangesOf, Apart, Distances, SimpleAt, TopOf

LEMMA SparseApart ==
  ASSUME NEW rt, RangesOf(rt)
  PROVE  Apart(SparseAt(rt), rt) /\ Distances(SparseAt(rt), rt)
<1> DEFINE least == get_smallest_rt_pa(rt)
<1>1. \A i \in DOMAIN rt : i > 1 => i - 1 \in DOMAIN rt
  BY DEF RangesOf
<1>2. \A i \in DOMAIN rt : least \in Nat /\ least <= rt[i].phys
  <2>1. SUFFICES ASSUME NEW i \in DOMAIN rt PROVE least \in Nat /\ least <= rt[i].phys
    OBVIOUS
  <2>2. DEFINE S == {rt[k].phys : k \in DOMAIN rt}
  <2>3. S \subseteq Nat /\ S # {} /\ rt[i].phys \in S
    BY DEF RangesOf
  <2>4. IsLeast(Least(S), S)
    BY <2>3, LeastIsLeast
  <2> QED
    BY <2>3, <2>4 DEF IsLeast, get_smallest_rt_pa
<1> HIDE DEF least
<1>3. SparseAt(rt) = [i \in DOMAIN rt |-> rt[i].phys - least]
  BY DEF SparseAt, least
<1>4. SparseAt(rt) \in [DOMAIN rt -> Nat]
  BY <1>2, <1>3 DEF RangesOf
<1>5. \A i \in DOMAIN rt : /\ SparseAt(rt)[i] = rt[i].phys - least
                          /\ rt[i].phys \in Nat /\ rt[i].pages \in Nat /\ least \in Nat
  BY <1>2, <1>3 DEF RangesOf
<1>6. Apart(SparseAt(rt), rt)
  <2>1. SUFFICES ASSUME NEW i \in DOMAIN rt, NEW j \in DOMAIN rt, i # j
                 PROVE  \/ SparseAt(rt)[i] + rt[i].pages <= SparseAt(rt)[j]
                        \/ SparseAt(rt)[j] + rt[j].pages <= SparseAt(rt)[i]
    BY <1>4 DEF Apart
  <2>2. \/ rt[i].phys + rt[i].pages <= rt[j].phys
        \/ rt[j].phys + rt[j].pages <= rt[i].phys
    BY <2>1 DEF RangesOf, TopOf
  <2> QED
    BY <1>5, <2>2
<1>7. Distances(SparseAt(rt), rt)
  BY <1>1, <1>5 DEF Distances
<1> QED
  BY <1>6, <1>7

(* Ranges that follow each other, at distances of at least their sizes.     *)
LEMMA FollowingApart ==
  ASSUME NEW rt, RangesOf(rt), NEW at \in [DOMAIN rt -> Nat],
         \A i \in DOMAIN rt : i # 1 => at[i - 1] + rt[i - 1].pages <= at[i]
  PROVE  Apart(at, rt)
<1> DEFINE size == [i \in DOMAIN rt |-> rt[i].pages]
<1>1. size \in [1 .. Len(rt) -> Nat] /\ at \in [1 .. Len(rt) -> Nat] /\ Len(rt) \in Nat
  <2>1. DOMAIN rt = 1 .. Len(rt) /\ Len(rt) \in Nat /\ \A i \in DOMAIN rt : rt[i].pages \in Nat
    BY DEF RangesOf
  <2> QED
    BY <2>1
<1>2. \A i \in 1 .. Len(rt) : i # 1 => at[i - 1] + size[i - 1] <= at[i]
  <2>1. TAKE i \in 1 .. Len(rt)
  <2>2. HAVE i # 1
  <2>3. i \in DOMAIN rt /\ i - 1 \in DOMAIN rt
    BY <2>2 DEF RangesOf
  <2>4. size[i - 1] = rt[i - 1].pages
    BY <2>3
  <2> QED
    BY <2>2, <2>3, <2>4
<1> HIDE DEF size
<1>3. \A i, j \in 1 .. Len(rt) : i < j => at[i] + size[i] <= at[j]
  BY <1>1, <1>2, Ascending
<1>4. \A i, j \in 1 .. Len(rt) : i # j => i < j \/ j < i
  OBVIOUS
<1> QED
  BY <1>3, <1>4 DEF size, RangesOf, Apart

LEMMA ContigApart ==
  ASSUME NEW rt, RangesOf(rt)
  PROVE  Apart(ContigAt(rt), rt)
<1> DEFINE d == [i \in DOMAIN rt |-> IF i = 1 THEN 0 ELSE rt[i - 1].pages]
           Rec(f) == f = [i \in DOMAIN rt |-> IF i = 1 THEN 0
                                             ELSE f[i - 1] + rt[i - 1].pages]
<1>1. Len(rt) \in Nat /\ DOMAIN rt = 1 .. Len(rt)
  BY DEF RangesOf
<1>2. \A i \in DOMAIN rt : i # 1 => i - 1 \in DOMAIN rt
  BY <1>1
<1>3. d \in [1 .. Len(rt) -> Nat]
  BY <1>1, <1>2 DEF RangesOf
<1>4. \E f : f = [i \in 1 .. Len(rt) |-> IF i = 1 THEN 0 ELSE f[i - 1] + d[i]]
  <2> HIDE DEF d
  <2> QED
    BY <1>1, <1>3, RunningSum
<1>5. \E f : Rec(f)
  BY <1>1, <1>4
<1>6. Rec(ContigAt(rt))
  BY <1>5 DEF ContigAt
<1>7. ContigAt(rt) \in [1 .. Len(rt) -> Nat]
  <2>1. ContigAt(rt) = [i \in 1 .. Len(rt) |-> IF i = 1 THEN 0
                                              ELSE ContigAt(rt)[i - 1] + d[i]]
    BY <1>1, <1>6
  <2> HIDE DEF d
  <2> QED
    BY <1>1, <1>3, <2>1, RunningSum
<1>8. \A i \in DOMAIN rt : i # 1 => ContigAt(rt)[i] = ContigAt(rt)[i - 1] + rt[i - 1].pages
  BY <1>6
<1>9. \A i \in DOMAIN rt : i # 1 => ContigAt(rt)[i - 1] + rt[i - 1].pages <= ContigAt(rt)[i]
  BY <1>1, <1>2, <1>7, <1>8 DEF RangesOf
<1> QED
  BY <1>1, <1>7, <1>9, FollowingApart

LEMMA CompactApart ==
  ASSUME NEW rt, RangesOf(rt)
  PROVE  Apart(CompactAt(rt), rt) /\ Distances(CompactAt(rt), rt)
<1> DEFINE stride(i) == rt[i - 1].pages + Gap(rt[i - 1], rt[i])
           d == [i \in DOMAIN rt |-> IF i = 1 THEN 0 ELSE stride(i)]
           Rec(f) == f = [i \in DOMAIN rt |-> IF i = 1 THEN 0
                            ELSE f[i - 1] + (rt[i - 1].pages + Gap(rt[i - 1], rt[i]))]
<1>1. Len(rt) \in Nat /\ DOMAIN rt = 1 .. Len(rt)
  BY DEF RangesOf
<1>2. \A i \in DOMAIN rt : i # 1 => i - 1 \in DOMAIN rt /\ i - 1 # i
  BY <1>1
<1>3. \A i \in DOMAIN rt : i # 1 =>
        /\ Gap(rt[i - 1], rt[i]) \in Nat
        /\ rt[i - 1].pages \in Nat
        /\ Related(rt[i - 1], rt[i]) => stride(i) = rt[i].phys - rt[i - 1].phys
  <2>1. TAKE i \in DOMAIN rt
  <2>2. HAVE i # 1
  <2>3. /\ rt[i - 1].phys \in Nat /\ rt[i - 1].pages \in Nat \ {0}
        /\ rt[i].phys \in Nat /\ rt[i].pages \in Nat \ {0}
        /\ TopOf(rt[i - 1]) <= rt[i].phys \/ TopOf(rt[i]) <= rt[i - 1].phys
    BY <1>2, <2>2 DEF RangesOf
  <2>4. CASE Related(rt[i - 1], rt[i])
    <3>1. rt[i].phys - rt[i - 1].phys \in 0 .. Near - 1
      BY <2>4 DEF Related
    <3>2. Gap(rt[i - 1], rt[i]) = rt[i].phys - (rt[i - 1].phys + rt[i - 1].pages)
      BY <2>4 DEF Gap, TopOf
    <3>3. rt[i - 1].phys + rt[i - 1].pages <= rt[i].phys
      BY <2>3, <3>1, RegionConstants DEF TopOf
    <3> QED
      BY <2>3, <3>1, <3>2, <3>3, RegionConstants
  <2>5. CASE ~Related(rt[i - 1], rt[i])
    BY <2>3, <2>5 DEF Gap
  <2> QED
    BY <2>4, <2>5
<1> HIDE DEF stride
<1>4. \A i \in DOMAIN rt : i # 1 => stride(i) \in Nat /\ rt[i - 1].pages <= stride(i)
  BY <1>3 DEF stride
<1>5. d \in [1 .. Len(rt) -> Nat]
  BY <1>1, <1>4
<1>6. \E f : f = [i \in 1 .. Len(rt) |-> IF i = 1 THEN 0 ELSE f[i - 1] + d[i]]
  <2> HIDE DEF d
  <2> QED
    BY <1>1, <1>5, RunningSum
<1>7. \E f : Rec(f)
  BY <1>1, <1>6 DEF stride
<1>8. Rec(CompactAt(rt))
  BY <1>7 DEF CompactAt
<1>9. CompactAt(rt) \in [1 .. Len(rt) -> Nat]
  <2>1. CompactAt(rt) = [i \in 1 .. Len(rt) |-> IF i = 1 THEN 0
                                               ELSE CompactAt(rt)[i - 1] + d[i]]
    BY <1>1, <1>8 DEF stride
  <2> HIDE DEF d
  <2> QED
    BY <1>1, <1>5, <2>1, RunningSum
<1>10. \A i \in DOMAIN rt : i # 1 => CompactAt(rt)[i] = CompactAt(rt)[i - 1] + stride(i)
  BY <1>8 DEF stride
<1>11. \A i \in DOMAIN rt : i # 1 => CompactAt(rt)[i - 1] + rt[i - 1].pages <= CompactAt(rt)[i]
  BY <1>1, <1>2, <1>3, <1>4, <1>9, <1>10
<1>12. Apart(CompactAt(rt), rt)
  BY <1>1, <1>9, <1>11, FollowingApart
<1>13. Distances(CompactAt(rt), rt)
  <2>1. SUFFICES ASSUME NEW i \in DOMAIN rt, i > 1, Related(rt[i - 1], rt[i])
                 PROVE  CompactAt(rt)[i] - CompactAt(rt)[i - 1] = rt[i].phys - rt[i - 1].phys
    BY DEF Distances
  <2>2. /\ CompactAt(rt)[i] = CompactAt(rt)[i - 1] + stride(i)
        /\ stride(i) = rt[i].phys - rt[i - 1].phys /\ stride(i) \in Nat
        /\ CompactAt(rt)[i - 1] \in Nat
    BY <1>1, <1>2, <1>4, <1>9, <1>10, <1>3, <2>1 DEF stride
  <2> QED
    BY <2>2
<1> QED
  BY <1>12, <1>13

LEMMA Policies ==
  /\ DOMAIN policies = 1 .. 5
  /\ policies[1].name = "simple" /\ policies[2].name = "simple generic"
  /\ policies[3].name = "sparse" /\ policies[4].name = "compact"
  /\ policies[5].name = "contiguous"
  /\ \A k \in 2 .. 5 : policies[k].cap # "RTS_SIMPLE"
<1>1. /\ policies[2].cap = "RTS_SIMPLE_GQ" /\ policies[3].cap = "RTS_SPARSE"
      /\ policies[4].cap = "RTS_COMPACT" /\ policies[5].cap = "RTS_CONTIG"
  BY DEF policies
<1>2. \A k \in 2 .. 5 : k = 2 \/ k = 3 \/ k = 4 \/ k = 5
  OBVIOUS
<1>3. \A k \in 2 .. 5 : policies[k].cap # "RTS_SIMPLE"
  BY <1>1, <1>2
<1>4. DOMAIN policies = 1 .. 5
  BY DEF policies
<1> QED
  BY <1>3, <1>4 DEF policies

(* relocate_runtime_services: whichever policy is chosen, for whichever     *)
(* kernel and firmware, the kernel can use what it is given.                *)
LEMMA VirtualMapUsable ==
  ASSUME NEW rt, RangesOf(rt), NEW no_quirks, NEW quirks, NEW caps
  PROVE  RtsUsable(VirtualMap(rt, no_quirks, quirks, caps))
<1> DEFINE fit == {k \in DOMAIN policies :
                     /\ Allowed(policies[k], no_quirks, quirks, caps)
                     /\ Supported(rt, LayoutOf(policies[k].name, rt))}
           policy == policies[Least(fit)].name
           at == LayoutOf(policy, rt)
           map == [i \in DOMAIN rt |->
                     [phys |-> rt[i].phys, pages |-> rt[i].pages, type |-> rt[i].type,
                      virt |-> rts_vaddr + at[i]]]
<1>1. CASE fit = {}
  <2>1. VirtualMap(rt, no_quirks, quirks, caps) = NoServices
    BY <1>1 DEF VirtualMap
  <2>2. NoServices.map = << >> /\ DOMAIN << >> = {}
    BY DEF NoServices
  <2> QED
    BY <2>1, <2>2 DEF RtsUsable
<1>2. CASE fit # {}
  <2>1. Least(fit) \in fit
    <3>1. fit \subseteq Nat
      <4>1. fit \subseteq DOMAIN policies
        OBVIOUS
      <4>2. DOMAIN policies = 1 .. 5
        BY Policies
      <4>3. 1 .. 5 \subseteq Nat
        OBVIOUS
      <4> HIDE DEF fit
      <4> QED
        BY <4>1, <4>2, <4>3
    <3> QED
      BY <1>2, <3>1, LeastIsLeast DEF IsLeast
  <2>2. /\ policy \in {"simple", "simple generic", "sparse", "compact", "contiguous"}
        /\ policy = "simple" \/ "RTS_SIMPLE" # policies[Least(fit)].cap
    <3>1. Least(fit) \in 1 .. 5
      BY <2>1, Policies
    <3>2. Least(fit) = 1 \/ Least(fit) \in 2 .. 5
      BY <3>1
    <3>3. \/ Least(fit) = 1 \/ Least(fit) = 2 \/ Least(fit) = 3
          \/ Least(fit) = 4 \/ Least(fit) = 5
      BY <3>1
    <3> QED
      BY <3>2, <3>3, Policies
  <2>3. caps = {"RTS_SIMPLE"} => policy = "simple"
    BY <2>1, <2>2 DEF Allowed
  <2>4. Supported(rt, at)
    BY <2>1
  <2>5. VirtualMap(rt, no_quirks, quirks, caps) = [policy |-> policy, caps |-> caps, map |-> map]
    BY <1>2 DEF VirtualMap
  <2> HIDE DEF fit, policy
  <2>6. Apart(at, rt) /\ (policy # "contiguous" => Distances(at, rt))
    BY <2>2, SimpleApart, SparseApart, CompactApart, ContigApart DEF LayoutOf
  <2>7. policy = "simple" => \A i \in DOMAIN rt : at[i] = rt[i].phys
    BY DEF LayoutOf, SimpleAt
  <2> HIDE DEF at
  <2>8. \A i \in DOMAIN rt :
          /\ map[i].virt = rts_vaddr + at[i] /\ map[i].pages = rt[i].pages
          /\ map[i].phys = rt[i].phys /\ map[i].type = rt[i].type
    OBVIOUS
  <2>9. DOMAIN map = DOMAIN rt
    OBVIOUS
  <2> HIDE DEF map
  <2>10. \A i \in DOMAIN rt : /\ at[i] \in Nat /\ rt[i].pages \in Nat /\ rt[i].phys \in Nat
                              /\ at[i] + rt[i].pages <= rts_size
    BY <2>4, <2>6 DEF RangesOf, Apart, Supported
  <2>11. \A i \in DOMAIN map :
           VirtualRange(map[i]) \subseteq rts_vaddr .. rts_vaddr + rts_size - 1
    BY <2>8, <2>9, <2>10, RegionConstants DEF VirtualRange
  <2>12. \A i, j \in DOMAIN map :
           i # j => VirtualRange(map[i]) \cap VirtualRange(map[j]) = {}
    BY <2>6, <2>8, <2>9, <2>10, RegionConstants DEF VirtualRange, Apart
  <2>13. caps = {"RTS_SIMPLE"} =>
           \A i \in DOMAIN map : map[i].virt = rts_vaddr + map[i].phys
    BY <2>3, <2>7, <2>8, <2>9
  <2>14. policy # "contiguous" =>
           \A i \in DOMAIN map : i > 1 /\ Related(map[i - 1], map[i]) =>
             map[i].virt - map[i - 1].virt = map[i].phys - map[i - 1].phys
    <3>1. SUFFICES ASSUME policy # "contiguous", NEW i \in DOMAIN rt, i > 1,
                          Related(map[i - 1], map[i])
                   PROVE  map[i].virt - map[i - 1].virt = map[i].phys - map[i - 1].phys
      BY <2>9
    <3>2. i - 1 \in DOMAIN rt
      BY <3>1 DEF RangesOf
    <3>3. Related(rt[i - 1], rt[i])
      BY <2>8, <3>1, <3>2 DEF Related, CodeOrData
    <3>4. at[i] - at[i - 1] = rt[i].phys - rt[i - 1].phys
      BY <2>6, <3>1, <3>3 DEF Distances
    <3> QED
      BY <2>8, <2>10, <3>2, <3>4, RegionConstants
  <2> QED
    BY <2>5, <2>11, <2>12, <2>13, <2>14 DEF RtsUsable
<1> QED
  BY <1>1, <1>2
=============================================================================
