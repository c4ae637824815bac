----------------------------- MODULE LogBuffer -----------------------------
(***************************************************************************)
(* The log of bootlib/log.c.  A message goes to the consoles that          *)
(* subscribed, and is kept in a buffer for the kernel.  The buffer grows   *)
(* by pages of the firmware's memory until it may not, or cannot; then the *)
(* text "syslog buffer overflow" ends it for ever.  Log always keeps room  *)
(* for that text.                                                          *)
(***************************************************************************)
EXTENDS Integers, FiniteSets

CONSTANTS
  OverflowLen,  \* strlen(SYSLOGBUF_OVERFLOW_MSG)
  LogPage,      \* PAGE_SIZE
  MsgSizes,     \* sizes of messages, with their final NUL
  LastSizes,    \* expand_size: how much the buffer grows when growth ends
  MaxLog        \* bound: the largest buffer the firmware has memory for

ASSUME LogConstants ==
  /\ OverflowLen \in Nat /\ LogPage \in Nat /\ MaxLog \in Nat
  /\ 1 < OverflowLen /\ OverflowLen < LogPage
  /\ MsgSizes \subseteq Nat \ {0, 1}
  /\ LastSizes \subseteq Nat \ {0}

CONSOLES_MAX_NR == 2

VARIABLES
  consoles,    \* the consoles that subscribed
  buf,         \* "none", "live", or "freed": see Expand
  offset,      \* where the next message goes
  bufferSize,
  expand,      \* whether the buffer may still grow
  lost,        \* history: a message has not been kept
  marked       \* history: the overflow text has been written

bufferVars == <<buf, offset, bufferSize, expand, lost, marked>>
logVars == <<consoles, bufferVars>>

NoBuffer ==
  /\ buf = "none" /\ expand = FALSE
  /\ offset = 0 /\ bufferSize = 0
  /\ lost = FALSE /\ marked = FALSE

\* The buffer of a program run before, found by its protocol: it has grown, and
\* may have overflowed when it could not grow any further (see Overflow).
Inherited ==
  /\ \E pages \in 1 .. MaxLog : bufferSize = pages * LogPage /\ bufferSize <= MaxLog
  /\ \/ /\ buf = "live" /\ expand = TRUE /\ lost = FALSE /\ marked = FALSE
        /\ offset \in 0 .. bufferSize - OverflowLen - 1
     \/ /\ buf = "freed" /\ expand = FALSE /\ lost = TRUE /\ marked = TRUE
        /\ offset = bufferSize - 1

LogInit == consoles = {} /\ (NoBuffer \/ Inherited)
-----------------------------------------------------------------------------
log_unsubscribe(c) == consoles' = consoles \ {c}

\* A console that finds no free slot is told so, having lost the one it had.
log_subscribe(c) ==
  consoles' = IF Cardinality(consoles \ {c}) < CONSOLES_MAX_NR
                THEN consoles \cup {c} ELSE consoles \ {c}

FreshBuffer ==
  /\ buf' = "live" /\ expand' = TRUE
  /\ offset' = 0 /\ bufferSize' = LogPage

\* Messages are no-ops until then.  A buffer that was found is kept; without a
\* subscription, or without memory for the page, there is none afterwards.
log_init ==
  /\ log_subscribe("firmware_print")
  /\ \/ buf = "none" /\ "firmware_print" \in consoles' /\ FreshBuffer
     \/ UNCHANGED <<buf, offset, bufferSize, expand>>
  /\ UNCHANGED <<lost, marked>>
-----------------------------------------------------------------------------
\* A slip: room for the message only.
FitsAlone(size, n) == size <= bufferSize + n * LogPage - offset

\* n pages are enough for a message and the overflow text after it.
Fits(size, n) == size + OverflowLen <= bufferSize + n * LogPage - offset

\* The loop of Log asks for one page at a time.
Needs(size, n) == Fits(size, n) /\ \A m \in 0 .. n - 1 : ~Fits(size, m)

Write(size, n) ==
  /\ Needs(size, n)
  /\ n > 0 => expand /\ bufferSize + n * LogPage <= MaxLog
  /\ bufferSize' = bufferSize + n * LogPage
  /\ offset' = offset + size - 1
  /\ UNCHANGED <<buf, expand, lost, marked>>

\* A slip: the end of the log is not remembered.
OverflowAgain(size, n) ==
  /\ ~Fits(size, n)
  /\ n > 0 => expand /\ bufferSize + n * LogPage <= MaxLog
  /\ bufferSize' = bufferSize + n * LogPage
  /\ buf' = buf
  /\ lost' = TRUE
  /\ marked' = (marked \/ offset + OverflowLen <= bufferSize')
  /\ UNCHANGED <<expand, offset>>

\* efi_realloc frees the old buffer also when it has found no new one.
Overflow(size, n) ==
  /\ ~Fits(size, n)
  /\ n > 0 => expand /\ bufferSize + n * LogPage <= MaxLog
  /\ bufferSize' = bufferSize + n * LogPage
  /\ buf' = IF expand THEN "freed" ELSE buf
  /\ lost' = TRUE
  /\ IF offset + OverflowLen <= bufferSize'
       THEN marked' = TRUE /\ expand' = FALSE /\ offset' = bufferSize' - 1
       ELSE UNCHANGED <<marked, expand, offset>>

Keep(size) == \E n \in 0 .. MaxLog : Write(size, n)
Drop(size) == \E n \in 0 .. MaxLog : Overflow(size, n)

Log(size) ==
  /\ UNCHANGED consoles
  /\ IF buf = "none" THEN UNCHANGED bufferVars
                     ELSE Keep(size) \/ Drop(size)

\* The last expansion, done before boot services go: it may fail too.
syslogbuf_expand_disable(size) ==
  /\ expand' = FALSE
  /\ \/ /\ expand /\ bufferSize + size <= MaxLog
        /\ bufferSize' = bufferSize + size /\ buf' = buf
     \/ /\ expand /\ buf' = "freed" /\ UNCHANGED bufferSize
     \/ ~expand /\ UNCHANGED <<buf, bufferSize>>
  /\ UNCHANGED <<consoles, offset, lost, marked>>

CONSTANT Consoles  \* what may subscribe, besides the firmware's console

LogNext ==
  \/ log_init
  \/ \E c \in Consoles \cup {"firmware_print"} :
       /\ log_subscribe(c) \/ log_unsubscribe(c)
       /\ UNCHANGED bufferVars
  \/ \E size \in MsgSizes : Log(size)
  \/ \E size \in LastSizes : syslogbuf_expand_disable(size)

LogSpec == LogInit /\ [][LogNext]_logVars
-----------------------------------------------------------------------------
LogTypeOK ==
  /\ consoles \subseteq Consoles \cup {"firmware_print"}
  /\ buf \in {"none", "live", "freed"}
  /\ offset \in Nat /\ bufferSize \in Nat
  /\ expand \in BOOLEAN /\ lost \in BOOLEAN /\ marked \in BOOLEAN

\* There is always room for the overflow text until it is there; then the
\* buffer is at its end for good.
LogRoom ==
  /\ buf = "none" => ~expand
  /\ buf # "none" /\ ~marked => offset + OverflowLen < bufferSize
  /\ marked => buf # "none" /\ ~expand /\ offset + 1 = bufferSize

\* A kernel that reads the log can tell that something is missing: Log never
\* drops a message without leaving the overflow text.
LostIsMarked == lost => marked

\* Log's overflow text stays the last thing in the buffer: nothing is written
\* over it or after it, by a later message or by the last expansion.
OverflowIsLast == [][marked => UNCHANGED <<offset, bufferSize, marked>>]_logVars
=============================================================================
