------------------------------- MODULE UartIo -------------------------------
(***************************************************************************)
(* A UART of device/stm32h755/uart.c: init, write, read and flush of one   *)
(* caller at a time (docs/rtos-hardrt.md: "callers should serialize        *)
(* access"), while frames leave and arrive on their own.                   *)
(*                                                                         *)
(* Each turn of a loop reads the status once and acts on what it saw: the  *)
(* clearing of the errors, the access to a data register and the look at   *)
(* the clock are later steps.  The FIFOs are off: one byte waits in TDR    *)
(* while another is shifted out, and one arrived byte waits in RDR.        *)
(***************************************************************************)
EXTENDS Naturals, Sequences

CONSTANTS
  Count,       \* bytes of a write or read
  MaxWrites,   \* bound: writes in a behaviour
  MaxFrames    \* bound: frames that arrive

ASSUME UartAssumption ==
  /\ Count \in Nat \ {0}
  /\ {MaxWrites, MaxFrames} \subseteq Nat

Ops   == {"write", "read", "flush"}
Empty == <<0, 0>>     \* a byte is <<its write, its place>>

VARIABLES
  pc, op, clock, index,   \* the call in progress: step, operation, wait, bytes
  ret,                    \* what the last step returned
  enabled,                \* UE: the UART runs
  tdr, shift,             \* the byte that waits, and the one that leaves
  tc,                     \* TC: nothing waits and nothing leaves
  rdr,                    \* the frame in RDR, 0 if RXNE is clear
  errors,                 \* PE, FE and NE as "FRAME", and "OVERRUN"
  writes, arrived,        \* history: writes begun, frames arrived
  wire,                   \* history: what left since the last init
  harmed,                 \* history: frames lost or damaged since the last report
  taken                   \* history: the last frame read

software == <<pc, op, clock, index>>
sender   == <<tdr, shift, tc>>
receiver == <<rdr, errors>>
hist     == <<writes, arrived, wire, harmed, taken>>
vars     == <<software, ret, enabled, sender, receiver, hist>>

\* Clearing UE discards what waits, leaves or has arrived.
Discard ==
  /\ tdr' = Empty /\ shift' = Empty /\ tc' = TRUE
  /\ rdr' = 0 /\ errors' = {}

Init ==
  /\ pc = "idle" /\ op = "flush" /\ clock = "none" /\ index = 0 /\ ret = "none"
  /\ enabled = FALSE
  /\ tdr = Empty /\ shift = Empty /\ tc = TRUE /\ rdr = 0 /\ errors = {}
  /\ writes = 0 /\ arrived = 0 /\ wire = <<>> /\ harmed = {} /\ taken = 0

Goto(step) ==
  /\ pc' = step /\ ret' = "none"
  /\ UNCHANGED <<op, clock>>

Return(result) ==
  /\ pc' = "idle" /\ ret' = result /\ clock' = "none" /\ index' = 0
  /\ UNCHANGED op

-----------------------------------------------------------------------------
(* das_uart_init. *)

\* The registers are rewritten with the UART off, and it is on from here.
InitEnable ==
  /\ pc = "idle"
  /\ Discard
  /\ enabled' = TRUE
  /\ wire' = <<>> /\ harmed' = {}
  /\ Goto("ack")
  /\ UNCHANGED <<index, writes, arrived, taken>>

\* wait_for_enable_ack: both sides answer, or the poll limit is reached.
InitDone ==
  /\ pc = "ack"
  /\ Return("initialised")
  /\ UNCHANGED <<enabled, sender, receiver, hist>>

InitTimeout ==
  /\ pc = "ack"
  /\ Discard
  /\ enabled' = FALSE
  /\ Return("TIMEOUT")
  /\ UNCHANGED hist

-----------------------------------------------------------------------------
(* das_uart_write_timeout, das_uart_read_timeout and das_uart_flush. *)

\* A bad argument or rate, a UART that is off, no time source.
Refused ==
  /\ pc = "idle"
  /\ \/ ret' = "INVALID_ARGUMENT"
     \/ ret' = "NOT_READY"
     \/ ret' = "UNSUPPORTED"
  /\ UNCHANGED <<software, enabled, sender, receiver, hist>>

Call ==
  /\ pc = "idle" /\ enabled
  /\ op' \in Ops /\ clock' \in {"forever", "running"}
  /\ op' = "flush" => clock' = "forever"
  /\ op' = "write" => writes < MaxWrites
  /\ writes' = IF op' = "write" THEN writes + 1 ELSE writes
  /\ pc' = "status" /\ ret' = "none"
  /\ UNCHANGED <<index, enabled, sender, receiver, arrived, wire, harmed, taken>>

Expire ==
  /\ clock = "running"
  /\ clock' = "expired" /\ ret' = "none"
  /\ UNCHANGED <<pc, op, index, enabled, sender, receiver, hist>>

\* wait_for_flag: what this turn of the loop waits for, and whether it is there.
Awaited ==
  IF op = "read" THEN "RXNE" ELSE IF op = "write" /\ index < Count THEN "TXE" ELSE "TC"
StatusTcEarly ==
  (IF rdr # 0 THEN {"RXNE"} ELSE {}) \cup (IF tdr = Empty THEN {"TXE", "TC"} ELSE {})
StatusTxeAlways ==
  (IF rdr # 0 THEN {"RXNE"} ELSE {}) \cup {"TXE"} \cup (IF tc THEN {"TC"} ELSE {})
Status ==
  (IF rdr # 0 THEN {"RXNE"} ELSE {}) \cup (IF tdr = Empty THEN {"TXE"} ELSE {})
    \cup (IF tc THEN {"TC"} ELSE {})

\* A read looks at the error flags first.
FaultyUnlessData == op = "read" /\ errors # {} /\ rdr = 0
Faulty == op = "read" /\ errors # {}

LookFault ==
  /\ pc = "status" /\ Faulty
  /\ Goto("clear")
  /\ UNCHANGED <<index, enabled, sender, receiver, hist>>

\* All four flags are cleared, those that came since the look included.
ClearNothing ==
  /\ pc = "clear"
  /\ harmed' = {}
  /\ Return("IO")
  /\ UNCHANGED <<enabled, sender, receiver, writes, arrived, wire, taken>>
Clear ==
  /\ pc = "clear"
  /\ errors' = {} /\ harmed' = {}
  /\ Return("IO")
  /\ UNCHANGED <<enabled, sender, rdr, writes, arrived, wire, taken>>

LookReady ==
  /\ pc = "status" /\ ~Faulty /\ Awaited \in Status
  /\ IF Awaited = "TC"
     THEN Return("OK")
     ELSE Goto("data") /\ UNCHANGED index
  /\ UNCHANGED <<enabled, sender, receiver, hist>>

LookWait ==
  /\ pc = "status" /\ ~Faulty /\ Awaited \notin Status
  /\ Goto("clock")
  /\ UNCHANGED <<index, enabled, sender, receiver, hist>>

LookAgainUnguarded ==
  /\ pc = "clock"
  /\ Goto("status")
  /\ UNCHANGED <<index, enabled, sender, receiver, hist>>
LookAgain ==
  /\ pc = "clock" /\ clock # "expired"
  /\ Goto("status")
  /\ UNCHANGED <<index, enabled, sender, receiver, hist>>

Timeout ==
  /\ pc = "clock" /\ clock = "expired"
  /\ Return("TIMEOUT")
  /\ UNCHANGED <<enabled, sender, receiver, hist>>

\* Writing TDR clears TC.
WriteByte ==
  /\ pc = "data" /\ op = "write"
  /\ tdr' = <<writes, index + 1>> /\ tc' = FALSE
  /\ index' = index + 1
  /\ Goto("status")
  /\ UNCHANGED <<enabled, shift, receiver, hist>>

\* Reading RDR clears RXNE.
ReadByte ==
  /\ pc = "data" /\ op = "read"
  /\ taken' = rdr /\ rdr' = 0
  /\ IF index + 1 < Count
     THEN index' = index + 1 /\ Goto("status")
     ELSE Return("OK")
  /\ UNCHANGED <<enabled, sender, errors, writes, arrived, wire, harmed>>

-----------------------------------------------------------------------------
(* The UART and its peer. *)

Quiet == ret' = "none" /\ UNCHANGED <<software, enabled>>

HwLoad ==
  /\ enabled /\ tdr # Empty /\ shift = Empty
  /\ shift' = tdr /\ tdr' = Empty
  /\ Quiet
  /\ UNCHANGED <<tc, receiver, hist>>

HwSent ==
  /\ shift # Empty
  /\ wire' = Append(wire, shift)
  /\ shift' = Empty
  /\ tc' = (tdr = Empty)
  /\ Quiet
  /\ UNCHANGED <<tdr, receiver, writes, arrived, harmed, taken>>

\* A frame arrives; if RDR is full it is lost.
HwArrive ==
  /\ enabled /\ arrived < MaxFrames
  /\ arrived' = arrived + 1
  /\ \E ok \in BOOLEAN :
       IF rdr = 0
       THEN /\ rdr' = arrived + 1
            /\ errors' = IF ok THEN errors ELSE errors \cup {"FRAME"}
            /\ harmed' = IF ok THEN harmed ELSE harmed \cup {arrived + 1}
       ELSE /\ errors' = errors \cup {"OVERRUN"}
            /\ harmed' = harmed \cup {arrived + 1}
            /\ UNCHANGED rdr
  /\ Quiet
  /\ UNCHANGED <<sender, writes, wire, taken>>

Running ==
  \/ LookFault \/ Clear \/ LookReady \/ LookWait \/ LookAgain \/ Timeout
  \/ WriteByte \/ ReadByte \/ InitDone \/ InitTimeout

Next ==
  InitEnable \/ Refused \/ Call \/ Expire \/ Running \/ HwLoad \/ HwSent \/ HwArrive

Spec == Init /\ [][Next]_vars

\* The caller runs, time passes and the transmitter shifts; the peer owes nothing.
FairSpec ==
  Spec /\ WF_vars(Running) /\ WF_vars(Expire) /\ WF_vars(HwLoad) /\ WF_vars(HwSent)

-----------------------------------------------------------------------------
(* Properties. *)

\* A write or flush that returns OK leaves nothing behind, and the last bytes on
\* the wire are the caller's own, whatever an earlier write that timed out had
\* left to be sent: the wait for TC after the last byte covers them all.
OkMeansOut ==
  ret = "OK" /\ op # "read" =>
    /\ tdr = Empty /\ shift = Empty
    /\ op = "write" =>
         \E before \in 0 .. Len(wire) :
           SubSeq(wire, before + 1, Len(wire)) = [k \in 1 .. Count |-> <<writes, k>>]

\* Of each write a prefix leaves, in order and in one piece; a timeout cuts it
\* short and never lets a later write overtake or overwrite what waits in TDR.
WireInOrder ==
  [][ Len(wire') > Len(wire) =>
        LET w == wire'[Len(wire')][1]
            k == wire'[Len(wire')][2]
        IN  \/ k > 1 /\ wire # <<>> /\ wire[Len(wire)] = <<w, k - 1>>
            \/ k = 1 /\ (wire # <<>> => wire[Len(wire)][1] < w) ]_vars

\* docs/uart.md: "Receive parity, framing, noise and overrun faults map to
\* DAS_ERROR_IO".  A read returns OK only if every frame that was lost or
\* damaged before its last byte has been followed by an IO: no gap is silent,
\* although one IO may stand for several, and a byte that came with a fault is
\* returned by the read after it.
LossIsReported == ret = "OK" /\ op = "read" => \A n \in harmed : taken < n

\* A caller that keeps reading takes every byte that waits: no fault, of
\* whatever age, makes every later read fail.
FaultsDoNotDeafen ==
  SF_vars(Call /\ op' = "read") => \A n \in 1 .. MaxFrames : rdr = n ~> rdr # n

\* Every call ends, but for an endless read: init has its poll limit, a finite
\* call looks at the clock each time it finds nothing to do, and an endless write
\* or flush needs nothing but the transmitter.
CallsEnd == pc # "idle" /\ ~(op = "read" /\ clock = "forever") ~> pc = "idle"

=============================================================================
