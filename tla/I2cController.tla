---------------------------- MODULE I2cController ----------------------------
(***************************************************************************)
(* The I2C controller of device/stm32h755/i2c.c: probe, write, read and    *)
(* write-read, one caller at a time, against a target that may refuse or   *)
(* stretch the clock as long as it likes.                                  *)
(*                                                                         *)
(* Each loop reads the status first and the clock afterwards: two steps,   *)
(* with the controller free to move in between.  A data register keeps its *)
(* byte until it is read or sent, also across a STOP, as the note above    *)
(* target_flush_txdr in tests/hardware/stm32h755/i2c_firmware.c says.      *)
(* CR2.START is a request too: ISR.BUSY is set only when the START is on   *)
(* the bus, a step of the controller's own.                                *)
(***************************************************************************)
EXTENDS Naturals, Sequences, FiniteSets

CONSTANTS
  Count,      \* bytes of a write or read phase (at most 255 on the device)
  MaxCalls    \* bound: calls in a behaviour

ASSUME CountAssumption == Count \in Nat \ {0}
ASSUME CallsAssumption == MaxCalls \in Nat

Kinds  == {"probe", "write", "read", "write_read"}
Empty  == <<0, 0>>                         \* a byte is <<its call, its place>>
Errors == {"NACKF", "ERROR"}                \* ERROR: BERR, ARLO or OVR

VARIABLES
  pc, kind, clock,     \* the call in progress: its step, operation and wait
  phase, index,        \* its phase, "write" or "read", and its bytes so far
  ret,                 \* what the last step returned
  bus,                 \* what the controller does on the bus
  start, stop,         \* CR2.START, until the address is sent, and CR2.STOP
  reading,             \* CR2.RD_WRN
  size, moved,         \* NBYTES, and the bytes of it that moved
  autoend,             \* CR2.AUTOEND
  flags,               \* ISR: NACKF, ERROR, STOPF, TXIS, TC
  txdr, rxdr,          \* the data registers; RXNE says that rxdr is full
  calls, acked,        \* history: calls so far; the target answered this one
  sent, buffer,        \* history: what it took, what the caller's buffer got
  brokenOff,           \* history: a call since the last init was broken off
  astray               \* history: and one ended with its START not yet on the bus

software == <<pc, kind, clock, phase, index>>
hardware == <<bus, start, stop, reading, size, moved, autoend, flags, txdr, rxdr>>
hist     == <<calls, acked, sent, buffer, brokenOff, astray>>
vars     == <<software, ret, hardware, hist>>

Init ==
  /\ pc = "idle" /\ kind = "probe" /\ clock = "none" /\ phase = "write" /\ index = 0
  /\ ret = "none"
  /\ bus = "idle" /\ start = FALSE /\ stop = FALSE /\ reading = FALSE
  /\ size = 0 /\ moved = 0 /\ autoend = FALSE
  /\ flags = {} /\ txdr = Empty /\ rxdr = Empty
  /\ calls = 0 /\ acked = FALSE /\ sent = <<>> /\ buffer = <<>>
  /\ brokenOff = FALSE /\ astray = FALSE

Goto(step) ==
  /\ pc' = step /\ ret' = "none"
  /\ UNCHANGED <<kind, clock, phase>>

\* The START asked for is not yet on the bus.
Pending == start /\ bus # "address"

\* A call is broken off by its timeout or a bus error; a NACK ends it cleanly.
Return(result, cleanly) ==
  /\ pc' = "idle" /\ ret' = result /\ clock' = "none" /\ index' = 0
  /\ brokenOff' = (brokenOff \/ ~cleanly) /\ astray' = (astray \/ Pending)
  /\ UNCHANGED <<kind, phase, calls, acked, sent, buffer>>

-----------------------------------------------------------------------------
(* The driver. *)

Call ==
  /\ pc = "idle" /\ calls < MaxCalls
  /\ kind' \in Kinds /\ clock' \in {"forever", "running"}
  /\ phase' = IF kind' = "read" THEN "read" ELSE "write"
  /\ pc' = "bus" /\ ret' = "none"
  /\ calls' = calls + 1 /\ acked' = FALSE /\ sent' = <<>> /\ buffer' = <<>>
  /\ UNCHANGED <<index, hardware, brokenOff, astray>>

\* A bad argument, too long a phase, a controller that is off, no time source.
Refused ==
  /\ pc = "idle"
  /\ ret' = "refused"
  /\ UNCHANGED <<software, hardware, hist>>

\* das_i2c_init: clearing PE lets go of the bus and empties both data registers.
Initialise ==
  /\ pc = "idle"
  /\ bus' = "idle" /\ start' = FALSE /\ stop' = FALSE /\ reading' = FALSE
  /\ size' = 0 /\ moved' = 0 /\ autoend' = FALSE
  /\ flags' = {} /\ txdr' = Empty /\ rxdr' = Empty
  /\ brokenOff' = FALSE /\ astray' = FALSE /\ ret' = "initialised"
  /\ UNCHANGED <<software, calls, acked, sent, buffer>>

Expire ==
  /\ clock = "running"
  /\ clock' = "expired" /\ ret' = "none"
  /\ UNCHANGED <<pc, kind, phase, index, hardware, hist>>

Cleared == flags \ {"NACKF", "ERROR", "STOPF"}      \* clear_status

\* abort_transfer: the STOP is asked for if ISR.BUSY is set, not waited for.
AbortTransferNoStop == flags' = Cleared /\ UNCHANGED stop
AbortTransfer ==
  /\ stop' = (stop \/ bus # "idle")
  /\ flags' = Cleared

BusIdleWaitForever ==
  \/ /\ pc \in {"bus", "bus_clock"}
     /\ Goto(IF bus = "idle" THEN "start" ELSE "bus")
     /\ UNCHANGED <<index, hardware, hist>>
WaitBusIdle ==
  \/ /\ pc = "bus"
     /\ Goto(IF bus = "idle" THEN "start" ELSE "bus_clock")
     /\ UNCHANGED <<index, hardware, hist>>
  \/ /\ pc = "bus_clock" /\ clock # "expired"
     /\ Goto("bus")
     /\ UNCHANGED <<index, hardware, hist>>
  \/ /\ pc = "bus_clock" /\ clock = "expired"
     /\ AbortTransfer /\ Return("TIMEOUT", FALSE)
     /\ UNCHANGED <<bus, start, reading, size, moved, autoend, txdr, rxdr>>

\* The head of write_phase, read_phase and a probe: clear_status, then CR2 with
\* START.
Start ==
  /\ pc = "start"
  /\ flags' = Cleared \ {"TC"}
  /\ start' = TRUE /\ stop' = FALSE /\ reading' = (phase = "read") /\ moved' = 0
  /\ size' = IF kind = "probe" THEN 0 ELSE Count
  /\ autoend' = (kind # "write_read" \/ phase = "read")
  /\ Goto("status") /\ index' = 0
  /\ UNCHANGED <<bus, txdr, rxdr, hist>>

\* What wait_for_set waits for.
LastTooEarly == IF kind = "probe" THEN 0 ELSE Count - 1
Last == IF kind = "probe" THEN 0 ELSE Count
Awaited ==
  IF index < Last THEN IF phase = "write" THEN "TXIS" ELSE "RXNE"
  ELSE IF kind = "write_read" /\ phase = "write" THEN "TC" ELSE "STOPF"
Status == flags \cup (IF rxdr # Empty THEN {"RXNE"} ELSE {})

\* status_error: an error is seen before the flag that came with it.
FailedLate == Errors \cap flags # {} /\ Awaited \notin Status
Failed == Errors \cap flags # {}

StatusError ==
  /\ pc = "status" /\ Failed
  /\ flags' = IF "NACKF" \in flags THEN flags \ {"NACKF", "STOPF"}
                                   ELSE flags \ {"ERROR"}
  /\ UNCHANGED <<bus, start, stop, reading, size, moved, autoend, txdr, rxdr>>
  /\ Return("IO", "NACKF" \in flags)

Arrived(flag) == pc = "status" /\ ~Failed /\ Awaited = flag /\ flag \in Status

WriteByte ==
  /\ Arrived("TXIS")
  /\ txdr' = <<calls, index + 1>> /\ flags' = flags \ {"TXIS"}
  /\ index' = index + 1
  /\ Goto("status")
  /\ UNCHANGED <<bus, start, stop, reading, size, moved, autoend, rxdr, hist>>

ReadByte ==
  /\ Arrived("RXNE")
  /\ buffer' = Append(buffer, rxdr) /\ rxdr' = Empty
  /\ index' = index + 1
  /\ Goto("status")
  /\ UNCHANGED <<bus, start, stop, reading, size, moved, autoend, flags, txdr>>
  /\ UNCHANGED <<calls, acked, sent, brokenOff, astray>>

\* The write phase of a write-read is over: repeated START.
Turn ==
  /\ Arrived("TC")
  /\ pc' = "start" /\ phase' = "read" /\ ret' = "none"
  /\ UNCHANGED <<kind, clock, index, hardware, hist>>

\* finish_autoend.
Finish ==
  /\ Arrived("STOPF")
  /\ flags' = flags \ {"STOPF"}
  /\ UNCHANGED <<bus, start, stop, reading, size, moved, autoend, txdr, rxdr>>
  /\ Return("OK", TRUE)

WaitForSet ==
  \/ /\ pc = "status" /\ ~Failed /\ Awaited \notin Status
     /\ Goto("status_clock")
     /\ UNCHANGED <<index, hardware, hist>>
  \/ /\ pc = "status_clock" /\ clock # "expired"
     /\ Goto("status")
     /\ UNCHANGED <<index, hardware, hist>>
  \/ /\ pc = "status_clock" /\ clock = "expired"
     /\ AbortTransfer /\ Return("TIMEOUT", FALSE)
     /\ UNCHANGED <<bus, start, reading, size, moved, autoend, txdr, rxdr>>

-----------------------------------------------------------------------------
(* The controller and the target. *)

Quiet == ret' = "none" /\ UNCHANGED software

\* NACKF is followed by a STOP of the controller's own.
Nack ==
  /\ flags' = flags \cup {"NACKF"} /\ bus' = "stopping"

\* The START goes out on the free bus, or after a phase with AUTOEND clear.
HwStart ==
  /\ start /\ bus \in {"idle", "held"}
  /\ bus' = "address" /\ moved' = 0
  /\ Quiet
  /\ UNCHANGED <<start, stop, reading, size, autoend, flags, txdr, rxdr, hist>>

HwAddress ==
  /\ bus = "address" /\ start' = FALSE
  /\ \/ /\ acked' = TRUE
        /\ bus' = IF size = 0 THEN "stopping" ELSE IF reading THEN "read" ELSE "write"
        /\ flags' = IF size # 0 /\ ~reading /\ txdr = Empty
                    THEN flags \cup {"TXIS"} ELSE flags
     \/ Nack /\ UNCHANGED acked
  /\ Quiet
  /\ UNCHANGED <<stop, reading, size, moved, autoend, txdr, rxdr>>
  /\ UNCHANGED <<calls, sent, buffer, brokenOff, astray>>

\* After the last byte: a STOP, or SCL held for a repeated START.
Over == IF autoend THEN "stopping" ELSE "held"

HwSend ==
  /\ bus = "write" /\ txdr # Empty
  /\ txdr' = Empty
  /\ \/ /\ sent' = Append(sent, txdr) /\ moved' = moved + 1
        /\ bus' = IF moved + 1 < size THEN "write" ELSE Over
        /\ flags' = IF moved + 1 < size THEN flags \cup {"TXIS"}
                    ELSE IF autoend THEN flags ELSE flags \cup {"TC"}
     \/ Nack /\ UNCHANGED <<sent, moved>>
  /\ Quiet
  /\ UNCHANGED <<start, stop, reading, size, autoend, rxdr>>
  /\ UNCHANGED <<calls, acked, buffer, brokenOff, astray>>

\* SCL is stretched while rxdr is full.
HwReceive ==
  /\ bus = "read" /\ rxdr = Empty
  /\ rxdr' = <<calls, moved + 1>> /\ moved' = moved + 1
  /\ bus' = IF moved + 1 < size THEN "read" ELSE Over
  /\ Quiet
  /\ UNCHANGED <<start, stop, reading, size, autoend, flags, txdr, hist>>

\* CR2.STOP takes effect after the byte in progress.
HwStopAsked ==
  /\ stop
  /\ \/ bus \in {"read", "held"}
     \/ bus = "write" /\ txdr = Empty
  /\ bus' = "stopping" /\ stop' = FALSE
  /\ Quiet
  /\ UNCHANGED <<start, reading, size, moved, autoend, flags, txdr, rxdr, hist>>

HwStop ==
  /\ bus = "stopping"
  /\ bus' = "idle" /\ stop' = FALSE /\ flags' = flags \cup {"STOPF"}
  /\ Quiet
  /\ UNCHANGED <<start, reading, size, moved, autoend, txdr, rxdr, hist>>

\* A bus error or a lost arbitration: the controller lets go of the bus and drops
\* its START.
HwError ==
  /\ bus # "idle"
  /\ bus' = "idle" /\ start' = FALSE /\ stop' = FALSE /\ flags' = flags \cup {"ERROR"}
  /\ Quiet
  /\ UNCHANGED <<reading, size, moved, autoend, txdr, rxdr, hist>>

Running ==
  \/ WaitBusIdle \/ Start \/ StatusError \/ WriteByte \/ ReadByte \/ Turn \/ Finish
  \/ WaitForSet

Hardware == HwStart \/ HwAddress \/ HwSend \/ HwReceive \/ HwStopAsked \/ HwStop

Next == Initialise \/ Call \/ Refused \/ Expire \/ Running \/ Hardware \/ HwError

Spec == Init /\ [][Next]_vars

\* The caller runs and time passes; the target owes nothing.
FairSpec == Spec /\ WF_vars(Running) /\ WF_vars(Expire)

-----------------------------------------------------------------------------
(* Properties. *)

Own == [k \in 1 .. Count |-> <<calls, k>>]

\* A call returns OK only if the target answered its address in this call: a STOP
\* left over from a refused, failed or timed-out call proves nothing, unless a call
\* since das_i2c_init ended before its START was on the bus: it goes out under a later
\* one.  Unless one was broken off at all, it also moved exactly the
\* bytes of the caller, in order, whatever was refused or failed before: write_phase
\* and read_phase keep step with the data registers.
OkMeansExact ==
  ret = "OK" =>
    /\ ~astray => acked
    /\ ~brokenOff =>
         /\ kind \in {"write", "write_read"} => sent = Own
         /\ kind \in {"read", "write_read"} => buffer = Own

\* i2c.h:56, "Read bytes from a 7-bit addressed target": the bytes of an OK
\* read come from the target in this call.
ReadBytesAreOwn ==
  ret = "OK" /\ kind \in {"read", "write_read"} =>
    \A k \in DOMAIN buffer : buffer[k][1] = calls

\* A finite call ends, even if the target stretches the clock for ever: every loop
\* looks at the clock after each look at the status.  If the target does not
\* stretch for ever, so does an endless call, when no call since das_i2c_init was
\* broken off.
CallsEnd ==
  /\ pc # "idle" /\ clock # "forever" ~> pc = "idle"
  /\ WF_vars(Hardware) => (pc # "idle" /\ ~brokenOff ~> pc = "idle")

\* And the bus is free again after a call that gave up, whose abort_transfer asks
\* for a STOP if the bus is busy and does not wait for it.  Two things may hold the
\* bus for ever: an endless call after one that was broken off, and the START of a
\* call that gave up right after it wrote CR2 (i2c.c:225), when ISR.BUSY is not set
\* yet (i2c.c:194) and so no STOP is asked for.  Even then the next call that times
\* out on the busy bus frees it.
BusComesBack ==
  WF_vars(Hardware) =>
    /\ bus # "idle" /\ ~(brokenOff /\ clock = "forever") ~> bus = "idle" \/ astray
    /\ bus # "idle" /\ ret = "TIMEOUT" ~> bus = "idle"

=============================================================================
