------------------------- MODULE I2cControllerProofs -------------------------
(***************************************************************************)
(* Theorems about I2cController, for every length of a phase and every     *)
(* number of calls.                                                        *)
(***************************************************************************)
EXTENDS I2cController, TLAPS

Steps    == {"idle", "bus", "bus_clock", "start", "status", "status_clock"}
BusModes == {"idle", "address", "write", "read", "held", "stopping"}
Flags    == Errors \cup {"STOPF", "TXIS", "TC"}
Phases   == {"write", "read"}
Clocks   == {"none", "forever", "running", "expired"}
Results  == {"none", "OK", "IO", "TIMEOUT", "refused", "initialised"}

\* The variables keep to their types.
CallType ==
  /\ pc \in Steps /\ kind \in Kinds /\ phase \in Phases /\ index \in Nat
  /\ clock \in Clocks /\ ret \in Results
  /\ calls \in Nat /\ acked \in BOOLEAN /\ brokenOff \in BOOLEAN
  /\ astray \in BOOLEAN
  /\ sent \in Seq(Nat \X Nat) /\ buffer \in Seq(Nat \X Nat)
BusType ==
  /\ bus \in BusModes /\ start \in BOOLEAN /\ stop \in BOOLEAN
  /\ reading \in BOOLEAN /\ size \in Nat /\ moved \in Nat
  /\ autoend \in BOOLEAN /\ flags \subseteq Flags
  /\ txdr \in Nat \X Nat /\ rxdr \in Nat \X Nat
TypeOK == CallType /\ BusType

-----------------------------------------------------------------------------
(***************************************************************************)
(* The address.  As long as no START went astray, the START is asked for   *)
(* on a free bus, or held by this call, and the STOP of nobody else can    *)
(* set STOPF or TC after it: without an answer the START or the address is *)
(* still to be sent, or an error flag is up.                               *)
(***************************************************************************)
Waiting == pc \in {"status", "status_clock"}

InStep ==
  /\ start /\ ~Waiting => bus = "address"
  /\ pc = "start" => bus = "idle" \/ (bus = "held" /\ acked)
  /\ Waiting /\ start => bus \in {"idle", "held", "address"} /\ "TC" \notin flags
  /\ Waiting /\ ~acked => Failed \/ (start /\ bus # "held" /\ "STOPF" \notin flags)
  /\ Waiting /\ "TC" \in flags => Failed \/ (bus = "held" /\ ~start)

Addressed ==
  /\ bus = "address" => start
  /\ stop => ~Waiting /\ pc # "start" /\ bus # "idle"
  /\ ~astray => InStep

(***************************************************************************)
(* The bytes.  As long as no call was broken off, a call begins with empty *)
(* data registers, and each byte of it is with the caller, in a register,  *)
(* or with the target.                                                     *)
(***************************************************************************)
FirstPhase == IF kind = "read" THEN "read" ELSE "write"

\* Sequence q holds the first n bytes of this call.
Counted(q, n) == Len(q) = n /\ \A k \in 1 .. n : q[k] = <<calls, k>>

\* No byte, and no request for one, is left over.
Drained == txdr = Empty /\ rxdr = Empty /\ flags \cap {"TXIS", "TC"} = {}

\* Before the call's first START, and between calls.
Resting ==
  /\ Drained /\ bus \in {"idle", "stopping"} /\ ~start /\ index = 0
  /\ pc # "idle" => /\ phase = FirstPhase /\ sent = <<>> /\ buffer = <<>>

\* At the START of the call, or at the repeated one of a write-read.
Starting ==
  \/ Resting
  \/ /\ kind = "write_read" /\ phase = "read" /\ bus \in {"idle", "held"}
     /\ ~start /\ txdr = Empty /\ rxdr = Empty /\ "TXIS" \notin flags
     /\ Counted(sent, Count) /\ buffer = <<>>

Settings ==
  /\ phase = "read" => kind \in {"read", "write_read"}
  /\ phase = "write" => kind # "read"
  /\ size = Last
  /\ reading = (phase = "read")
  /\ autoend = (kind # "write_read" \/ phase = "read")
  /\ index <= size /\ moved <= size

\* How far the bus has got with the bytes of the phase.
Progress ==
  /\ bus = "address" => start
  /\ start => moved = 0 /\ index = 0 /\ flags = {} /\ bus \in {"idle", "held", "address"}
  /\ bus \in {"write", "read"} => moved < size /\ bus = phase
  /\ ~start /\ bus \in {"held", "stopping", "idle"} => moved = size
  /\ bus = "held" /\ ~start <=> "TC" \in flags
  /\ bus = "held" /\ ~start => ~autoend
  /\ ~start /\ bus \in {"stopping", "idle"} => autoend
  /\ "STOPF" \in flags => bus = "idle"
  /\ "TXIS" \in flags => bus = "write" /\ txdr = Empty

Writing ==
  /\ Counted(sent, moved) /\ buffer = <<>> /\ rxdr = Empty
  /\ \/ txdr = Empty /\ index = moved
     \/ txdr = <<calls, index>> /\ index = moved + 1

Reading ==
  /\ Counted(buffer, index) /\ txdr = Empty
  /\ kind = "write_read" => Counted(sent, Count)
  /\ \/ rxdr = Empty /\ moved = index
     \/ rxdr = <<calls, moved>> /\ moved = index + 1

Moving ==
  /\ Settings
  /\ Failed \/ (Progress /\ (phase = "write" => Writing) /\ (phase = "read" => Reading))
  /\ Failed => ~start
  /\ "NACKF" \in flags => Drained /\ bus \in {"idle", "stopping"}
  /\ "ERROR" \in flags => bus = "idle"

Bytes ==
  /\ pc = "idle" => index = 0
  /\ astray => brokenOff
  /\ ~brokenOff => ~stop
  /\ ~brokenOff /\ pc \in {"idle", "bus", "bus_clock"} => Resting
  /\ ~brokenOff /\ pc = "start" => Starting
  /\ ~brokenOff /\ Waiting => Moving

-----------------------------------------------------------------------------
(* Type correctness. *)

LEMMA InitTypeOK == Init => TypeOK
<1> SUFFICES ASSUME Init PROVE TypeOK
  OBVIOUS
<1>1. <<>> \in Seq(Nat \X Nat) /\ Empty \in Nat \X Nat
  BY DEF Empty
<1> QED
  BY <1>1 DEF Init, TypeOK, CallType, BusType, Steps, Kinds, Phases, Clocks, Results, BusModes

\* The steps of the driver.
LEMMA CallTypeOK ==
  ASSUME TypeOK, Initialise \/ Call \/ Refused \/ Expire
  PROVE  TypeOK'
<1> USE DEF TypeOK, Steps, Phases, Clocks, Results
<1>1. <<>> \in Seq(Nat \X Nat) /\ Empty \in Nat \X Nat /\ {} \subseteq Flags
  BY DEF Empty
<1>2. CASE Initialise
  <2>1. CallType'
    BY <1>2 DEF Initialise, software, CallType
  <2>2. BusType'
    BY <1>1, <1>2 DEF Initialise, BusType, BusModes
  <2> QED
    BY <2>1, <2>2
<1>3. CASE Call
  <2>1. BusType'
    BY <1>3 DEF Call, hardware, BusType
  <2>2. sent' \in Seq(Nat \X Nat) /\ buffer' \in Seq(Nat \X Nat)
    BY <1>1, <1>3 DEF Call
  <2>3. pc' \in Steps /\ kind' \in Kinds /\ phase' \in Phases /\ clock' \in Clocks
    BY <1>3 DEF Call
  <2>4. index' \in Nat /\ calls' \in Nat /\ ret' \in Results
    BY <1>3 DEF Call, CallType
  <2>5. acked' \in BOOLEAN /\ brokenOff' \in BOOLEAN /\ astray' \in BOOLEAN
    BY <1>3 DEF Call, CallType
  <2>6. CallType'
    BY <2>2, <2>3, <2>4, <2>5 DEF CallType
  <2> QED
    BY <2>1, <2>6
<1>4. CASE Refused \/ Expire
  <2>1. BusType'
    BY <1>4 DEF Refused, Expire, hardware, BusType
  <2>2. CallType'
    BY <1>4 DEF Refused, Expire, software, hist, CallType
  <2> QED
    BY <2>1, <2>2
<1> QED
  BY <1>2, <1>3, <1>4

LEMMA RunningTypeOK ==
  ASSUME TypeOK, Running
  PROVE  TypeOK'
<1> USE DEF TypeOK, Steps, Phases, Clocks, Results
<1>0. \A F : flags \ F \subseteq Flags
  BY DEF BusType
<1>1. ASSUME NEW result \in Results, NEW c \in BOOLEAN, Return(result, c) PROVE CallType'
  BY <1>1 DEF Return, CallType
<1>2. CASE WaitBusIdle \/ WaitForSet
  <2>1. CallType'
    BY <1>1, <1>2 DEF WaitBusIdle, WaitForSet, Goto, hist, CallType
  <2>2. BusType'
    BY <1>0, <1>2 DEF WaitBusIdle, WaitForSet, AbortTransfer, Cleared, hardware, BusType
  <2> QED
    BY <2>1, <2>2
<1>3. CASE Start
  <2>1. CallType'
    BY <1>3 DEF Start, Goto, hist, CallType
  <2>2. size' \in Nat /\ flags' \subseteq Flags
    BY <1>0, <1>3, CountAssumption DEF Start, Cleared
  <2>3. BusType'
    BY <1>3, <2>2 DEF Start, BusType, BusModes
  <2> QED
    BY <2>1, <2>3
<1>4. CASE StatusError \/ Finish
  <2>1. CallType'
    <3>1. /\ brokenOff' = TRUE \/ brokenOff' = FALSE
          /\ astray' = TRUE \/ astray' = FALSE
      BY <1>4 DEF StatusError, Finish, Return
    <3>2. /\ pc' = "idle" /\ ret' \in {"OK", "IO"} /\ clock' = "none" /\ index' = 0
          /\ UNCHANGED <<kind, phase, calls, acked, sent, buffer>>
      BY <1>4 DEF StatusError, Finish, Return
    <3> QED
      BY <3>1, <3>2 DEF CallType
  <2>2. flags' \subseteq Flags
    BY <1>0, <1>4 DEF StatusError, Finish
  <2>3. BusType'
    BY <1>4, <2>2 DEF StatusError, Finish, BusType
  <2> QED
    BY <2>1, <2>3
<1>5. CASE WriteByte
  <2>1. CallType'
    BY <1>5 DEF WriteByte, Goto, hist, CallType
  <2>2. flags' \subseteq Flags /\ txdr' \in Nat \X Nat
    BY <1>0, <1>5 DEF WriteByte, CallType
  <2>3. BusType'
    BY <1>5, <2>2 DEF WriteByte, BusType
  <2> QED
    BY <2>1, <2>3
<1>6. CASE ReadByte
  <2>1. buffer' \in Seq(Nat \X Nat) /\ Empty \in Nat \X Nat
    BY <1>6 DEF ReadByte, CallType, BusType, Empty
  <2>2. CallType'
    BY <1>6, <2>1 DEF ReadByte, Goto, CallType
  <2>3. BusType'
    BY <1>6, <2>1 DEF ReadByte, BusType
  <2> QED
    BY <2>2, <2>3
<1>7. CASE Turn
  <2>1. CallType'
    BY <1>7 DEF Turn, hist, CallType
  <2>2. BusType'
    BY <1>7 DEF Turn, hardware, BusType
  <2> QED
    BY <2>1, <2>2
<1> QED
  BY <1>2, <1>3, <1>4, <1>5, <1>6, <1>7 DEF Running

LEMMA HardwareTypeOK ==
  ASSUME TypeOK, Hardware \/ HwError
  PROVE  TypeOK'
<1> USE DEF TypeOK, Results
<1>0. {"STOPF", "TXIS", "TC", "NACKF", "ERROR"} \subseteq Flags
  BY DEF Flags, Errors
<1>1. Empty \in Nat \X Nat /\ Append(sent, txdr) \in Seq(Nat \X Nat)
  BY DEF Empty, CallType, BusType
<1>2. CallType'
  <2>1. /\ UNCHANGED <<software, calls, buffer, brokenOff, astray>> /\ ret' = "none"
        /\ acked' = acked \/ acked' = TRUE
        /\ sent' = sent \/ sent' = Append(sent, txdr)
    BY DEF Hardware, HwStart, HwAddress, HwSend, HwReceive, HwStopAsked, HwStop, HwError, Quiet,
       hist
  <2> QED
    BY <1>1, <2>1 DEF CallType, software
<1>3. flags' \subseteq Flags
  BY <1>0 DEF Hardware, HwStart, HwAddress, HwSend, HwReceive, HwStopAsked, HwStop, HwError, Nack,
     BusType
<1>4. bus' \in BusModes /\ moved' \in Nat
  BY DEF Hardware, HwStart, HwAddress, HwSend, HwReceive, HwStopAsked, HwStop, HwError, Nack, Over,
         BusType, BusModes, CallType, Phases
<1>5. txdr' \in Nat \X Nat /\ rxdr' \in Nat \X Nat
  <2>1. moved + 1 \in Nat /\ calls \in Nat
    BY DEF CallType, BusType
  <2> QED
    BY <1>1, <2>1 DEF Hardware, HwStart, HwAddress, HwSend, HwReceive, HwStopAsked, HwStop,
       HwError, BusType
<1>6. /\ start' \in BOOLEAN /\ stop' \in BOOLEAN /\ reading' \in BOOLEAN
      /\ size' \in Nat /\ autoend' \in BOOLEAN
  BY DEF Hardware, HwStart, HwAddress, HwSend, HwReceive, HwStopAsked, HwStop, HwError, BusType
<1> QED
  BY <1>2, <1>3, <1>4, <1>5, <1>6 DEF BusType

LEMMA NextTypeOK == TypeOK /\ [Next]_vars => TypeOK'
<1> SUFFICES ASSUME TypeOK, [Next]_vars PROVE TypeOK'
  OBVIOUS
<1>1. CASE UNCHANGED vars
  BY <1>1 DEF TypeOK, CallType, BusType, vars, software, hardware, hist
<1> QED
  BY <1>1, CallTypeOK, RunningTypeOK, HardwareTypeOK DEF Next

-----------------------------------------------------------------------------
(* The address is answered. *)

\* The steps of the driver's.
LEMMA DriverAddressed ==
  ASSUME TypeOK, Addressed, Initialise \/ Call \/ Refused \/ Expire \/ Running
  PROVE  Addressed'
<1> USE DEF Addressed, InStep, Waiting, Failed, Errors
<1>1. CASE Initialise \/ Call \/ Refused \/ Expire
  BY <1>1 DEF Initialise, Call, Refused, Expire, software, hardware, hist
<1>2. CASE Start
  <2>1. /\ pc = "start" /\ pc' = "status" /\ start' /\ ~stop'
        /\ flags' \cap {"STOPF", "TC"} = {} /\ UNCHANGED <<bus, acked, astray>>
    BY <1>2 DEF Start, Cleared, Goto, hist
  <2> QED
    BY <2>1
\* The call ends.
<1>3. ASSUME pc' = "idle", astray' = (astray \/ Pending), UNCHANGED <<bus, start>>,
             stop' => stop \/ bus # "idle"
      PROVE  Addressed'
  BY <1>3 DEF Pending
<1>4. CASE StatusError \/ Finish
  BY <1>3, <1>4 DEF StatusError, Finish, Return
<1>5. CASE Turn
  <2>1. /\ pc = "status" /\ pc' = "start" /\ ~Failed /\ "TC" \in flags
        /\ UNCHANGED <<bus, start, stop, flags, acked, astray>>
    BY <1>5 DEF Turn, Arrived, Status, hardware, hist
  <2> QED
    BY <2>1
<1>6. CASE WriteByte \/ ReadByte
  <2>1. /\ pc = "status" /\ pc' = "status" /\ ~Failed /\ flags' \subseteq flags
        /\ UNCHANGED <<bus, start, stop, acked, astray>>
    BY <1>6 DEF WriteByte, ReadByte, Arrived, Goto, hist
  <2> QED
    BY <2>1
<1>7. CASE WaitBusIdle
  <2>1. CASE pc' = "idle"
    BY <1>3, <1>7, <2>1 DEF WaitBusIdle, Goto, AbortTransfer, Return
  <2>2. CASE pc' # "idle"
    <3>1. /\ pc \in {"bus", "bus_clock"} /\ pc' \in {"bus", "bus_clock", "start"}
          /\ pc' = "start" => bus = "idle"
          /\ UNCHANGED <<bus, start, stop, acked, astray>>
      BY <1>7, <2>2 DEF WaitBusIdle, Goto, Return, hardware, hist
    <3> QED
      BY <3>1
  <2> QED
    BY <2>1, <2>2
<1>8. CASE WaitForSet
  <2>1. CASE pc' = "idle"
    BY <1>3, <1>8, <2>1 DEF WaitForSet, Goto, AbortTransfer, Return
  <2>2. CASE pc' # "idle"
    <3>1. /\ Waiting /\ Waiting' /\ pc' # "start"
          /\ UNCHANGED <<bus, start, stop, flags, acked, astray>>
      BY <1>8, <2>2 DEF WaitForSet, Goto, Return, hardware, hist
    <3> QED
      BY <3>1
  <2> QED
    BY <2>1, <2>2
<1> QED
  BY <1>1, <1>2, <1>4, <1>5, <1>6, <1>7, <1>8 DEF Running

\* The controller and the target.
LEMMA HardwareAddressed ==
  ASSUME TypeOK, Addressed, Hardware \/ HwError
  PROVE  Addressed'
<1> USE DEF Addressed, InStep, Waiting, Failed, Errors
<1>1. UNCHANGED <<pc, astray>>
  BY DEF Hardware, HwStart, HwAddress, HwSend, HwReceive, HwStopAsked, HwStop, HwError, Quiet,
     software, hist
<1>2. CASE HwStart
  BY <1>1, <1>2 DEF HwStart, hist
<1>3. CASE HwAddress
  <2>1. /\ bus = "address" /\ bus' \notin {"address", "idle"} /\ start' = FALSE /\ stop' = stop
        /\ acked' \/ "NACKF" \in flags'
        /\ "TC" \in flags' => "TC" \in flags
    BY <1>3 DEF HwAddress, Nack
  <2> QED
    BY <1>1, <2>1
<1>4. CASE HwSend
  <2>1. /\ bus = "write" /\ UNCHANGED <<start, stop, acked>>
        /\ bus' \in {"write", "stopping", "held"} /\ flags \subseteq flags'
        /\ "STOPF" \in flags' => "STOPF" \in flags
        /\ "TC" \in flags' => "TC" \in flags \/ bus' = "held"
    BY <1>4 DEF HwSend, Nack, Over
  <2> QED
    BY <1>1, <2>1
<1>5. CASE HwReceive
  <2>1. /\ bus = "read" /\ UNCHANGED <<start, stop, flags, acked>>
        /\ bus' \notin {"address", "idle"}
    BY <1>5 DEF HwReceive, Over, hist
  <2> QED
    BY <1>1, <2>1
<1>6. CASE HwStopAsked
  BY <1>1, <1>6 DEF HwStopAsked, hist
<1>7. CASE HwStop
  BY <1>1, <1>7 DEF HwStop, hist
<1>8. CASE HwError
  BY <1>1, <1>8 DEF HwError, hist
<1> QED
  BY <1>2, <1>3, <1>4, <1>5, <1>6, <1>7, <1>8 DEF Hardware

LEMMA NextAddressed == TypeOK /\ Addressed /\ [Next]_vars => Addressed'
<1> SUFFICES ASSUME TypeOK, Addressed, [Next]_vars PROVE Addressed'
  OBVIOUS
<1>1. CASE UNCHANGED vars
  BY <1>1 DEF vars, software, hardware, hist, Addressed, InStep, Waiting, Failed
<1> QED
  BY <1>1, DriverAddressed, HardwareAddressed DEF Next

-----------------------------------------------------------------------------
(* The bytes are exact. *)

LEMMA InitBytes == Init => Addressed /\ Bytes
BY DEF Init, Addressed, InStep, Waiting, Bytes, Resting, Drained

\* A byte of this call is added to those that have moved.
LEMMA CountedMore ==
  ASSUME NEW q \in Seq(Nat \X Nat), NEW n \in Nat, Counted(q, n), NEW e, e = <<calls, n + 1>>
  PROVE  /\ Len(Append(q, e)) = n + 1
         /\ \A k \in 1 .. n + 1 : Append(q, e)[k] = <<calls, k>>
<1>1. Len(q) = n /\ Len(Append(q, e)) = n + 1
  BY DEF Counted
<1>2. ASSUME NEW k \in 1 .. n + 1 PROVE Append(q, e)[k] = <<calls, k>>
  <2>1. CASE k = n + 1
    BY <1>1, <2>1
  <2>2. CASE k # n + 1
    <3>1. k \in 1 .. Len(q) /\ Append(q, e)[k] = q[k]
      BY <1>1, <2>2
    <3> QED
      BY <1>1, <3>1 DEF Counted
  <2> QED
    BY <2>1, <2>2
<1> QED
  BY <1>1, <1>2

\* Between two START conditions of the driver's.
LEMMA CallBytes ==
  ASSUME TypeOK, Bytes, Initialise \/ Call \/ Refused \/ Expire
  PROVE  Bytes'
<1>1. CASE Initialise
  BY <1>1 DEF Initialise, software, Bytes, Resting, Drained, Waiting
<1>2. CASE Call
  <2>1. /\ pc = "idle" /\ pc' = "bus" /\ index' = index /\ sent' = <<>> /\ buffer' = <<>>
        /\ phase' = FirstPhase' /\ UNCHANGED <<bus, start, stop, flags, txdr, rxdr, brokenOff,
                                               astray>>
    BY <1>2 DEF Call, hardware, FirstPhase
  <2> QED
    BY <2>1 DEF Bytes, Resting, Drained, Waiting
<1>3. CASE Refused \/ Expire
  <2>1. /\ UNCHANGED <<pc, kind, phase, index, bus, start, stop, reading, size, moved, autoend,
                       flags, txdr, rxdr>>
        /\ UNCHANGED <<calls, sent, buffer, brokenOff, astray>>
    BY <1>3 DEF Refused, Expire, software, hardware, hist
  <2> QED
    BY <2>1 DEF Bytes, Resting, Starting, Drained, FirstPhase, Waiting, Moving, Settings, Last,
       Failed, Progress, Writing, Reading, Counted
<1> QED
  BY <1>1, <1>2, <1>3

\* The call waits for the bus, and starts.
LEMMA StartBytes ==
  ASSUME TypeOK, Addressed, Bytes, WaitBusIdle \/ Start \/ Turn
  PROVE  Bytes'
<1>1. CASE WaitBusIdle
  <2>1. CASE pc' = "idle"
    BY <1>1, <2>1 DEF WaitBusIdle, Goto, AbortTransfer, Return, Bytes, Waiting
  <2>2. CASE pc' # "idle"
    <3>1. /\ pc \in {"bus", "bus_clock"} /\ pc' \in {"bus", "bus_clock", "start"}
          /\ UNCHANGED <<kind, phase, index, bus, start, stop, reading, flags, txdr, rxdr>>
          /\ UNCHANGED <<sent, buffer, brokenOff, astray>>
      BY <1>1, <2>2 DEF WaitBusIdle, Goto, Return, hardware, hist
    <3> QED
      BY <3>1 DEF Bytes, Resting, Starting, Drained, FirstPhase, Waiting
  <2> QED
    BY <2>1, <2>2
<1>2. CASE Start
  <2>1. /\ pc = "start" /\ pc' = "status" /\ start' = TRUE /\ ~stop' /\ moved' = 0 /\ index' = 0
        /\ size' = Last' /\ Last' \in Nat /\ flags' = flags \ {"NACKF", "ERROR", "STOPF", "TC"}
        /\ UNCHANGED <<kind, phase, bus, txdr, rxdr, sent, buffer, calls, brokenOff, astray>>
    BY <1>2, CountAssumption DEF Start, Goto, Cleared, Last, hist
  <2>2. autoend' = (kind # "write_read" \/ phase = "read") /\ reading' = (phase = "read")
    BY <1>2 DEF Start
  <2>3. ASSUME ~brokenOff PROVE Moving'
    <3>1. Starting
      BY <2>1, <2>3 DEF Bytes
    <3>2. flags' = {}
      BY <2>1, <3>1 DEF Starting, Resting, Drained, TypeOK, BusType, Flags, Errors
    <3>3. Settings'
      BY <2>1, <2>2, <3>1 DEF Settings, Starting, Resting, FirstPhase, TypeOK, CallType, Kinds,
         Phases
    <3>4. Progress'
      <4>1. bus \in {"idle", "held"}
        <5>1. bus # "stopping"
          BY <2>1, <2>3 DEF Bytes, Addressed, InStep
        <5> QED
          BY <3>1, <5>1 DEF Starting, Resting
      <4> QED
        BY <2>1, <3>2, <4>1 DEF Progress
    <3>5. (phase = "write" => Writing') /\ (phase = "read" => Reading')
      BY <2>1, <3>1 DEF Writing, Reading, Counted, Starting, Resting, Drained, FirstPhase
    <3> QED
      BY <2>1, <3>2, <3>3, <3>4, <3>5 DEF Moving, Failed
  <2> QED
    BY <2>1, <2>3 DEF Bytes, Waiting
<1>3. CASE Turn
  <2>1. /\ pc = "status" /\ pc' = "start" /\ phase' = "read" /\ ~Failed /\ Awaited = "TC"
        /\ "TC" \in flags
        /\ UNCHANGED <<kind, index, bus, start, stop, reading, flags, txdr, rxdr, sent, buffer,
                       calls, brokenOff, astray>>
    BY <1>3 DEF Turn, Arrived, Status, hardware, hist
  <2>2. kind = "write_read" /\ phase = "write" /\ ~(index < Last)
    BY <2>1 DEF Awaited
  <2>3. ASSUME ~brokenOff PROVE Starting'
    <3>1. Settings /\ Progress /\ Writing
      BY <2>1, <2>2, <2>3 DEF Bytes, Waiting, Moving
    <3>2. size = Count /\ moved = size /\ index = size /\ bus = "held" /\ ~start
          /\ "TXIS" \notin flags
      BY <2>1, <2>2, <3>1 DEF Settings, Progress, Last, TypeOK, CallType, BusType
    <3>3. txdr = Empty /\ rxdr = Empty /\ Counted(sent, Count) /\ buffer = <<>>
      BY <3>1, <3>2 DEF Writing, TypeOK, CallType, BusType
    <3> QED
      BY <2>1, <2>2, <3>2, <3>3 DEF Starting, Counted
  <2> QED
    BY <2>1, <2>3 DEF Bytes, Waiting
<1> QED
  BY <1>1, <1>2, <1>3

\* The call ends: OK, refused by the target, or broken off.
LEMMA EndBytes ==
  ASSUME TypeOK, Bytes, Finish \/ StatusError
  PROVE  Bytes'
<1>1. /\ Waiting /\ pc' = "idle" /\ index' = 0 /\ UNCHANGED <<bus, start, stop, reading, txdr,
                                                              rxdr>>
      /\ (brokenOff => brokenOff') /\ (astray' => astray \/ Pending)
      /\ flags' \subseteq flags
  BY DEF Finish, StatusError, Return, Arrived, Waiting
<1>2. ASSUME ~brokenOff' PROVE Drained' /\ bus \in {"idle", "stopping"} /\ ~start
  <2>1. Moving
    BY <1>1, <1>2 DEF Bytes
  <2>2. CASE StatusError
    <3>1. Failed /\ "NACKF" \in flags
      BY <1>2, <2>2 DEF StatusError, Return
    <3> QED
      BY <1>1, <2>1, <3>1 DEF Moving, Drained
  <2>3. CASE Finish
    <3>1. ~Failed /\ Awaited = "STOPF" /\ "STOPF" \in flags
      BY <2>3 DEF Finish, Arrived, Status
    <3>2. Settings /\ Progress /\ (phase = "write" => Writing) /\ (phase = "read" => Reading)
      BY <2>1, <3>1 DEF Moving
    <3>3. bus = "idle" /\ ~start /\ moved = size /\ index = size /\ flags \cap {"TXIS", "TC"} = {}
      BY <3>1, <3>2 DEF Progress, Settings, Awaited, Last, TypeOK, CallType, BusType
    <3>4. txdr = Empty /\ rxdr = Empty
      BY <3>2, <3>3 DEF Writing, Reading, TypeOK, CallType, BusType, Phases
    <3> QED
      BY <1>1, <3>3, <3>4 DEF Drained
  <2> QED
    BY <2>2, <2>3
<1>3. ~brokenOff' => ~astray'
  <2>1. astray => brokenOff
    BY DEF Bytes
  <2> QED
    BY <1>1, <1>2, <2>1 DEF Pending
<1> QED
  BY <1>1, <1>2, <1>3 DEF Bytes, Resting, Waiting

\* A byte is written or read by the driver, or waited for.
LEMMA ByteBytes ==
  ASSUME TypeOK, Bytes, WriteByte \/ ReadByte \/ WaitForSet
  PROVE  Bytes'
<1>0. Waiting
  BY DEF WriteByte, ReadByte, WaitForSet, Arrived, Waiting
<1>1. CASE WaitForSet
  <2>1. CASE pc' = "idle"
    BY <1>1, <2>1 DEF WaitForSet, Goto, AbortTransfer, Return, Bytes, Waiting
  <2>2. CASE pc' # "idle"
    <3>1. /\ pc' \in {"status", "status_clock"}
          /\ UNCHANGED <<kind, phase, index, bus, start, stop, reading, size, moved, autoend,
                         flags, txdr, rxdr>>
          /\ UNCHANGED <<calls, sent, buffer, brokenOff, astray>>
      BY <1>1, <2>2 DEF WaitForSet, Goto, Return, hardware, hist
    <3> QED
      BY <1>0, <3>1 DEF Bytes, Waiting, Moving, Settings, Last, Failed, Progress, Writing, Reading,
         Counted, Drained
  <2> QED
    BY <2>1, <2>2
<1>2. CASE WriteByte
  <2>1. /\ pc' = "status" /\ ~Failed /\ Awaited = "TXIS" /\ "TXIS" \in flags
        /\ txdr' = <<calls, index + 1>> /\ flags' = flags \ {"TXIS"} /\ index' = index + 1
        /\ UNCHANGED <<kind, phase, bus, start, stop, reading, size, moved, autoend, rxdr>>
        /\ UNCHANGED <<calls, sent, buffer, brokenOff, astray>>
    BY <1>2 DEF WriteByte, Arrived, Status, Goto, hist
  <2>2. phase = "write"
    BY <2>1 DEF Awaited, TypeOK, CallType, Phases
  <2>3. ASSUME ~brokenOff PROVE Moving'
    <3>1. Settings /\ Progress /\ Writing
      BY <1>0, <2>1, <2>2, <2>3 DEF Bytes, Moving
    <3>2. bus = "write" /\ moved < size /\ txdr = Empty /\ index = moved
      BY <2>1, <3>1 DEF Progress, Writing, Empty, TypeOK, CallType, BusType
    <3>3. Settings'
      <4>1. size = Last /\ moved <= size
        BY <3>1 DEF Settings
      <4>2. index' <= size
        BY <2>1, <3>2, <4>1 DEF TypeOK, CallType, BusType
      <4>3. Last' = Last
        BY <2>1 DEF Last
      <4> QED
        BY <2>1, <3>1, <4>1, <4>2, <4>3 DEF Settings
    <3>4. Progress' /\ Writing'
      BY <2>1, <2>2, <3>1, <3>2 DEF Progress, Writing, Counted
    <3>5. flags' \cap {"NACKF", "ERROR"} = {} /\ ~Failed'
      BY <2>1 DEF Failed, Errors
    <3> QED
      BY <2>1, <2>2, <3>3, <3>4, <3>5 DEF Moving
  <2>4. ~brokenOff => ~stop'
    BY <2>1 DEF Bytes
  <2> QED
    BY <2>1, <2>3, <2>4 DEF Bytes, Waiting
<1>3. CASE ReadByte
  <2>1. /\ pc' = "status" /\ ~Failed /\ Awaited = "RXNE" /\ rxdr # Empty
        /\ buffer' = Append(buffer, rxdr) /\ rxdr' = Empty /\ index' = index + 1
        /\ UNCHANGED <<kind, phase, bus, start, stop, reading, size, moved, autoend, flags, txdr>>
        /\ UNCHANGED <<calls, sent, brokenOff, astray>>
    BY <1>3 DEF ReadByte, Arrived, Status, Goto, TypeOK, BusType, Flags, Errors
  <2>2. phase = "read" /\ index < Last
    BY <2>1 DEF Awaited, TypeOK, CallType, Phases
  <2>3. ASSUME ~brokenOff PROVE Moving'
    <3>1. Settings /\ Progress /\ Reading
      BY <1>0, <2>1, <2>2, <2>3 DEF Bytes, Moving
    <3>2. rxdr = <<calls, index + 1>> /\ moved = index + 1
      BY <2>1, <3>1 DEF Reading, TypeOK, CallType, BusType
    <3>3. Settings'
      <4>1. size = Last /\ moved <= size
        BY <3>1 DEF Settings
      <4>2. index' <= size
        BY <2>1, <2>2, <4>1 DEF TypeOK, CallType, BusType
      <4>3. Last' = Last
        BY <2>1 DEF Last
      <4> QED
        BY <2>1, <3>1, <4>1, <4>2, <4>3 DEF Settings
    <3>4. Progress'
      <4>1. ~start /\ bus # "address"
        BY <3>1, <3>2 DEF Progress, TypeOK, CallType, BusType
      <4> QED
        BY <2>1, <3>1, <4>1 DEF Progress
    <3>5. Reading'
      <4>1. Len(buffer') = index + 1 /\ \A k \in 1 .. index + 1 : buffer'[k] = <<calls, k>>
        BY <2>1, <3>1, <3>2, CountedMore DEF Reading, TypeOK, CallType
      <4> QED
        BY <2>1, <3>1, <3>2, <4>1 DEF Reading, Counted
    <3>6. flags' \cap {"NACKF", "ERROR"} = {} /\ ~Failed'
      BY <2>1 DEF Failed, Errors
    <3> QED
      BY <2>1, <2>2, <3>3, <3>4, <3>5, <3>6 DEF Moving
  <2>4. ~brokenOff => ~stop'
    BY <2>1 DEF Bytes
  <2> QED
    BY <2>1, <2>3, <2>4 DEF Bytes, Waiting
<1> QED
  BY <1>1, <1>2, <1>3

\* The controller and the target.
LEMMA HardwareBytes ==
  ASSUME TypeOK, Bytes, Hardware \/ HwError
  PROVE  Bytes'
<1>1. UNCHANGED <<pc, kind, phase, index, calls, buffer, brokenOff, astray, reading, size, autoend>>
  BY DEF Hardware, HwStart, HwAddress, HwSend, HwReceive, HwStopAsked, HwStop, HwError, Quiet,
     software,
         hist
<1>2. SUFFICES ASSUME ~brokenOff, ~stop
               PROVE  /\ ~stop'
                      /\ pc \in {"idle", "bus", "bus_clock"} => Resting'
                      /\ pc = "start" => Starting'
                      /\ Waiting => Moving'
  <2>1. brokenOff \/ ~stop
    BY DEF Bytes
  <2> QED
    BY <1>1, <2>1 DEF Bytes, Waiting
<1>3. ~stop' /\ ~HwStopAsked
  BY <1>2 DEF Hardware, HwStart, HwAddress, HwSend, HwReceive, HwStopAsked, HwStop, HwError
\* What a STOP or an error on the bus does.
<1>4. ASSUME HwStop \/ HwError
      PROVE  /\ bus' = "idle" /\ (start' => start) /\ UNCHANGED <<moved, txdr, rxdr, sent>>
             /\ flags' = flags \cup {"STOPF"} \/ flags' = flags \cup {"ERROR"}
  BY <1>4 DEF HwStop, HwError, Quiet, hist
<1>5. ASSUME bus \in {"idle", "stopping"}, ~start PROVE HwStop \/ HwError
  BY <1>3, <1>5 DEF Hardware, HwStart, HwAddress, HwSend, HwReceive
<1>6. ASSUME pc \in {"idle", "bus", "bus_clock"} \/ (pc = "start" /\ Resting) PROVE Resting'
  <2>1. Resting
    BY <1>2, <1>6 DEF Bytes
  <2>2. HwStop \/ HwError
    BY <1>5, <2>1 DEF Resting
  <2> QED
    BY <1>1, <1>4, <2>1, <2>2 DEF Resting, Drained, FirstPhase
<1>7. ASSUME pc = "start" PROVE Starting'
  <2>1. Starting
    BY <1>2, <1>7 DEF Bytes
  <2>2. CASE Resting
    BY <1>6, <1>7, <2>2 DEF Starting
  <2>3. CASE ~Resting
    <3>1. bus \in {"idle", "held"} /\ ~start
      BY <2>1, <2>3 DEF Starting
    <3>2. HwStop \/ HwError
      BY <1>3, <3>1 DEF Hardware, HwStart, HwAddress, HwSend, HwReceive
    <3> QED
      BY <1>1, <1>4, <2>1, <2>3, <3>2 DEF Starting, Counted
  <2> QED
    BY <2>2, <2>3
<1>8. ASSUME Waiting PROVE Moving'
  <2>1. Moving /\ Settings
    BY <1>2, <1>8 DEF Bytes, Moving
  <2>2. moved <= size /\ index <= size /\ size = Last /\ size \in Nat /\ moved \in Nat
        /\ index \in Nat
    BY <2>1 DEF Settings, TypeOK, CallType, BusType
  <2>3. Last' = Last
    BY <1>1 DEF Last
  <2>4. moved' <= size => Settings'
    BY <1>1, <2>1, <2>2, <2>3 DEF Settings
  <2>5. CASE Failed \/ HwError
    <3>1. HwStop \/ HwError
      BY <1>5, <2>1, <2>5 DEF Moving, Failed, Errors
    <3>2. Failed'
      BY <2>5, <3>1 DEF HwStop, HwError, Failed, Errors
    <3>3. "NACKF" \in flags' => Drained' /\ bus' \in {"idle", "stopping"}
      BY <1>4, <2>1, <3>1 DEF Moving, Drained
    <3>4. ~start'
      BY <1>4, <2>1, <2>5, <3>1 DEF Moving, HwError
    <3> QED
      BY <1>4, <2>2, <2>4, <3>1, <3>2, <3>3, <3>4 DEF Moving
  <2>6. CASE ~Failed /\ ~HwError
    <3>1. Progress /\ (phase = "write" => Writing) /\ (phase = "read" => Reading)
          /\ phase \in {"write", "read"} /\ flags \cap {"NACKF", "ERROR"} = {}
      BY <2>1, <2>6 DEF Moving, TypeOK, CallType, Phases, Failed, Errors
    <3>2. ASSUME Nack, ~start', txdr' = Empty, UNCHANGED <<stop, moved, rxdr>>, rxdr = Empty,
                 flags \cap {"TXIS", "TC"} = {}
          PROVE  Moving'
      <4>1. Failed' /\ Drained' /\ bus' = "stopping" /\ "ERROR" \notin flags'
        BY <3>1, <3>2 DEF Nack, Failed, Errors, Drained
      <4> QED
        BY <2>2, <2>4, <3>2, <4>1 DEF Moving
    <3>3. ASSUME moved' <= size, Progress', phase = "write" => Writing',
                 phase = "read" => Reading',
                 flags' \cap {"NACKF", "ERROR"} = {}
          PROVE  Moving'
      BY <1>1, <2>4, <3>3 DEF Moving, Failed, Errors
    <3>8. CASE HwStart
      <4>1. /\ start /\ start' /\ bus \in {"idle", "held"} /\ bus' = "address" /\ moved' = 0
            /\ moved = 0 /\ UNCHANGED <<flags, txdr, rxdr, sent>>
        BY <3>1, <3>8 DEF HwStart, Progress, hist
      <4>2. Progress'
        BY <1>1, <3>1, <4>1 DEF Progress
      <4>3. (phase = "write" => Writing') /\ (phase = "read" => Reading')
        BY <1>1, <3>1, <4>1 DEF Writing, Reading, Counted
      <4> QED
        BY <2>2, <3>1, <3>3, <4>1, <4>2, <4>3
    <3>4. CASE HwAddress
      <4>1. /\ bus = "address" /\ ~start' /\ moved = 0 /\ index = 0 /\ flags = {}
            /\ UNCHANGED <<stop, moved, txdr, rxdr, sent>>
        BY <3>1, <3>4 DEF HwAddress, Progress
      <4>2. txdr = Empty /\ rxdr = Empty
        BY <3>1, <4>1 DEF Writing, Reading
      <4>3. CASE Nack
        BY <3>2, <4>1, <4>2, <4>3
      <4>4. CASE ~Nack
        <5>1. /\ bus' = IF size = 0 THEN "stopping" ELSE phase
              /\ flags' = IF size # 0 /\ phase = "write" THEN {"TXIS"} ELSE {}
          BY <2>1, <3>1, <3>4, <4>1, <4>2, <4>4 DEF HwAddress, Settings
        <5>2. size = 0 => autoend /\ phase = "write"
          BY <2>1, <2>2, CountAssumption DEF Settings, Last, TypeOK, CallType, Phases
        <5>3. Progress'
          BY <1>1, <2>2, <3>1, <4>1, <4>2, <5>1, <5>2 DEF Progress
        <5>4. (phase = "write" => Writing') /\ (phase = "read" => Reading')
          BY <1>1, <3>1, <4>1 DEF Writing, Reading, Counted
        <5> QED
          BY <2>2, <3>3, <4>1, <5>1, <5>3, <5>4
      <4> QED
        BY <4>3, <4>4
    <3>5. CASE HwSend
      <4>1. /\ bus = "write" /\ phase = "write" /\ txdr # Empty /\ txdr' = Empty
            /\ Writing /\ moved < size /\ flags = {} /\ ~start
            /\ UNCHANGED <<start, stop, rxdr>>
        BY <3>1, <3>5 DEF HwSend, Progress, TypeOK, BusType, Flags, Errors
      <4>2. rxdr = Empty /\ txdr = <<calls, moved + 1>> /\ index = moved + 1
        BY <4>1 DEF Writing
      <4>3. CASE Nack /\ UNCHANGED moved
        BY <3>2, <4>1, <4>2, <4>3
      <4>4. CASE ~(Nack /\ UNCHANGED moved)
        <5>1. /\ sent' = Append(sent, txdr) /\ moved' = moved + 1
              /\ bus' = (IF moved + 1 < size THEN "write" ELSE Over)
              /\ flags' = IF moved + 1 < size THEN {"TXIS"}
                          ELSE IF autoend THEN {} ELSE {"TC"}
          BY <3>5, <4>1, <4>4 DEF HwSend
        <5>2. Len(sent') = moved + 1 /\ \A k \in 1 .. moved + 1 : sent'[k] = <<calls, k>>
          <6>1. Counted(sent, moved) /\ sent \in Seq(Nat \X Nat)
            BY <4>1 DEF Writing, TypeOK, CallType
          <6>2. /\ Len(Append(sent, txdr)) = moved + 1
                /\ \A k \in 1 .. moved + 1 : Append(sent, txdr)[k] = <<calls, k>>
            BY <2>2, <4>2, <6>1, CountedMore
          <6> QED
            BY <5>1, <6>2
        <5>3. Writing'
          BY <1>1, <4>1, <4>2, <5>1, <5>2 DEF Writing, Counted
        <5>4. Progress'
          BY <1>1, <2>2, <4>1, <5>1 DEF Progress, Over
        <5> QED
          BY <2>2, <3>3, <4>1, <5>1, <5>3, <5>4
      <4> QED
        BY <4>3, <4>4
    <3>6. CASE HwReceive
      <4>1. /\ bus = "read" /\ phase = "read" /\ rxdr = Empty /\ moved < size /\ ~start
            /\ rxdr' = <<calls, moved + 1>> /\ moved' = moved + 1
            /\ bus' = (IF moved + 1 < size THEN "read" ELSE Over)
            /\ UNCHANGED <<start, stop, flags, txdr, sent>> /\ Reading
        BY <3>1, <3>6 DEF HwReceive, Progress, hist
      <4>2. moved = index
        <5>1. <<calls, moved>> = Empty => moved = 0
          BY DEF Empty
        <5> QED
          BY <2>2, <4>1, <5>1 DEF Reading
      <4>3. Reading'
        BY <1>1, <4>1, <4>2 DEF Reading, Counted
      <4>4. flags = {}
        BY <3>1, <4>1 DEF Progress, TypeOK, BusType, Flags, Errors
      <4>5. autoend
        BY <2>1, <4>1 DEF Settings
      <4>6. Progress'
        BY <1>1, <2>2, <4>1, <4>4, <4>5 DEF Progress, Over
      <4> QED
        BY <2>2, <3>1, <3>3, <4>1, <4>3, <4>6
    <3>7. CASE HwStop
      <4>1. /\ bus = "stopping" /\ bus' = "idle" /\ flags' = flags \cup {"STOPF"}
            /\ ~start /\ UNCHANGED <<start, moved, txdr, rxdr, sent>>
        BY <3>1, <3>7 DEF HwStop, Progress, hist
      <4>2. Progress'
        BY <1>1, <3>1, <4>1 DEF Progress
      <4>3. (phase = "write" => Writing') /\ (phase = "read" => Reading')
        BY <1>1, <3>1, <4>1 DEF Writing, Reading, Counted
      <4> QED
        BY <2>2, <3>1, <3>3, <4>1, <4>2, <4>3
    <3> QED
      BY <1>3, <2>6, <3>4, <3>5, <3>6, <3>7, <3>8 DEF Hardware
  <2> QED
    BY <2>5, <2>6
<1> QED
  BY <1>3, <1>6, <1>7, <1>8

LEMMA NextBytes == TypeOK /\ Addressed /\ Bytes /\ [Next]_vars => Bytes'
<1> SUFFICES ASSUME TypeOK, Addressed, Bytes, [Next]_vars PROVE Bytes'
  OBVIOUS
<1>1. CASE UNCHANGED vars
  <2>1. /\ UNCHANGED <<pc, kind, phase, index, bus, start, stop, reading, size, moved, autoend,
                       flags, txdr, rxdr>>
        /\ UNCHANGED <<calls, sent, buffer, brokenOff, astray>>
    BY <1>1 DEF vars, software, hardware, hist
  <2> QED
    BY <2>1 DEF Bytes, Resting, Starting, Drained, FirstPhase, Waiting, Moving, Settings, Last,
       Failed, Progress, Writing, Reading, Counted
<1> QED
  BY <1>1, CallBytes, StartBytes, EndBytes, ByteBytes, HardwareBytes DEF Next, Running

\* A call returns OK only if the target answered it, and, as long as no call was
\* broken off, after exactly the bytes of its phases moved, in order.
THEOREM OkCallsAreExact == Spec => []OkMeansExact
<1> DEFINE IInv == TypeOK /\ Addressed /\ Bytes /\ OkMeansExact
<1>1. Init => IInv
  BY InitTypeOK, InitBytes DEF Init, OkMeansExact
<1>2. TypeOK /\ Addressed /\ Bytes /\ OkMeansExact /\ [Next]_vars => OkMeansExact'
  <2> SUFFICES ASSUME TypeOK, Addressed, Bytes, OkMeansExact, [Next]_vars PROVE OkMeansExact'
    OBVIOUS
  <2>1. CASE UNCHANGED vars
    BY <2>1 DEF OkMeansExact, vars, software, hist, Own
  <2>2. CASE Finish
    <3>1. /\ Waiting /\ ~Failed /\ Awaited = "STOPF" /\ "STOPF" \in flags
          /\ UNCHANGED <<kind, calls, acked, sent, buffer>>
          /\ (brokenOff => brokenOff') /\ (astray => astray') /\ (acked => acked')
      BY <2>2 DEF Finish, Return, Arrived, Waiting, Status
    <3>2. ~astray => acked
      BY <3>1 DEF Addressed, InStep
    <3>3. ASSUME ~brokenOff
          PROVE  /\ kind \in {"write", "write_read"} => sent = Own
                 /\ kind \in {"read", "write_read"} => buffer = Own
      <4>1. Settings /\ Progress /\ (phase = "write" => Writing) /\ (phase = "read" => Reading)
        BY <3>1, <3>3 DEF Bytes, Moving
      <4>2. moved = size /\ size = Last /\ index = size
        BY <3>1, <4>1 DEF Progress, Settings, Awaited, Last, TypeOK, CallType, BusType
      <4>3. ASSUME NEW q \in Seq(Nat \X Nat), Counted(q, Count) PROVE q = Own
        BY <4>3, CountAssumption DEF Counted, Own
      <4>4. sent \in Seq(Nat \X Nat) /\ buffer \in Seq(Nat \X Nat) /\ phase \in {"write", "read"}
        BY DEF TypeOK, CallType, Phases
      <4>5. ASSUME kind \in {"write", "write_read"} PROVE Counted(sent, Count)
        BY <3>1, <4>1, <4>2, <4>4, <4>5 DEF Writing, Reading, Last, Settings, Awaited
      <4>6. ASSUME kind \in {"read", "write_read"} PROVE Counted(buffer, Count)
        BY <3>1, <4>1, <4>2, <4>4, <4>6 DEF Reading, Last, Settings, Awaited
      <4> QED
        BY <4>3, <4>4, <4>5, <4>6
    <3>4. Own' = Own
      BY <3>1 DEF Own
    <3>5. (~astray' => acked') /\ (~brokenOff' => ~brokenOff)
      BY <3>1, <3>2
    <3> QED
      BY <3>1, <3>3, <3>4, <3>5 DEF OkMeansExact
  <2>3. CASE ret' # "OK"
    BY <2>3 DEF OkMeansExact
  <2>4. CASE Next /\ ~Finish
    <3>1. ret' # "OK"
      BY <2>4 DEF Next, Initialise, Call, Refused, Expire, Running, WaitBusIdle, Start, StatusError,
         WriteByte, ReadByte, Turn, WaitForSet, Goto, Return, Hardware, HwStart, HwAddress,
         HwSend, HwReceive, HwStopAsked, HwStop, HwError, Quiet
    <3> QED
      BY <2>3, <3>1
  <2> QED
    BY <2>1, <2>2, <2>4
<1>3. IInv /\ [Next]_vars => IInv'
  BY <1>2, NextTypeOK, NextAddressed, NextBytes
<1> QED
  BY <1>1, <1>3, PTL DEF Spec

=============================================================================
