-------------------------- MODULE SpiTransferProofs --------------------------
(***************************************************************************)
(* Theorems about SpiTransfer, for every pool, chunk, transfer and FIFO    *)
(* size and every number of transfers.                                     *)
(***************************************************************************)
EXTENDS SpiTransfer, Integers, TLAPS

PioSteps == {"pio_start", "pio_tx", "pio_rx", "pio_wait", "pio_eot", "pio_eot_wait"}
DmaSteps == {"acquire_rx", "acquire_tx", "configure", "start_rx", "start_tx", "enable",
             "poll", "poll_wait", "cleanup", "cleanup_rx", "cleanup_tx"}
OnSteps  == {"pio_tx", "pio_rx", "pio_wait", "pio_eot", "pio_eot_wait",
             "poll", "poll_wait", "cleanup"}
Outcomes == {"none", "OK", "IO", "TIMEOUT"}
Returns  == Outcomes \cup {"INVALID_ARGUMENT", "NOT_READY", "initialised"}

\* The variables keep to their types.
CallType ==
  /\ pc \in {"idle"} \cup PioSteps \cup DmaSteps
  /\ clock \in {"none", "forever", "running", "expired"}
  /\ offset \in Byte
  /\ outcome \in Outcomes
  /\ pair \in [Gates -> Streams \cup {NoStream}]
  /\ txIndex \in Nat /\ rxIndex \in Nat
  /\ ret \in Returns
StreamsType ==
  /\ owner \in [Streams -> {"free", "spi", "other"}]
  /\ en \in [Streams -> BOOLEAN] /\ stopping \in [Streams -> BOOLEAN]
  /\ serves \in [Streams -> {"none"} \cup Gates]
  /\ at \in [Streams -> Nat] /\ left \in [Streams -> Nat]
  /\ held \in [Streams -> Nat] /\ into \in [Streams -> 0 .. MaxCalls]
  /\ flag \in [Streams -> {"none", "TC", "TE"}]
SpiType ==
  /\ spe \in BOOLEAN /\ fault \in BOOLEAN /\ eot \in BOOLEAN
  /\ gates \subseteq Gates
  /\ txFifo \in Seq(Nat) /\ rxFifo \in Seq(Nat)
  /\ shifted \in Nat
HistType ==
  /\ wire \in Seq(Nat)
  /\ calls \in 0 .. MaxCalls
  /\ buffer \in [1 .. MaxCalls -> [Byte -> Nat]]
  /\ leaked \subseteq Streams
TypeOK == CallType /\ StreamsType /\ SpiType /\ HistType

-----------------------------------------------------------------------------
(***************************************************************************)
(* The pool and the pair.  The streams of the driver are those of the pair *)
(* that its call holds, and those it lost by a release that timed out.     *)
(***************************************************************************)
HeldGates ==
  IF pc = "acquire_tx" THEN {"rx"}
  ELSE IF pc = "cleanup_tx" THEN {"tx"}
  ELSE IF pc \in DmaSteps \ {"acquire_rx"} THEN Gates
  ELSE {}

\* The gates whose stream the call has started.
Started ==
  IF pc = "start_tx" THEN {"rx"}
  ELSE IF pc = "cleanup_tx" THEN {"tx"}
  ELSE IF pc \in {"enable", "poll", "poll_wait", "cleanup", "cleanup_rx"} THEN Gates
  ELSE {}

\* The call in progress has not gone wrong.
Hopeful == pc # "idle" /\ outcome \in {"none", "OK"}

StreamSound(s) ==
  /\ en[s] => left[s] > 0 /\ owner[s] = "spi" /\ flag[s] = "none"
  /\ held[s] # 0 => en[s] /\ serves[s] = "rx"
  /\ flag[s] = "TC" => left[s] = 0
  /\ stopping[s] => s \in leaked
  /\ into[s] <= calls
  /\ s \in leaked =>
       /\ owner[s] = "spi"
       /\ en[s] => stopping[s]
       /\ Hopeful => into[s] < calls
  /\ owner[s] = "spi" => s \in leaked \/ \E g \in HeldGates : pair[g] = s

\* What is known of the stream that gate g of the call holds.
HeldSound(g) ==
  /\ pair[g] \in Streams /\ owner[pair[g]] = "spi" /\ pair[g] \notin leaked
  /\ g \notin Started => ~en[pair[g]]
  /\ pc \in {"start_rx", "start_tx"} \/ g \in Started => serves[pair[g]] = g
  /\ g \in Started =>
       /\ into[pair[g]] = calls
       /\ at[pair[g]] + left[pair[g]] = offset + Chunk
  /\ outcome = "OK" => flag[pair[g]] = "TC"

CallSound ==
  /\ HeldGates = Gates => pair["rx"] # pair["tx"]
  /\ pc # "idle" => calls > 0
  /\ outcome # "none" <=> pc \in {"cleanup", "cleanup_rx", "cleanup_tx"}

Pool ==
  /\ \A s \in Streams : StreamSound(s)
  /\ \A g \in HeldGates : HeldSound(g)
  /\ CallSound

-----------------------------------------------------------------------------
(* Type correctness. *)

\* A chunk has at least one byte and ends within the transfer.
LEMMA ChunkRange ==
  ASSUME TypeOK
  PROVE  /\ Chunk \in Nat /\ Chunk > 0 /\ offset \in Nat /\ offset + Chunk <= Size
         /\ Size \in Nat /\ Size > 0
BY SpiAssumption DEF TypeOK, CallType, Chunk, Byte

\* What stays, and a controller that is off, is of its type.
LEMMA TypeFrames ==
  /\ StreamsType /\ UNCHANGED streams => StreamsType'
  /\ SpiType /\ UNCHANGED spi => SpiType'
  /\ HistType /\ UNCHANGED hist => HistType'
  /\ CallType /\ UNCHANGED software => CallType'
  /\ SpiType /\ Off /\ gates' \subseteq Gates => SpiType'
<1>1. <<>> \in Seq(Nat)
  OBVIOUS
<1>2. StreamsType /\ UNCHANGED streams => StreamsType'
  BY DEF StreamsType, streams
<1>3. SpiType /\ UNCHANGED spi => SpiType'
  BY DEF SpiType, spi
<1>4. HistType /\ UNCHANGED hist => HistType'
  BY DEF HistType, hist
<1>5. CallType /\ UNCHANGED software => CallType'
  BY DEF CallType, software
<1>6. SpiType /\ Off /\ gates' \subseteq Gates => SpiType'
  <2> SUFFICES ASSUME SpiType, Off, gates' \subseteq Gates PROVE SpiType'
    OBVIOUS
  <2>1. txFifo' \in Seq(Nat) /\ rxFifo' \in Seq(Nat)
    BY <1>1 DEF Off
  <2> QED
    BY <2>1 DEF SpiType, Off
<1> QED
  BY <1>2, <1>3, <1>4, <1>5, <1>6

\* A byte stored in a buffer is a byte.
LEMMA BufferType ==
  ASSUME HistType, NEW c, NEW b, NEW v \in Nat, buffer' = [buffer EXCEPT ![c][b] = v]
  PROVE  buffer' \in [1 .. MaxCalls -> [Byte -> Nat]]
<1>1. ASSUME NEW d \in 1 .. MaxCalls
      PROVE  buffer'[d] \in [Byte -> Nat]
  <2>1. buffer[d] \in [Byte -> Nat]
    BY DEF HistType
  <2>2. buffer'[d] = buffer[d] \/ buffer'[d] = [buffer[d] EXCEPT ![b] = v]
    BY DEF HistType
  <2>3. [buffer[d] EXCEPT ![b] = v] \in [Byte -> Nat]
    BY <2>1
  <2> QED
    BY <2>1, <2>2, <2>3
<1>2. buffer' = [d \in 1 .. MaxCalls |-> buffer'[d]]
  BY DEF HistType
<1> QED
  BY <1>1, <1>2

LEMMA InitTypeOK == Init => TypeOK
<1> SUFFICES ASSUME Init PROVE TypeOK
  OBVIOUS
<1> USE DEF Init
<1>1. <<>> \in Seq(Nat)
  OBVIOUS
<1>2. 0 \in Byte /\ NoStream \in {NoStream} /\ 0 \in 0 .. MaxCalls
  BY SpiAssumption DEF Byte
<1>3. CallType
  BY <1>2 DEF CallType, Outcomes, Returns
<1>4. StreamsType
  BY <1>2 DEF StreamsType
<1>5. SpiType
  BY <1>1 DEF SpiType
<1>6. HistType
  BY <1>1, <1>2 DEF HistType
<1> QED
  BY <1>3, <1>4, <1>5, <1>6 DEF TypeOK

\* What ends a call, or goes on to its next chunk.
LEMMA ReturnTypeOK ==
  ASSUME NEW result \in Returns, Return(result)
  PROVE  CallType'
BY SpiAssumption DEF Return, CallType, Byte, Outcomes

LEMMA NextChunkTypeOK ==
  ASSUME TypeOK, NEW step \in PioSteps \cup DmaSteps, NextChunk(step)
  PROVE  CallType'
<1>1. CASE offset + Chunk < Size
  <2>1. offset + Chunk \in Byte
    BY <1>1, ChunkRange DEF Byte
  <2> QED
    BY <1>1, <2>1 DEF NextChunk, TypeOK, CallType, Outcomes, Returns
<1>2. CASE ~(offset + Chunk < Size)
  <2>1. "OK" \in Returns
    BY DEF Returns, Outcomes
  <2> QED
    BY <1>2, <2>1, ReturnTypeOK DEF NextChunk
<1> QED
  BY <1>1, <1>2

\* The steps of a call.
LEMMA PioTypeOK ==
  ASSUME TypeOK,
         \/ PioStart \/ PioFault \/ PioTx \/ PioRx \/ PioWait \/ PioEot \/ PioExpired \/ PioDone
  PROVE  TypeOK'
<1> USE TypeFrames DEF TypeOK
<1>0. {"IO", "TIMEOUT"} \subseteq Returns
  BY DEF Returns, Outcomes
<1>1. CASE PioStart
  <2>1. CallType' BY <1>1 DEF PioStart, Goto, CallType, PioSteps, Returns, Outcomes
  <2>2. <<>> \in Seq(Nat) OBVIOUS
  <2>3. SpiType' BY <1>1, <2>2 DEF PioStart, SpiType
  <2> QED BY <1>1, <2>1, <2>3 DEF PioStart
<1>2. CASE PioFault \/ PioExpired
  <2>1. CallType' BY <1>0, <1>2, ReturnTypeOK DEF PioFault, PioExpired, PioAbort
  <2>2. SpiType'
    BY <1>2 DEF PioFault, PioExpired, PioAbort, SpiType
  <2> QED BY <1>2, <2>1, <2>2 DEF PioFault, PioExpired, PioAbort
<1>3. CASE PioTx
  <2>1. offset + txIndex \in Nat
    BY ChunkRange DEF CallType
  <2>2. CallType' BY <1>3 DEF PioTx, CallType, PioSteps, Returns, Outcomes
  <2>3. txFifo' \in Seq(Nat)
    <3>1. txFifo' = txFifo \/ txFifo' = Append(txFifo, offset + txIndex)
      BY <1>3 DEF PioTx
    <3>2. txFifo \in Seq(Nat)
      BY DEF SpiType
    <3> QED BY <2>1, <3>1, <3>2
  <2>4. SpiType' BY <1>3, <2>3 DEF PioTx, SpiType
  <2> QED BY <1>3, <2>2, <2>4 DEF PioTx
<1>4. CASE PioRx
  <2>1. rxFifo # <<>> => Head(rxFifo) \in Nat /\ Tail(rxFifo) \in Seq(Nat)
    BY DEF SpiType
  <2>2. CallType' BY <1>4 DEF PioRx, CallType, PioSteps, Returns, Outcomes
  <2>3. rxFifo' \in Seq(Nat)
    BY <1>4, <2>1 DEF PioRx, SpiType
  <2>4. SpiType' BY <1>4, <2>3 DEF PioRx, SpiType
  <2>5. buffer' \in [1 .. MaxCalls -> [Byte -> Nat]]
    <3>1. \/ buffer' = buffer
          \/ rxFifo # <<>> /\ buffer' = [buffer EXCEPT ![calls][offset + rxIndex] = Head(rxFifo)]
      BY <1>4 DEF PioRx
    <3> QED BY <2>1, <3>1, BufferType DEF HistType
  <2>6. HistType' BY <1>4, <2>5 DEF PioRx, HistType
  <2> QED BY <1>4, <2>2, <2>4, <2>6 DEF PioRx
<1>5. CASE PioWait \/ PioEot
  <2>1. CallType'
    BY <1>5 DEF PioWait, PioEot, Goto, CallType, PioSteps, Returns, Outcomes
  <2> QED BY <1>5, <2>1 DEF PioWait, PioEot
<1>6. CASE PioDone
  <2>1. "pio_start" \in PioSteps \cup DmaSteps BY DEF PioSteps
  <2>2. CallType' BY <1>6, <2>1, NextChunkTypeOK DEF PioDone
  <2>3. SpiType' BY <1>6 DEF PioDone, SpiType
  <2> QED BY <1>6, <2>2, <2>3 DEF PioDone
<1> QED
  BY <1>1, <1>2, <1>3, <1>4, <1>5, <1>6

LEMMA DmaTypeOK ==
  ASSUME TypeOK, Pool,
         \/ AcquireRx \/ AcquireRxFail \/ AcquireTx \/ AcquireTxFail \/ Configure
         \/ StartRx \/ StartTx \/ Enable \/ Poll \/ PollWait \/ Cleanup \/ CleanupRx \/ CleanupTx
  PROVE  TypeOK'
<1> USE TypeFrames DEF TypeOK
<1>0. "NOT_READY" \in Returns
  BY DEF Returns
<1>1. CASE AcquireRx \/ AcquireTx
  <2>1. CallType'
    BY <1>1 DEF AcquireRx, AcquireTx, Claim, CallType, DmaSteps, Returns, Outcomes, Gates
  <2>2. StreamsType' BY <1>1 DEF AcquireRx, AcquireTx, Claim, StreamsType
  <2> QED BY <1>1, <2>1, <2>2 DEF AcquireRx, AcquireTx, Claim
<1>2. CASE AcquireRxFail \/ AcquireTxFail
  <2>1. CallType' BY <1>0, <1>2, ReturnTypeOK DEF AcquireRxFail, AcquireTxFail
  <2>2. StreamsType' BY <1>2 DEF AcquireRxFail, AcquireTxFail, StreamsType, streams
  <2> QED BY <1>2, <2>1, <2>2 DEF AcquireRxFail, AcquireTxFail
<1>3. CASE Configure
  <2>1. CallType' BY <1>3 DEF Configure, Goto, CallType, DmaSteps, Returns, Outcomes
  <2>2. serves' \in [Streams -> {"none"} \cup Gates]
    BY <1>3 DEF Configure, StreamsType, Gates
  <2>3. StreamsType' BY <1>3, <2>2 DEF Configure, StreamsType
  <2>4. SpiType' BY <1>3 DEF Configure
  <2> QED BY <1>3, <2>1, <2>3, <2>4 DEF Configure
<1>4. CASE StartRx \/ StartTx
  <2>1. CallType' BY <1>4 DEF StartRx, StartTx, StartGated, Goto, CallType, DmaSteps, Returns,
                         Outcomes
  <2>2. StreamsType'
    <3>1. calls \in 0 .. MaxCalls /\ offset \in Nat /\ Chunk \in Nat
      BY ChunkRange DEF HistType
    <3>2. PICK g \in Gates :
            /\ en' = [en EXCEPT ![pair[g]] = TRUE]
            /\ at' = [at EXCEPT ![pair[g]] = offset]
            /\ left' = [left EXCEPT ![pair[g]] = Chunk]
            /\ into' = [into EXCEPT ![pair[g]] = calls]
            /\ flag' = [flag EXCEPT ![pair[g]] = "none"]
            /\ UNCHANGED <<owner, stopping, serves, held>>
      BY <1>4 DEF StartRx, StartTx, StartGated, Gates
    <3> QED BY <3>1, <3>2 DEF StreamsType
  <2>3. SpiType' BY <1>4 DEF StartRx, StartTx, StartGated, SpiType, Gates
  <2> QED BY <1>4, <2>1, <2>2, <2>3 DEF StartRx, StartTx, StartGated
<1>5. CASE Enable \/ Cleanup
  <2>1. CallType' BY <1>5 DEF Enable, Cleanup, Goto, CallType, DmaSteps, Returns, Outcomes
  <2>2. SpiType' BY <1>5 DEF Enable, Cleanup, SpiType
  <2> QED BY <1>5, <2>1, <2>2 DEF Enable, Cleanup
<1>6. CASE Poll \/ PollWait
  <2>1. CallType' BY <1>6 DEF Poll, PollWait, CallType, DmaSteps, Returns, Outcomes
  <2> QED BY <1>6, <2>1 DEF Poll, PollWait
<1>7. ASSUME NEW g \in HeldGates, GiveBack(g), UNCHANGED <<wire, buffer, calls>>
      PROVE  StreamsType' /\ HistType'
  <2>1. pair[g] \in Streams
    BY DEF Pool, HeldSound
  <2>2. StreamsType' BY <1>7 DEF GiveBack, StreamsType
  <2>3. leaked' \subseteq Streams
    BY <1>7, <2>1 DEF GiveBack, HistType
  <2> QED BY <1>7, <2>2, <2>3 DEF HistType
<1>8. CASE CleanupRx
  <2>1. CallType' BY <1>8 DEF CleanupRx, Goto, CallType, DmaSteps, Returns, Outcomes
  <2>2. "rx" \in HeldGates BY <1>8 DEF CleanupRx, HeldGates, DmaSteps, Gates
  <2> QED BY <1>7, <1>8, <2>1, <2>2 DEF CleanupRx
<1>9. CASE CleanupTx
  <2>1. "acquire_rx" \in PioSteps \cup DmaSteps /\ outcome \in Returns
    BY DEF DmaSteps, CallType, Returns
  <2>2. CallType' BY <1>9, <2>1, NextChunkTypeOK, ReturnTypeOK DEF CleanupTx
  <2>3. "tx" \in HeldGates BY <1>9 DEF CleanupTx, HeldGates
  <2> QED BY <1>7, <1>9, <2>2, <2>3 DEF CleanupTx
<1> QED
  BY <1>1, <1>2, <1>3, <1>4, <1>5, <1>6, <1>8, <1>9

\* The controller, the engine and the other tasks.
LEMMA HardwareTypeOK ==
  ASSUME TypeOK, Pool,
         \/ HwShift \/ HwEndOfTransfer \/ HwFault
         \/ \E s \in Streams : \/ HwDmaTx(s) \/ HwDmaRead(s) \/ HwDmaWrite(s)
                              \/ HwDmaError(s) \/ HwHalt(s) \/ OtherTask(s)
  PROVE  TypeOK'
<1> USE TypeFrames DEF TypeOK
<1>1. CallType'
  <2>1. /\ UNCHANGED <<pc, path, clock, offset, outcome, pair, txIndex, rxIndex>>
        /\ ret' = "none"
    BY DEF HwShift, HwEndOfTransfer, HwFault, HwDmaTx, HwDmaRead, HwDmaWrite, HwDmaError, HwHalt,
           OtherTask, Moved
  <2> QED
    BY <2>1 DEF CallType, Returns, Outcomes
<1>2. ASSUME NEW s \in Streams, Moved(s), left[s] > 0, held' \in [Streams -> Nat]
      PROVE  StreamsType'
  <2>1. left[s] - 1 \in Nat
    BY <1>2 DEF StreamsType
  <2> QED
    BY <1>2, <2>1 DEF Moved, StreamsType
<1>3. CASE HwShift
  <2>1. Tail(txFifo) \in Seq(Nat) /\ Head(txFifo) \in Nat
    BY <1>3 DEF HwShift, SpiType
  <2>2. Len(wire) + 1 \in Nat
    BY DEF HistType
  <2>3. rxFifo' \in Seq(Nat)
    BY <1>3, <2>2 DEF HwShift, SpiType
  <2>4. SpiType'
    BY <1>3, <2>1, <2>3 DEF HwShift, SpiType
  <2>5. wire' \in Seq(Nat)
    BY <1>3, <2>1 DEF HwShift, HistType
  <2>6. HistType'
    BY <1>3, <2>5 DEF HwShift, HistType
  <2> QED
    BY <1>1, <1>3, <2>4, <2>6 DEF HwShift
<1>4. CASE HwEndOfTransfer \/ HwFault
  <2>1. SpiType'
    BY <1>4 DEF HwEndOfTransfer, HwFault, SpiType
  <2> QED
    BY <1>1, <1>4, <2>1 DEF HwEndOfTransfer, HwFault
<1>5. ASSUME NEW s \in Streams, HwDmaTx(s) PROVE TypeOK'
  <2>1. left[s] > 0 /\ held' = held
    BY <1>5 DEF HwDmaTx, Requested, Pool, StreamSound
  <2>2. StreamsType'
    BY <1>2, <1>5, <2>1 DEF HwDmaTx, StreamsType
  <2>3. txFifo' \in Seq(Nat)
    BY <1>5 DEF HwDmaTx, StreamsType, SpiType
  <2>4. SpiType'
    BY <1>5, <2>3 DEF HwDmaTx, SpiType
  <2> QED
    BY <1>1, <1>5, <2>2, <2>4 DEF HwDmaTx
<1>6. ASSUME NEW s \in Streams, HwDmaRead(s) PROVE TypeOK'
  <2>1. Tail(rxFifo) \in Seq(Nat) /\ Head(rxFifo) \in Nat
    BY <1>6 DEF HwDmaRead, SpiType
  <2>2. StreamsType'
    BY <1>6, <2>1 DEF HwDmaRead, StreamsType
  <2>3. SpiType'
    BY <1>6, <2>1 DEF HwDmaRead, SpiType
  <2> QED
    BY <1>1, <1>6, <2>2, <2>3 DEF HwDmaRead
<1>7. ASSUME NEW s \in Streams, HwDmaWrite(s) PROVE TypeOK'
  <2>1. left[s] > 0 /\ held[s] \in Nat /\ held' \in [Streams -> Nat]
    BY <1>7 DEF HwDmaWrite, Pool, StreamSound, StreamsType
  <2>2. StreamsType'
    BY <1>2, <1>7, <2>1 DEF HwDmaWrite
  <2>3. buffer' \in [1 .. MaxCalls -> [Byte -> Nat]]
    BY <1>7, <2>1, BufferType DEF HwDmaWrite
  <2>4. HistType'
    BY <1>7, <2>3 DEF HwDmaWrite, HistType
  <2> QED
    BY <1>1, <1>7, <2>2, <2>4 DEF HwDmaWrite
<1>8. ASSUME NEW s \in Streams, HwDmaError(s) \/ HwHalt(s) \/ OtherTask(s) PROVE TypeOK'
  <2>1. StreamsType'
    BY <1>8 DEF HwDmaError, HwHalt, OtherTask, StreamsType
  <2> QED
    BY <1>1, <1>8, <2>1 DEF HwDmaError, HwHalt, OtherTask
<1> QED
  BY <1>3, <1>4, <1>5, <1>6, <1>7, <1>8

\* What begins and refuses a call, and the clock.
LEMMA CallTypeOK ==
  ASSUME TypeOK, Initialise \/ Call \/ Refused \/ Expire
  PROVE  TypeOK'
<1> USE TypeFrames DEF TypeOK
<1>1. {"initialised", "INVALID_ARGUMENT", "NOT_READY"} \subseteq Returns
  BY DEF Returns
<1>2. CASE Initialise
  <2>1. CallType' /\ SpiType'
    BY <1>1, <1>2, ReturnTypeOK DEF Initialise
  <2> QED
    BY <1>2, <2>1 DEF Initialise
<1>3. CASE Call
  <2>1. CallType'
    BY <1>3 DEF Call, CallType, PioSteps, DmaSteps, Returns, Outcomes
  <2>2. HistType'
    <3>1. calls' \in 0 .. MaxCalls /\ <<>> \in Seq(Nat)
      BY <1>3, SpiAssumption DEF Call, HistType
    <3> QED
      BY <1>3, <3>1 DEF Call, HistType
  <2> QED
    BY <1>3, <2>1, <2>2 DEF Call
<1>4. CASE Refused
  <2>1. CallType'
    BY <1>1, <1>4, ReturnTypeOK DEF Refused
  <2> QED
    BY <1>4, <2>1 DEF Refused
<1>5. CASE Expire
  <2>1. CallType'
    BY <1>5 DEF Expire, CallType, Returns, Outcomes
  <2> QED
    BY <1>5, <2>1 DEF Expire
<1> QED
  BY <1>2, <1>3, <1>4, <1>5

LEMMA NextTypeOK == TypeOK /\ Pool /\ [Next]_vars => TypeOK'
<1> SUFFICES ASSUME TypeOK, Pool, [Next]_vars PROVE TypeOK'
  OBVIOUS
<1>1. CASE UNCHANGED vars
  BY <1>1, TypeFrames DEF vars, TypeOK
<1> QED
  BY <1>1, PioTypeOK, DmaTypeOK, HardwareTypeOK, CallTypeOK DEF Next, Running, Transferring

-----------------------------------------------------------------------------
(* The pool stays sound. *)

\* At first the pool is free.
LEMMA InitPool == Init => Pool
<1> SUFFICES ASSUME Init PROVE Pool
  OBVIOUS
<1>1. HeldGates = {}
  BY DEF Init, HeldGates, DmaSteps
<1>2. ASSUME NEW s \in Streams PROVE StreamSound(s)
  BY DEF Init, StreamSound
<1>3. CallSound
  BY <1>1 DEF Init, CallSound, Gates
<1> QED
  BY <1>1, <1>2, <1>3 DEF Pool

\* A stream nobody touches stays sound while the call still holds it.
LEMMA StreamKept ==
  ASSUME NEW s \in Streams, StreamSound(s), calls' \in Nat, calls \in Nat, calls' >= calls,
         into[s] \in Nat,
         /\ en'[s] = en[s] /\ stopping'[s] = stopping[s] /\ held'[s] = held[s]
         /\ owner'[s] = owner[s] /\ serves'[s] = serves[s] /\ flag'[s] = flag[s]
         /\ left'[s] = left[s] /\ into'[s] = into[s]
         /\ s \in leaked' <=> s \in leaked,
         Hopeful' => Hopeful \/ calls' > calls,
         \A g \in HeldGates : pair[g] = s => g \in HeldGates' /\ pair'[g] = s
  PROVE  StreamSound(s)'
BY DEF StreamSound

\* A call without a pair goes on, begins or ends.
LEMMA NoPairPool ==
  ASSUME TypeOK, Pool, UNCHANGED <<streams, leaked>>, HeldGates = {}, HeldGates' = {},
         calls' \in Nat, calls' >= calls, pc' # "idle" => calls' > 0, outcome' = "none",
         pc' # "idle" => pc # "idle" \/ calls' > calls
  PROVE  Pool'
<1>1. calls \in Nat /\ \A s \in Streams : into[s] \in Nat
  BY SpiAssumption DEF TypeOK, HistType, StreamsType
<1>2. Hopeful' => Hopeful \/ calls' > calls
  BY DEF Pool, CallSound, Hopeful, HeldGates, DmaSteps, Gates
<1>3. ASSUME NEW s \in Streams PROVE StreamSound(s)'
  BY <1>1, <1>2, StreamKept DEF Pool, streams
<1>4. CallSound'
  BY DEF CallSound, HeldGates, DmaSteps, Gates
<1> QED
  BY <1>3, <1>4 DEF Pool

\* A call goes on with the pair it has, if it has one.
LEMMA PairPool ==
  ASSUME TypeOK, Pool, UNCHANGED <<streams, leaked, pair, offset, calls>>,
         HeldGates' = HeldGates, Started' = Started,
         pc' \in {"start_rx", "start_tx"} => pc' = pc,
         pc' # "idle" => pc # "idle",
         outcome' # "none" <=> pc' \in {"cleanup", "cleanup_rx", "cleanup_tx"},
         outcome' = "OK" => outcome = "OK" \/ \A g \in Gates : flag[pair[g]] = "TC",
         outcome # "none" => outcome' = outcome
  PROVE  Pool'
<1>1. calls \in Nat /\ \A s \in Streams : into[s] \in Nat
  BY SpiAssumption DEF TypeOK, HistType, StreamsType
<1>2. Hopeful' => Hopeful
  BY DEF Hopeful
<1>3. ASSUME NEW s \in Streams PROVE StreamSound(s)'
  BY <1>1, <1>2, StreamKept DEF Pool, streams
<1>4. HeldGates \subseteq Gates
  BY DEF HeldGates, Gates
<1>5. Chunk' = Chunk
  BY DEF Chunk
<1>6. ASSUME NEW g \in HeldGates PROVE HeldSound(g)'
  BY <1>4, <1>5 DEF Pool, HeldSound, streams
<1>7. CallSound'
  BY DEF Pool, CallSound
<1> QED
  BY <1>3, <1>6, <1>7 DEF Pool

\* The polling path, and what leaves the pool to others.
LEMMA PioPool ==
  ASSUME TypeOK, Pool,
         \/ PioStart \/ PioFault \/ PioTx \/ PioRx \/ PioWait \/ PioEot \/ PioExpired \/ PioDone
  PROVE  Pool'
<1>1. pc \in PioSteps /\ pc' \in {"idle"} \cup PioSteps /\ UNCHANGED <<streams, leaked, calls>>
  BY DEF PioStart, PioFault, PioTx, PioRx, PioWait, PioEot, PioExpired, PioDone, PioAbort,
         NextChunk, Return, Goto, PioSteps, hist
<1>2. outcome = "none"
  BY <1>1 DEF Pool, CallSound, PioSteps
<1>3. outcome' = "none"
  BY <1>2 DEF PioStart, PioFault, PioTx, PioRx, PioWait, PioEot, PioExpired, PioDone, PioAbort,
         NextChunk, Return, Goto
<1>4. HeldGates = {} /\ HeldGates' = {} /\ pc # "idle"
  BY <1>1 DEF HeldGates, PioSteps, DmaSteps
<1> QED
  BY <1>1, <1>3, <1>4, NoPairPool, SpiAssumption DEF Pool, CallSound, TypeOK, HistType

\* What begins and refuses a call, and the clock.
LEMMA CallPool ==
  ASSUME TypeOK, Pool, Initialise \/ Call \/ Refused \/ Expire
  PROVE  Pool'
<1>1. CASE Initialise \/ Call \/ Refused
  <2>1. /\ pc = "idle" /\ pc' \in {"idle", "acquire_rx", "pio_start"}
        /\ UNCHANGED <<streams, leaked>>
        /\ outcome' = outcome \/ outcome' = "none"
        /\ calls' = calls \/ calls' = calls + 1
        /\ pc' # "idle" => calls' = calls + 1
    BY <1>1 DEF Initialise, Call, Refused, Return, hist
  <2>2. outcome' = "none" /\ calls \in Nat
    BY <2>1, SpiAssumption DEF Pool, CallSound, TypeOK, HistType
  <2>3. HeldGates = {} /\ HeldGates' = {}
    BY <2>1 DEF HeldGates, DmaSteps
  <2> QED
    BY <2>1, <2>2, <2>3, NoPairPool
<1>2. CASE Expire
  BY <1>2, PairPool DEF Expire, hist, Pool, CallSound, HeldGates, Started
<1> QED
  BY <1>1, <1>2

\* The controller knows nothing of streams.
LEMMA ShiftPool ==
  ASSUME TypeOK, Pool, HwShift \/ HwEndOfTransfer \/ HwFault
  PROVE  Pool'
<1>1. UNCHANGED <<pc, outcome, streams, leaked, pair, offset, calls>>
  BY DEF HwShift, HwEndOfTransfer, HwFault, hist
<1> QED
  BY <1>1, PairPool DEF Pool, CallSound, HeldGates, Started

\* The steps of the DMA path that only wait, or change the controller.
LEMMA WaitingPool ==
  ASSUME TypeOK, Pool, Enable \/ Poll \/ PollWait \/ Cleanup
  PROVE  Pool'
<1>1. /\ pc \in {"enable", "poll", "poll_wait", "cleanup"}
      /\ pc' \in {"poll", "poll_wait", "cleanup", "cleanup_rx"}
      /\ UNCHANGED <<streams, leaked, pair, offset, calls>>
  BY DEF Enable, Poll, PollWait, Cleanup, Goto, hist
<1>2. HeldGates' = HeldGates /\ Started' = Started
  BY <1>1 DEF HeldGates, Started, DmaSteps
<1>3. /\ outcome # "none" => outcome' = outcome
      /\ outcome' # "none" <=> pc' \in {"cleanup", "cleanup_rx", "cleanup_tx"}
      /\ outcome' = "OK" => outcome = "OK" \/ \A g \in Gates : flag[pair[g]] = "TC"
  BY DEF Enable, Poll, PollWait, Cleanup, Goto, Complete, Pool, CallSound
<1> QED
  BY <1>1, <1>2, <1>3, PairPool

\* A step of a stream, or of another task, that changes stream s alone.
LEMMA OneStreamPool ==
  ASSUME TypeOK, Pool, NEW s \in Streams, UNCHANGED <<pc, outcome, pair, offset, calls, leaked>>,
         \A r \in Streams \ {s} :
           /\ en'[r] = en[r] /\ stopping'[r] = stopping[r] /\ held'[r] = held[r]
           /\ owner'[r] = owner[r] /\ serves'[r] = serves[r] /\ flag'[r] = flag[r]
           /\ left'[r] = left[r] /\ into'[r] = into[r] /\ at'[r] = at[r],
         StreamSound(s)',
         \A g \in HeldGates : pair[g] = s => HeldSound(g)'
  PROVE  Pool'
<1>1. calls \in Nat /\ \A r \in Streams : into[r] \in Nat
  BY SpiAssumption DEF TypeOK, HistType, StreamsType
<1>2. HeldGates' = HeldGates /\ Started' = Started /\ (Hopeful' => Hopeful) /\ Chunk' = Chunk
  BY DEF HeldGates, Started, Hopeful, Chunk
<1>3. ASSUME NEW r \in Streams PROVE StreamSound(r)'
  BY <1>1, <1>2, StreamKept DEF Pool
<1>4. ASSUME NEW g \in HeldGates PROVE HeldSound(g)'
  <2>1. CASE pair[g] = s
    BY <2>1
  <2>2. CASE pair[g] # s
    BY <1>2, <2>2 DEF Pool, HeldSound
  <2> QED
    BY <2>1, <2>2
<1>5. CallSound'
  BY <1>2 DEF Pool, CallSound
<1> QED
  BY <1>2, <1>3, <1>4, <1>5 DEF Pool

\* A beat ends: one byte less is left, and after the last the stream is off.
LEMMA MovedPool ==
  ASSUME TypeOK, Pool, NEW s \in Streams, Moved(s), en[s], UNCHANGED <<calls, leaked>>,
         held'[s] = 0, \A r \in Streams \ {s} : held'[r] = held[r]
  PROVE  Pool'
<1>1. /\ left[s] \in Nat /\ left[s] > 0 /\ at[s] \in Nat /\ into[s] \in Nat /\ calls \in Nat
      /\ owner[s] = "spi" /\ flag[s] = "none"
  BY SpiAssumption DEF Pool, StreamSound, TypeOK, StreamsType, HistType
<1>2. /\ at'[s] = at[s] + 1 /\ left'[s] = left[s] - 1 /\ (en'[s] => left[s] > 1)
      /\ flag'[s] = (IF left[s] = 1 THEN "TC" ELSE "none")
      /\ held'[s] = 0
      /\ UNCHANGED <<pc, outcome, pair, offset, owner, stopping, serves, into>>
  BY <1>1 DEF Moved, TypeOK, StreamsType
<1>3. HeldGates' = HeldGates /\ Started' = Started /\ (Hopeful' => Hopeful) /\ Chunk' = Chunk
  BY <1>2 DEF HeldGates, Started, Hopeful, Chunk
<1>4. StreamSound(s)'
  BY <1>1, <1>2, <1>3 DEF Pool, StreamSound
<1>5. ASSUME NEW g \in HeldGates, pair[g] = s PROVE HeldSound(g)'
  BY <1>1, <1>2, <1>3, <1>5 DEF Pool, HeldSound
<1>6. \A r \in Streams \ {s} :
           /\ en'[r] = en[r] /\ flag'[r] = flag[r] /\ left'[r] = left[r] /\ at'[r] = at[r]
  BY DEF Moved, TypeOK, StreamsType
<1> QED
  BY <1>2, <1>4, <1>5, <1>6, OneStreamPool

\* The streams and the other tasks.
LEMMA EnginePool ==
  ASSUME TypeOK, Pool, NEW s \in Streams,
         \/ HwDmaTx(s) \/ HwDmaRead(s) \/ HwDmaWrite(s)
         \/ HwDmaError(s) \/ HwHalt(s) \/ OtherTask(s)
  PROVE  Pool'
<1>1. StreamSound(s) /\ \A g \in HeldGates : HeldSound(g)
  BY DEF Pool
<1>2. HeldGates' = HeldGates /\ Started' = Started /\ (Hopeful' <=> Hopeful) /\ Chunk' = Chunk
      /\ UNCHANGED <<pc, outcome, pair, offset, calls, leaked>>
  BY DEF HwDmaTx, HwDmaRead, HwDmaWrite, HwDmaError, HwHalt, OtherTask, Moved, hist,
         HeldGates, Started, Hopeful, Chunk
<1>3. CASE HwDmaTx(s)
  <2>1. held[s] = 0 /\ held' = held /\ en[s]
    BY <1>1, <1>3 DEF HwDmaTx, Requested, StreamSound
  <2> QED
    BY <1>2, <1>3, <2>1, MovedPool DEF HwDmaTx
<1>4. CASE HwDmaWrite(s)
  BY <1>1, <1>2, <1>4, MovedPool DEF HwDmaWrite, StreamSound, TypeOK, StreamsType
<1>5. CASE HwDmaRead(s)
  <2>1. UNCHANGED <<owner, en, stopping, serves, at, left, into, flag>> /\ en[s]
        /\ serves[s] = "rx" /\ \A r \in Streams \ {s} : held'[r] = held[r]
    BY <1>5 DEF HwDmaRead, Requested, TypeOK, StreamsType
  <2>2. StreamSound(s)'
    BY <1>1, <1>2, <2>1 DEF StreamSound
  <2>3. \A g \in HeldGates : HeldSound(g)'
    BY <1>1, <1>2, <2>1 DEF HeldSound
  <2> QED
    BY <1>2, <2>1, <2>2, <2>3, OneStreamPool
<1>6. CASE HwDmaError(s) \/ HwHalt(s)
  <2>1. /\ UNCHANGED <<owner, serves, at, left, into, held>> /\ held[s] = 0 /\ ~en'[s]
        /\ stopping'[s] => stopping[s]
        /\ (flag'[s] = "TE" /\ en[s]) \/ flag'[s] = flag[s]
        /\ \A r \in Streams \ {s} :
             en'[r] = en[r] /\ stopping'[r] = stopping[r] /\ flag'[r] = flag[r]
    <3>1. CASE HwDmaError(s)
      BY <3>1 DEF HwDmaError, TypeOK, StreamsType
    <3>2. CASE HwHalt(s)
      BY <3>2 DEF HwHalt, TypeOK, StreamsType
    <3> QED
      BY <1>6, <3>1, <3>2
  <2>2. StreamSound(s)'
    BY <1>1, <1>2, <2>1 DEF StreamSound
  <2>3. ASSUME NEW g \in HeldGates, pair[g] = s PROVE HeldSound(g)'
    BY <1>1, <1>2, <2>1, <2>3 DEF HeldSound, StreamSound
  <2> QED
    BY <1>2, <2>1, <2>2, <2>3, OneStreamPool
<1>7. CASE OtherTask(s)
  <2>1. /\ UNCHANGED <<en, stopping, serves, at, left, held, into, flag>>
        /\ owner[s] # "spi" /\ owner'[s] # "spi"
        /\ \A r \in Streams \ {s} : owner'[r] = owner[r]
    BY <1>7 DEF OtherTask, Lowest, Free, TypeOK, StreamsType
  <2>2. StreamSound(s)'
    BY <1>1, <1>2, <2>1 DEF StreamSound
  <2>3. ASSUME NEW g \in HeldGates, pair[g] = s PROVE FALSE
    BY <1>1, <2>1, <2>3 DEF HeldSound
  <2> QED
    BY <1>2, <2>1, <2>2, <2>3, OneStreamPool
<1> QED
  BY <1>3, <1>4, <1>5, <1>6, <1>7

\* A stream nobody holds is off.
LEMMA FreeIsOff ==
  ASSUME Pool, NEW s \in Streams, owner[s] # "spi"
  PROVE  ~en[s] /\ held[s] = 0 /\ ~stopping[s] /\ s \notin leaked
BY DEF Pool, StreamSound

\* The pair is taken from the pool, one stream after the other.
LEMMA AcquirePool ==
  ASSUME TypeOK, Pool, AcquireRx \/ AcquireTx
  PROVE  Pool'
<1>1. PICK s \in Streams, g \in Gates, step \in {"acquire_tx", "configure"} :
        /\ Lowest(s) /\ Claim(s, g, step)
        /\ \/ pc = "acquire_rx" /\ g = "rx" /\ step = "acquire_tx"
           \/ pc = "acquire_tx" /\ g = "tx" /\ step = "configure"
  BY DEF AcquireRx, AcquireTx, Gates
<1>2. /\ owner' = [owner EXCEPT ![s] = "spi"] /\ pair' = [pair EXCEPT ![g] = s]
      /\ flag' = [flag EXCEPT ![s] = "none"] /\ pc' = step
      /\ UNCHANGED <<offset, outcome, en, stopping, serves, at, left, held, into, calls, leaked>>
  BY <1>1 DEF Claim, hist
<1>3. owner[s] = "free" /\ ~en[s] /\ held[s] = 0 /\ ~stopping[s] /\ s \notin leaked
  BY <1>1, FreeIsOff DEF Lowest, Free
<1>4. /\ HeldGates' = HeldGates \cup {g} /\ g \notin HeldGates /\ Started' = {}
      /\ Hopeful' => Hopeful
  BY <1>1, <1>2 DEF HeldGates, Started, DmaSteps, Gates, Hopeful
<1>5. pair'[g] = s /\ \A h \in HeldGates : pair'[h] = pair[h] /\ pair[h] # s
  BY <1>2, <1>3, <1>4 DEF Pool, HeldSound, TypeOK, CallType
<1>6. calls \in Nat /\ \A r \in Streams : into[r] \in Nat
  BY SpiAssumption DEF TypeOK, HistType, StreamsType
<1>7. ASSUME NEW r \in Streams PROVE StreamSound(r)'
  <2>1. CASE r = s
    <3>1. owner'[s] = "spi" /\ flag'[s] = "none" /\ g \in HeldGates'
      BY <1>2, <1>4 DEF TypeOK, StreamsType
    <3> QED
      BY <1>2, <1>3, <1>5, <2>1, <3>1 DEF Pool, StreamSound
  <2>2. CASE r # s
    <3>1. owner'[r] = owner[r] /\ flag'[r] = flag[r]
      BY <1>2, <2>2 DEF TypeOK, StreamsType
    <3> QED
      BY <1>2, <1>4, <1>5, <1>6, <3>1, StreamKept DEF Pool
  <2> QED
    BY <2>1, <2>2
<1>8. outcome = "none"
  BY <1>1 DEF Pool, CallSound
<1>9. ASSUME NEW h \in HeldGates' PROVE HeldSound(h)'
  <2>1. CASE h = g
    <3>1. owner'[s] = "spi"
      BY <1>2 DEF TypeOK, StreamsType
    <3> QED
      BY <1>1, <1>2, <1>3, <1>4, <1>5, <1>8, <2>1, <3>1 DEF HeldSound
  <2>2. CASE h # g
    <3>1. h \in HeldGates /\ h \notin Started /\ pair'[h] = pair[h] /\ pair[h] \in Streams
          /\ pair[h] # s
      BY <1>1, <1>4, <1>5, <1>9, <2>2 DEF Started, Pool, HeldSound
    <3>2. owner'[pair[h]] = owner[pair[h]]
      BY <1>2, <3>1 DEF TypeOK, StreamsType
    <3> QED
      BY <1>1, <1>2, <1>4, <1>8, <3>1, <3>2 DEF Pool, HeldSound
  <2> QED
    BY <2>1, <2>2
<1>10. CallSound'
  <2>1. HeldGates' = Gates => pair'["rx"] # pair'["tx"]
    BY <1>1, <1>4, <1>5 DEF Gates
  <2> QED
    BY <1>1, <1>2, <1>8, <2>1 DEF Pool, CallSound
<1> QED
  BY <1>7, <1>9, <1>10 DEF Pool

\* A call that finds no stream, or no second one, gives back what it has.
LEMMA AcquireFailPool ==
  ASSUME TypeOK, Pool, AcquireRxFail \/ AcquireTxFail
  PROVE  Pool'
<1>1. CASE AcquireRxFail
  <2>1. HeldGates = {} /\ HeldGates' = {}
    BY <1>1 DEF AcquireRxFail, Return, HeldGates, DmaSteps
  <2> QED
    BY <1>1, <2>1, NoPairPool, SpiAssumption DEF AcquireRxFail, Return, hist, TypeOK, HistType
<1>2. CASE AcquireTxFail
  <2>1. PICK s \in Streams : s = pair["rx"] /\ HeldSound("rx")
    BY <1>2 DEF AcquireTxFail, Pool, HeldSound, HeldGates
  <2>2. /\ pc = "acquire_tx" /\ pc' = "idle" /\ outcome' = "none"
        /\ owner' = [owner EXCEPT ![s] = "free"]
        /\ UNCHANGED <<en, stopping, serves, at, left, held, into, flag, calls, leaked>>
    BY <1>2, <2>1 DEF AcquireTxFail, Return, hist
  <2>3. HeldGates = {"rx"} /\ HeldGates' = {} /\ ~Hopeful' /\ Started = {}
    BY <2>2 DEF HeldGates, Started, DmaSteps, Hopeful
  <2>4. ASSUME NEW r \in Streams PROVE StreamSound(r)'
    <3>1. owner'[r] = IF r = s THEN "free" ELSE owner[r]
      BY <2>2 DEF TypeOK, StreamsType
    <3>2. s \notin leaked /\ ~en[s]
      BY <2>1, <2>3 DEF HeldSound
    <3> QED
      BY <2>1, <2>2, <2>3, <3>1, <3>2 DEF Pool, StreamSound
  <2> QED
    BY <2>2, <2>3, <2>4 DEF Pool, CallSound, Gates
<1> QED
  BY <1>1, <1>2

\* The pair gets its request lines, and its streams start one after the other.
LEMMA StartPool ==
  ASSUME TypeOK, Pool, Configure \/ StartRx \/ StartTx
  PROVE  Pool'
<1>0. calls \in Nat /\ (\A r \in Streams : into[r] \in Nat) /\ Chunk \in Nat /\ offset \in Nat
      /\ Chunk > 0
  BY SpiAssumption, ChunkRange DEF TypeOK, HistType, StreamsType
<1>1. /\ HeldGates = Gates /\ HeldGates' = Gates /\ outcome = "none" /\ outcome' = "none"
      /\ UNCHANGED <<pair, offset, calls, leaked, owner, stopping, held>>
      /\ pc \in {"configure", "start_rx", "start_tx"}
      /\ pc' = IF pc = "configure" THEN "start_rx" ELSE IF pc = "start_rx" THEN "start_tx"
               ELSE "enable"
  BY DEF Configure, StartRx, StartTx, StartGated, Goto, hist, HeldGates, DmaSteps, Pool, CallSound
<1>2. PICK rx \in Streams, tx \in Streams :
        rx = pair["rx"] /\ tx = pair["tx"] /\ rx # tx /\ HeldSound("rx") /\ HeldSound("tx")
  BY <1>1 DEF Pool, HeldSound, CallSound, Gates
<1>3. Hopeful' => Hopeful
  BY <1>1 DEF Hopeful
<1>4. Chunk' = Chunk /\ (Started = IF pc = "start_tx" THEN {"rx"} ELSE {})
      /\ (Started' = IF pc = "configure" THEN {} ELSE IF pc = "start_rx" THEN {"rx"} ELSE Gates)
  BY <1>1 DEF Chunk, Started
<1>5. CallSound'
  BY <1>1 DEF Pool, CallSound
<1>6. CASE Configure
  <2>1. /\ serves'[rx] = "rx" /\ serves'[tx] = "tx" /\ pc = "configure"
        /\ \A r \in Streams \ {rx, tx} : serves'[r] = serves[r]
        /\ UNCHANGED <<en, at, left, into, flag>>
    BY <1>2, <1>6 DEF Configure, TypeOK, StreamsType
  <2>2. ~en[rx] /\ ~en[tx]
    BY <1>2, <1>4, <2>1 DEF HeldSound
  <2>3. ASSUME NEW r \in Streams PROVE StreamSound(r)'
    BY <1>1, <1>3, <2>1, <2>2 DEF Pool, StreamSound
  <2>4. HeldSound("rx")' /\ HeldSound("tx")'
    BY <1>1, <1>2, <1>4, <2>1, <2>2 DEF HeldSound
  <2> QED
    BY <1>1, <1>5, <2>3, <2>4 DEF Pool, Gates
<1>7. ASSUME NEW g \in Gates, NEW h \in Gates, g # h, NEW s \in Streams, s = pair[g],
             g \notin Started,
             Started' = Started \cup {g}, pc \in {"start_rx", "start_tx"},
             /\ en' = [en EXCEPT ![s] = TRUE] /\ at' = [at EXCEPT ![s] = offset]
             /\ left' = [left EXCEPT ![s] = Chunk] /\ into' = [into EXCEPT ![s] = calls]
             /\ flag' = [flag EXCEPT ![s] = "none"] /\ UNCHANGED serves
      PROVE  Pool'
  <2>1. /\ en'[s] /\ at'[s] = offset /\ left'[s] = Chunk /\ into'[s] = calls /\ flag'[s] = "none"
        /\ \A r \in Streams \ {s} :
             /\ en'[r] = en[r] /\ at'[r] = at[r] /\ left'[r] = left[r] /\ into'[r] = into[r]
             /\ flag'[r] = flag[r]
    BY <1>7 DEF TypeOK, StreamsType
  <2>2. HeldSound(g) /\ HeldSound(h) /\ pair[h] # s /\ Gates = {g, h}
    BY <1>2, <1>7 DEF Gates
  <2>3. ASSUME NEW r \in Streams PROVE StreamSound(r)'
    <3>1. CASE r = s
      <4>1. s \notin leaked /\ owner[s] = "spi" /\ ~en[s] /\ StreamSound(s)
        BY <1>7, <2>2 DEF HeldSound, Pool
      <4> QED
        BY <1>0, <1>1, <1>7, <2>1, <3>1, <4>1 DEF StreamSound
    <3>2. CASE r # s
      <4>1. /\ StreamSound(r) /\ into[r] \in Nat /\ calls' = calls /\ leaked' = leaked
            /\ en'[r] = en[r] /\ stopping'[r] = stopping[r] /\ held'[r] = held[r]
            /\ owner'[r] = owner[r] /\ serves'[r] = serves[r] /\ flag'[r] = flag[r]
            /\ left'[r] = left[r] /\ into'[r] = into[r]
        BY <1>0, <1>1, <1>7, <2>1, <3>2 DEF Pool
      <4>2. \A d \in HeldGates : pair[d] = r => d \in HeldGates' /\ pair'[d] = r
        BY <1>1
      <4> QED
        BY <1>0, <1>3, <4>1, <4>2, StreamKept
    <3> QED
      BY <3>1, <3>2
  <2>4. HeldSound(g)'
    BY <1>0, <1>1, <1>4, <1>7, <2>1, <2>2 DEF HeldSound
  <2>5. HeldSound(h)'
    BY <1>1, <1>4, <1>7, <2>1, <2>2 DEF HeldSound
  <2> QED
    BY <1>1, <1>5, <2>2, <2>3, <2>4, <2>5 DEF Pool
<1>8. CASE StartRx
  <2>1. Started = {} /\ Started' = {"rx"}
    BY <1>4, <1>8 DEF StartRx
  <2> QED
    BY <1>2, <1>7, <1>8, <2>1 DEF StartRx, StartGated, Gates
<1>9. CASE StartTx
  <2>1. Started = {"rx"} /\ Started' = {"rx", "tx"}
    BY <1>4, <1>9 DEF StartTx, Gates
  <2> QED
    BY <1>2, <1>7, <1>9, <2>1 DEF StartTx, StartGated, Gates
<1> QED
  BY <1>6, <1>8, <1>9

\* A stream given back is free and off, or lost to the driver, and then the
\* call has failed.
LEMMA GiveBackSound ==
  ASSUME TypeOK, Pool, NEW g \in HeldGates, g \in Started, GiveBack(g), UNCHANGED calls,
         HeldGates' = HeldGates \ {g}, \A h \in HeldGates' : pair'[h] = pair[h],
         Hopeful' => Hopeful /\ outcome # "none"
  PROVE  /\ \A s \in Streams : StreamSound(s)'
         /\ \A r \in Streams \ {pair[g]} :
              /\ owner'[r] = owner[r] /\ en'[r] = en[r] /\ serves'[r] = serves[r]
              /\ flag'[r] = flag[r] /\ (r \in leaked' <=> r \in leaked)
         /\ UNCHANGED <<at, left, into, held>>
<1>1. PICK s \in Streams : s = pair[g] /\ HeldSound(g)
  BY DEF Pool, HeldSound
<1>2. /\ UNCHANGED <<at, left, into, held, calls>>
      /\ \A r \in Streams \ {s} :
           /\ owner'[r] = owner[r] /\ en'[r] = en[r] /\ serves'[r] = serves[r]
           /\ flag'[r] = flag[r] /\ (r \in leaked' <=> r \in leaked) /\ stopping'[r] = stopping[r]
  BY <1>1 DEF GiveBack, TypeOK, StreamsType
<1>3. \/ /\ owner'[s] = "free" /\ ~en'[s] /\ ~stopping'[s] /\ flag'[s] = "none" /\ held[s] = 0
         /\ leaked' = leaked
      \/ /\ en[s] /\ stopping'[s] /\ s \in leaked'
         /\ UNCHANGED <<owner, en, serves, flag>>
  BY <1>1 DEF GiveBack, TypeOK, StreamsType
<1>4. calls \in Nat /\ \A r \in Streams : into[r] \in Nat
  BY SpiAssumption DEF TypeOK, HistType, StreamsType
<1>5. ASSUME NEW r \in Streams PROVE StreamSound(r)'
  <2>1. CASE r = s
    <3>1. StreamSound(s) /\ s \notin leaked
      BY <1>1 DEF Pool, HeldSound
    <3>2. en[s] => ~Hopeful'
      BY <1>1, <3>1 DEF HeldSound, StreamSound, Hopeful
    <3> QED
      BY <1>2, <1>3, <2>1, <3>1, <3>2 DEF StreamSound
  <2>2. CASE r # s
    <3>1. /\ StreamSound(r) /\ into[r] \in Nat /\ calls' = calls
          /\ en'[r] = en[r] /\ stopping'[r] = stopping[r] /\ held'[r] = held[r]
          /\ owner'[r] = owner[r] /\ serves'[r] = serves[r] /\ flag'[r] = flag[r]
          /\ left'[r] = left[r] /\ into'[r] = into[r] /\ (r \in leaked' <=> r \in leaked)
      BY <1>2, <1>4, <2>2 DEF Pool
    <3>2. \A h \in HeldGates : pair[h] = r => h \in HeldGates' /\ pair'[h] = r
      BY <1>1, <2>2
    <3> QED
      BY <1>4, <3>1, <3>2, StreamKept
  <2> QED
    BY <2>1, <2>2
<1> QED
  BY <1>1, <1>2, <1>5

\* The pair goes back.
LEMMA CleanupPool ==
  ASSUME TypeOK, Pool, CleanupRx \/ CleanupTx
  PROVE  Pool'
<1>1. CASE CleanupRx
  <2>1. /\ pc = "cleanup_rx" /\ pc' = "cleanup_tx" /\ GiveBack("rx")
        /\ UNCHANGED <<pair, offset, outcome, calls>>
    BY <1>1 DEF CleanupRx, Goto
  <2>2. /\ HeldGates = Gates /\ HeldGates' = {"tx"} /\ Started = Gates /\ Started' = {"tx"}
        /\ (Hopeful' => Hopeful) /\ outcome # "none" /\ Chunk' = Chunk /\ "rx" \in Gates
        /\ "tx" \in Gates /\ HeldGates' = HeldGates \ {"rx"}
    BY <2>1 DEF HeldGates, Started, DmaSteps, Gates, Hopeful, Pool, CallSound, Chunk
  <2>3. /\ \A s \in Streams : StreamSound(s)'
        /\ \A r \in Streams \ {pair["rx"]} :
              /\ owner'[r] = owner[r] /\ en'[r] = en[r] /\ serves'[r] = serves[r]
              /\ flag'[r] = flag[r] /\ (r \in leaked' <=> r \in leaked)
        /\ UNCHANGED <<at, left, into, held>>
    BY <2>1, <2>2, GiveBackSound
  <2>4. HeldSound("tx") /\ pair["tx"] # pair["rx"]
    BY <2>2 DEF Pool, CallSound
  <2>5. HeldSound("tx")'
    BY <2>1, <2>2, <2>3, <2>4 DEF HeldSound
  <2>6. CallSound'
    BY <2>1, <2>2 DEF Pool, CallSound, Gates
  <2> QED
    BY <2>2, <2>3, <2>5, <2>6 DEF Pool
<1>2. CASE CleanupTx
  <2>1. /\ pc = "cleanup_tx" /\ pc' \in {"acquire_rx", "idle"} /\ GiveBack("tx")
        /\ outcome' = "none" /\ UNCHANGED calls
        /\ pc' = "acquire_rx" => outcome = "OK"
    BY <1>2 DEF CleanupTx, NextChunk, Return
  <2>2. /\ HeldGates = {"tx"} /\ HeldGates' = {} /\ Started = {"tx"}
        /\ Hopeful' => Hopeful /\ outcome # "none"
    BY <2>1 DEF HeldGates, Started, DmaSteps, Hopeful
  <2>3. \A s \in Streams : StreamSound(s)'
    BY <2>1, <2>2, GiveBackSound
  <2>4. CallSound'
    BY <2>1, <2>2 DEF Pool, CallSound, Gates
  <2> QED
    BY <2>2, <2>3, <2>4 DEF Pool
<1> QED
  BY <1>1, <1>2

\* That the pool is sound is inductive.
LEMMA NextPool == TypeOK /\ Pool /\ [Next]_vars => Pool'
<1> SUFFICES ASSUME TypeOK, Pool, [Next]_vars PROVE Pool'
  OBVIOUS
<1>1. CASE UNCHANGED vars
  BY <1>1, PairPool DEF vars, software, hist, Pool, CallSound, HeldGates, Started
<1>2. CASE Running
  BY <1>2, PioPool, AcquirePool, AcquireFailPool, StartPool, WaitingPool, CleanupPool DEF Running
<1>3. CASE \/ Transferring \/ HwFault
           \/ \E s \in Streams : HwDmaError(s) \/ HwHalt(s) \/ OtherTask(s)
  BY <1>3, ShiftPool, EnginePool DEF Transferring
<1> QED
  BY <1>1, <1>2, <1>3, CallPool DEF Next

LEMMA PoolInv == Spec => [](TypeOK /\ Pool)
BY InitTypeOK, InitPool, NextTypeOK, NextPool, PTL DEF Spec

\* Between calls the driver holds no stream but those that would not stop, and
\* a pair it has just been given is two streams that are off.
THEOREM StreamsAreGivenBack == Spec => []StreamsComeBack
<1>1. TypeOK /\ Pool => StreamsComeBack
  <2> SUFFICES ASSUME TypeOK, Pool PROVE StreamsComeBack
    OBVIOUS
  <2>1. ASSUME pc = "idle", NEW s \in Streams, owner[s] = "spi" PROVE s \in leaked
    BY <2>1 DEF Pool, StreamSound, HeldGates, DmaSteps
  <2>2. ASSUME pc \in {"configure", "start_rx"}
        PROVE  /\ pair["rx"] # pair["tx"]
               /\ \A g \in Gates : ~en[pair[g]] /\ held[pair[g]] = 0
    <3>1. HeldGates = Gates /\ Started = {}
      BY <2>2 DEF HeldGates, Started, DmaSteps
    <3> QED
      BY <3>1 DEF Pool, HeldSound, StreamSound, CallSound
  <2> QED
    BY <2>1, <2>2 DEF StreamsComeBack
<1> QED
  BY <1>1, PoolInv, PTL

\* Nothing writes to the buffer of a finished call but the last beat of a
\* stream that would not stop and that the pool has not been given.
THEOREM BuffersAreGivenBack == Spec => BuffersComeBack
<1>1. ASSUME TypeOK, Pool, Next, NEW c \in DOMAIN buffer, buffer'[c] # buffer[c]
      PROVE  \/ pc # "idle" /\ c = calls
             \/ \E s \in leaked : held[s] # 0 /\ owner[s] = "spi"
  <2>1. PioRx \/ \E s \in Streams : HwDmaWrite(s)
    BY <1>1 DEF Next, Initialise, Call, Refused, Expire, Running, PioStart, PioFault, PioTx,
       PioWait, PioEot, PioExpired, PioDone, PioAbort, AcquireRx, AcquireRxFail, AcquireTx,
       AcquireTxFail, Claim, Configure, StartRx, StartTx, StartGated, Enable, Poll, PollWait,
       Cleanup, CleanupRx, CleanupTx, Transferring, HwShift, HwEndOfTransfer, HwFault, HwDmaTx,
       HwDmaRead, HwDmaError, HwHalt, OtherTask, hist
  <2>2. CASE PioRx
    <3>1. c = calls
      BY <1>1, <2>2 DEF PioRx, TypeOK, HistType
    <3> QED
      BY <2>2, <3>1 DEF PioRx
  <2>3. ASSUME NEW s \in Streams, HwDmaWrite(s)
        PROVE  \/ pc # "idle" /\ c = calls
               \/ \E r \in leaked : held[r] # 0 /\ owner[r] = "spi"
    <3>1. held[s] # 0 /\ en[s] /\ owner[s] = "spi" /\ StreamSound(s)
      BY <1>1, <2>3 DEF HwDmaWrite, Pool, StreamSound
    <3>2. c = into[s]
      BY <1>1, <2>3 DEF HwDmaWrite, TypeOK, HistType
    <3>3. CASE s \notin leaked
      <4>1. PICK g \in HeldGates : pair[g] = s /\ HeldSound(g)
        BY <1>1, <3>1, <3>3 DEF StreamSound, Pool
      <4>2. into[s] = calls /\ pc # "idle"
        BY <3>1, <4>1 DEF HeldSound, HeldGates, DmaSteps
      <4> QED
        BY <3>2, <4>2
    <3> QED
      BY <3>1, <3>3
  <2> QED
    BY <2>1, <2>2, <2>3
<1>2. TypeOK /\ Pool /\ [Next]_vars =>
        [\A c \in DOMAIN buffer : buffer'[c] # buffer[c] =>
           \/ pc # "idle" /\ c = calls
           \/ \E s \in leaked : held[s] # 0 /\ owner[s] = "spi"]_vars
  BY <1>1
<1> QED
  BY <1>2, PoolInv, PTL DEF Spec, BuffersComeBack

-----------------------------------------------------------------------------
(***************************************************************************)
(* The bytes.  While the controller is on, every byte of the chunk is in   *)
(* one place: still to be fed, in the transmit FIFO, on the wire with its  *)
(* answer in the receive FIFO or in a beat, or in the caller's buffer.     *)
(***************************************************************************)
Polling == pc \in PioSteps

\* Bytes of the transfer that were fed to the controller, and stored.
Fed    == IF Polling THEN offset + txIndex ELSE at[pair["tx"]]
Stored == IF Polling THEN offset + rxIndex ELSE at[pair["rx"]]
Beat   == IF Polling \/ held[pair["rx"]] = 0 THEN 0 ELSE 1

\* Sequence q counts up from n.
CountsFrom(q, n) == \A k \in 1 .. Len(q) : q[k] + 1 = n + k
\* The answers to the first n bytes are in their places.
Filled(n) == \A b \in Byte : b < n => buffer[calls][b] = b + 1

\* Bytes w on the wire, bytes tx and answers rx in the FIFOs, when f bytes were
\* fed to the controller, and t answers are stored and b in a beat.
Flow(w, tx, rx, f, t, b) ==
  /\ CountsFrom(w, 0)
  /\ CountsFrom(tx, Len(w)) /\ Len(w) + Len(tx) = f
  /\ CountsFrom(rx, t + b + 1) /\ t + b + Len(rx) = Len(w)

\* Bytes of the chunks that are over.
Done == IF pc \in {"cleanup_rx", "cleanup_tx"} THEN offset + Chunk ELSE offset

On ==
  /\ Len(wire) = offset + shifted /\ shifted <= Chunk
  /\ Flow(wire, txFifo, rxFifo, Fed, Stored, Beat)
  /\ Beat = 1 => held[pair["rx"]] = Stored + 1
  /\ Filled(Stored)
  /\ eot => shifted = Chunk
  /\ outcome = "OK" => shifted = Chunk

\* A controller that is off holds nothing; the chunks that are over are whole.
Cleared == txFifo = <<>> /\ rxFifo = <<>> /\ shifted = 0 /\ ~eot
Whole   == Len(wire) = Done /\ CountsFrom(wire, 0) /\ Filled(Done)

Data ==
  /\ spe <=> pc \in OnSteps
  /\ spe /\ Hopeful => On
  /\ ~spe => Cleared
  /\ ~spe /\ Hopeful => Whole
  /\ pc = "idle" => offset = 0
  /\ pc \in {"idle", "pio_start"} => txIndex = 0 /\ rxIndex = 0
  /\ Polling => txIndex <= Chunk /\ rxIndex <= Chunk
  /\ pc \in {"pio_eot", "pio_eot_wait"} => rxIndex = Chunk
  /\ pc \in {"start_tx", "enable"} => at[pair["rx"]] = offset /\ held[pair["rx"]] = 0
  /\ pc = "enable" => at[pair["tx"]] = offset

\* A byte put at the end, or taken from the front, of what counts up.
LEMMA CountsAppend ==
  ASSUME NEW q \in Seq(Nat), NEW n \in Nat, CountsFrom(q, n), NEW e, e = n + Len(q)
  PROVE  /\ Append(q, e) \in Seq(Nat) /\ Len(Append(q, e)) = Len(q) + 1
         /\ CountsFrom(Append(q, e), n)
<1>1. Len(q) \in Nat /\ e \in Nat
  OBVIOUS
<1>2. Append(q, e) \in Seq(Nat) /\ Len(Append(q, e)) = Len(q) + 1
  BY <1>1
<1>3. ASSUME NEW k \in 1 .. Len(q) + 1 PROVE Append(q, e)[k] + 1 = n + k
  <2>1. CASE k = Len(q) + 1
    BY <1>1, <2>1
  <2>2. CASE k # Len(q) + 1
    <3>1. k \in 1 .. Len(q) /\ Append(q, e)[k] = q[k]
      BY <1>1, <2>2
    <3> QED
      BY <3>1 DEF CountsFrom
  <2> QED
    BY <2>1, <2>2
<1> QED
  BY <1>2, <1>3 DEF CountsFrom

LEMMA CountsTail ==
  ASSUME NEW q \in Seq(Nat), NEW n \in Nat, CountsFrom(q, n), q # <<>>
  PROVE  /\ Tail(q) \in Seq(Nat) /\ Len(Tail(q)) + 1 = Len(q)
         /\ Head(q) \in Nat /\ Head(q) + 1 = n + 1 /\ CountsFrom(Tail(q), n + 1)
<1>1. Tail(q) \in Seq(Nat) /\ Len(Tail(q)) + 1 = Len(q) /\ Head(q) = q[1] /\ Len(q) \in Nat
      /\ Head(q) \in Nat /\ 1 \in 1 .. Len(q)
  OBVIOUS
<1>2. ASSUME NEW k \in 1 .. Len(Tail(q)) PROVE Tail(q)[k] + 1 = n + 1 + k
  <2>1. k + 1 \in 1 .. Len(q) /\ Tail(q)[k] = q[k + 1]
    BY <1>1
  <2> QED
    BY <2>1 DEF CountsFrom
<1> QED
  BY <1>1, <1>2 DEF CountsFrom

LEMMA CountsNothing == \A n \in Nat : CountsFrom(<<>>, n) /\ Len(<<>>) = 0
BY DEF CountsFrom

\* A byte is fed, shifted out and answered, taken into a beat, and stored.
LEMMA FlowSteps ==
  ASSUME NEW w \in Seq(Nat), NEW tx \in Seq(Nat), NEW rx \in Seq(Nat),
         NEW f \in Nat, NEW t \in Nat, NEW b \in Nat, Flow(w, tx, rx, f, t, b)
  PROVE  /\ Flow(w, Append(tx, f), rx, f + 1, t, b)
         /\ tx # <<>> => /\ Flow(Append(w, Head(tx)), Tail(tx), Append(rx, Len(w) + 1), f, t, b)
                         /\ Len(Append(w, Head(tx))) = Len(w) + 1
         /\ rx # <<>> => Flow(w, tx, Tail(rx), f, t, b + 1) /\ Head(rx) = t + b + 1
         /\ b = 1 => Flow(w, tx, rx, f, t + 1, 0)
<1> DEFINE n == Len(w)  m == Len(tx)  l == Len(rx)
<1>0. n \in Nat /\ m \in Nat /\ l \in Nat
  OBVIOUS
<1>a. n + m = f /\ t + b + l = n
  BY DEF Flow
<1>b. f = n + m /\ n + 1 = t + b + 1 + l
  <2> HIDE DEF n, m, l
  <2> QED BY <1>0, <1>a
<1>1. /\ Len(w) \in Nat /\ Len(tx) \in Nat /\ Len(rx) \in Nat
      /\ f = Len(w) + Len(tx) /\ Len(w) + 1 = t + b + 1 + Len(rx)
      /\ CountsFrom(w, 0) /\ CountsFrom(tx, Len(w)) /\ CountsFrom(rx, t + b + 1)
  BY <1>0, <1>b DEF Flow
<1>2. Flow(w, Append(tx, f), rx, f + 1, t, b)
  <2>1. Len(Append(tx, f)) = Len(tx) + 1 /\ CountsFrom(Append(tx, f), Len(w))
    BY <1>1, CountsAppend
  <2> QED
    BY <1>1, <2>1 DEF Flow
<1>3. ASSUME tx # <<>>
      PROVE  /\ Flow(Append(w, Head(tx)), Tail(tx), Append(rx, Len(w) + 1), f, t, b)
             /\ Len(Append(w, Head(tx))) = Len(w) + 1
  <2>1. /\ Len(Tail(tx)) + 1 = Len(tx) /\ Head(tx) = Len(w) /\ CountsFrom(Tail(tx), Len(w) + 1)
        /\ Tail(tx) \in Seq(Nat)
    BY <1>1, <1>3, CountsTail
  <2>2. Len(Append(w, Head(tx))) = Len(w) + 1 /\ CountsFrom(Append(w, Head(tx)), 0)
    BY <1>1, <2>1, CountsAppend
  <2>3. /\ Len(Append(rx, Len(w) + 1)) = Len(rx) + 1
        /\ CountsFrom(Append(rx, Len(w) + 1), t + b + 1)
    BY <1>1, CountsAppend
  <2>4. Len(Tail(tx)) \in Nat
    BY <2>1
  <2> QED
    BY <1>1, <2>1, <2>2, <2>3, <2>4 DEF Flow
<1>4. ASSUME rx # <<>>
      PROVE  Flow(w, tx, Tail(rx), f, t, b + 1) /\ Head(rx) = t + b + 1
  <2>1. /\ Len(Tail(rx)) + 1 = Len(rx) /\ Head(rx) \in Nat /\ Head(rx) + 1 = t + b + 1 + 1
        /\ CountsFrom(Tail(rx), t + b + 1 + 1) /\ Tail(rx) \in Seq(Nat)
    BY <1>1, <1>4, CountsTail
  <2>2. CountsFrom(Tail(rx), t + (b + 1) + 1)
    <3>1. t + b + 1 + 1 = t + (b + 1) + 1
      OBVIOUS
    <3> QED
      BY <2>1, <3>1
  <2> DEFINE h == Head(rx)
  <2>3. h = t + b + 1
    <3>1. h \in Nat /\ h + 1 = t + b + 1 + 1
      BY <2>1
    <3> HIDE DEF h
    <3> QED
      BY <3>1
  <2> DEFINE k == Len(Tail(rx))
  <2>4. k \in Nat /\ k + 1 = l
    BY <2>1
  <2>5. t + (b + 1) + k = n
    <3> HIDE DEF k, l, n
    <3> QED BY <1>0, <1>a, <2>4
  <2> QED
    BY <1>1, <2>2, <2>3, <2>5 DEF Flow
<1>5. ASSUME b = 1 PROVE Flow(w, tx, rx, f, t + 1, 0)
  <2>1. t + b + 1 = t + 1 + 0 + 1
    BY <1>5
  <2> QED
    BY <1>1, <1>5, <2>1 DEF Flow
<1> QED
  BY <1>2, <1>3, <1>4, <1>5

\* A byte stored after the first n: the first n + 1 are in their places.
LEMMA FilledMore ==
  ASSUME TypeOK, calls \in 1 .. MaxCalls, NEW n \in Nat, Filled(n),
         buffer' = [buffer EXCEPT ![calls][n] = n + 1]
  PROVE  \A b \in Byte : b < n + 1 => buffer'[calls][b] = b + 1
<1> SUFFICES ASSUME NEW b \in Byte, b < n + 1 PROVE buffer'[calls][b] = b + 1
  OBVIOUS
<1>1. buffer[calls] \in [Byte -> Nat] /\ buffer'[calls] = [buffer[calls] EXCEPT ![n] = n + 1]
  BY DEF TypeOK, HistType
<1>2. b \in Nat
  BY SpiAssumption DEF Byte
<1> QED
  BY <1>1, <1>2 DEF Filled

\* What neither feeds the controller, shifts nor stores.
LEMMA OnKept ==
  ASSUME On, Fed' = Fed, Stored' = Stored, Beat' = Beat,
         Beat = 1 => held'[pair'["rx"]] = held[pair["rx"]],
         UNCHANGED <<offset, shifted, txFifo, rxFifo, wire, calls>>,
         buffer'[calls] = buffer[calls],
         eot' \/ outcome' = "OK" => shifted = Chunk
  PROVE  On'
BY DEF On, Flow, CountsFrom, Filled, Chunk

LEMMA OnFed ==
  ASSUME TypeOK, On, Fed \in Nat, Stored \in Nat, Beat \in Nat,
         txFifo' = Append(txFifo, Fed), Fed' = Fed + 1, Stored' = Stored, Beat' = Beat,
         UNCHANGED <<offset, shifted, rxFifo, wire, buffer, calls, eot, outcome, held, pair>>
  PROVE  On'
<1>1. Flow(wire, Append(txFifo, Fed), rxFifo, Fed + 1, Stored, Beat)
  BY FlowSteps DEF On, TypeOK, SpiType, HistType
<1> QED
  BY <1>1 DEF On, Filled, Chunk

LEMMA OnShift ==
  ASSUME TypeOK, On, HwShift, Fed' = Fed, Stored' = Stored, Beat' = Beat,
         Fed \in Nat, Stored \in Nat, Beat \in Nat
  PROVE  On'
<1>1. wire \in Seq(Nat) /\ txFifo \in Seq(Nat) /\ rxFifo \in Seq(Nat) /\ shifted \in Nat
      /\ offset \in Nat /\ Chunk \in Nat
  BY ChunkRange DEF TypeOK, HistType, SpiType
<1>2. /\ UNCHANGED <<offset, pair, held, buffer, calls, eot, outcome>> /\ txFifo # <<>>
      /\ shifted' = shifted + 1 /\ shifted < Chunk
      /\ wire' = Append(wire, Head(txFifo)) /\ txFifo' = Tail(txFifo)
      /\ rxFifo' = Append(rxFifo, Len(wire) + 1)
  BY DEF HwShift, streams
<1>3. Flow(wire', txFifo', rxFifo', Fed, Stored, Beat) /\ Len(wire') = Len(wire) + 1
  BY <1>1, <1>2, FlowSteps DEF On
<1>4. ~eot /\ outcome # "OK" /\ Chunk' = Chunk
  <2>1. Chunk' = Chunk
    BY <1>2 DEF Chunk
  <2>2. shifted # Chunk
    BY <1>1, <1>2
  <2> QED
    BY <2>1, <2>2 DEF On
<1>5. Len(wire') = offset + shifted' /\ shifted' <= Chunk
  <2>1. Len(wire) = offset + shifted
    BY DEF On
  <2> QED
    BY <1>1, <1>2, <1>3, <2>1
<1> QED
  BY <1>2, <1>3, <1>4, <1>5 DEF On, Filled

\* A byte leaves the receive FIFO, for a beat or for the buffer.
LEMMA OnTaken ==
  ASSUME TypeOK, On, Fed \in Nat, Stored \in Nat, Beat = 0, rxFifo # <<>>, rxFifo' = Tail(rxFifo),
         Fed' = Fed, calls \in 1 .. MaxCalls,
         UNCHANGED <<offset, shifted, txFifo, wire, calls, eot, outcome>>,
         \/ /\ Stored' = Stored /\ Beat' = 1 /\ buffer' = buffer
            /\ held'[pair'["rx"]] = Head(rxFifo)
         \/ /\ Stored' = Stored + 1 /\ Beat' = 0
            /\ buffer' = [buffer EXCEPT ![calls][Stored] = Head(rxFifo)]
  PROVE  On'
<1>1. wire \in Seq(Nat) /\ txFifo \in Seq(Nat) /\ rxFifo \in Seq(Nat) /\ Tail(rxFifo) \in Seq(Nat)
      /\ Chunk' = Chunk
  BY DEF TypeOK, SpiType, HistType, Chunk
<1>2. Flow(wire, txFifo, rxFifo', Fed, Stored, 1) /\ Head(rxFifo) = Stored + 1
  <2>1. Flow(wire, txFifo, rxFifo, Fed, Stored, 0)
    BY DEF On
  <2>2. PICK f \in Nat, t \in Nat, b \in Nat : f = Fed /\ t = Stored /\ b = 0
    OBVIOUS
  <2>3. Flow(wire, txFifo, rxFifo, f, t, b)
    BY <2>1, <2>2
  <2>4. Flow(wire, txFifo, Tail(rxFifo), f, t, b + 1) /\ Head(rxFifo) = t + b + 1
    BY <1>1, <2>3, FlowSteps
  <2>5. b + 1 = 1 /\ t + b + 1 = t + 1
    BY <2>2
  <2> QED
    BY <2>2, <2>4, <2>5
<1>3. Flow(wire, txFifo, rxFifo', Fed, Stored + 1, 0)
  BY <1>1, <1>2, FlowSteps
<1>4. CASE Stored' = Stored /\ Beat' = 1 /\ buffer' = buffer /\ held'[pair'["rx"]] = Head(rxFifo)
  BY <1>1, <1>2, <1>4 DEF On, Filled
<1>5. CASE /\ Stored' = Stored + 1 /\ Beat' = 0
           /\ buffer' = [buffer EXCEPT ![calls][Stored] = Head(rxFifo)]
  <2>1. PICK m \in Nat : m = Stored
    OBVIOUS
  <2>2. \A b \in Byte : b < m + 1 => buffer'[calls][b] = b + 1
    BY <1>2, <1>5, <2>1, FilledMore DEF On
  <2> QED
    BY <1>1, <1>3, <1>5, <2>1, <2>2 DEF On, Filled
<1> QED
  BY <1>4, <1>5

\* A beat ends in the buffer.
LEMMA OnLanded ==
  ASSUME TypeOK, On, Fed \in Nat, Stored \in Nat, Beat = 1, Fed' = Fed, Stored' = Stored + 1,
         Beat' = 0, calls \in 1 .. MaxCalls,
         buffer' = [buffer EXCEPT ![calls][Stored] = held[pair["rx"]]],
         UNCHANGED <<offset, shifted, txFifo, rxFifo, wire, calls, eot, outcome>>
  PROVE  On'
<1>1. PICK m \in Nat : m = Stored
  OBVIOUS
<1>2. held[pair["rx"]] = m + 1 /\ Filled(m) /\ Chunk' = Chunk
  BY <1>1 DEF On, Chunk
<1>3. \A b \in Byte : b < m + 1 => buffer'[calls][b] = b + 1
  BY <1>1, <1>2, FilledMore
<1>4. Flow(wire, txFifo, rxFifo, Fed, m + 1, 0)
  BY <1>1, FlowSteps DEF On, TypeOK, SpiType, HistType
<1> QED
  BY <1>1, <1>2, <1>3, <1>4 DEF On, Filled

\* Where the bytes of a call in progress are.
LEMMA Places ==
  ASSUME TypeOK, Pool, pc \in OnSteps
  PROVE  /\ Fed \in Nat /\ Stored \in Nat /\ Beat \in {0, 1} /\ Beat \in Nat
         /\ calls \in 1 .. MaxCalls /\ pc # "idle"
         /\ ~Polling => /\ HeldGates = Gates /\ HeldSound("rx") /\ HeldSound("tx")
                        /\ Started = Gates /\ pair["rx"] # pair["tx"]
<1>1. pc # "idle" /\ calls \in 1 .. MaxCalls
  BY SpiAssumption DEF OnSteps, Pool, CallSound, TypeOK, HistType
<1>2. CASE Polling
  BY <1>1, <1>2, ChunkRange DEF Fed, Stored, Beat, TypeOK, CallType
<1>3. CASE ~Polling
  <2>1. HeldGates = Gates /\ Started = Gates
    BY <1>3 DEF Polling, OnSteps, PioSteps, HeldGates, Started, DmaSteps
  <2>2. HeldSound("rx") /\ HeldSound("tx") /\ pair["rx"] # pair["tx"]
    BY <2>1 DEF Pool, CallSound, Gates
  <2>3. Fed \in Nat /\ Stored \in Nat
    BY <1>3, <2>2 DEF Fed, Stored, TypeOK, StreamsType, HeldSound
  <2> QED
    BY <1>1, <2>1, <2>2, <2>3 DEF Beat
<1> QED
  BY <1>2, <1>3

LEMMA InitData == Init => Data
<1> SUFFICES ASSUME Init PROVE Data
  OBVIOUS
<1>1. pc = "idle" /\ ~spe /\ ~Hopeful /\ Cleared /\ offset = 0 /\ txIndex = 0 /\ rxIndex = 0
  BY DEF Init, Hopeful, Cleared
<1> QED
  BY <1>1 DEF Data, OnSteps, Polling, PioSteps

\* Time, other tasks and the end of the chunk's frame move no byte.
LEMMA QuietData ==
  ASSUME TypeOK, Pool, Data,
         UNCHANGED <<pc, outcome, offset, txIndex, rxIndex, pair, at, held, calls>>,
         UNCHANGED <<spe, txFifo, rxFifo, shifted, wire, buffer>>,
         eot' => eot \/ (spe /\ shifted = Chunk)
  PROVE  Data'
<1>1. Fed' = Fed /\ Stored' = Stored /\ Beat' = Beat /\ Polling' = Polling /\ Chunk' = Chunk
      /\ Hopeful' = Hopeful
  BY DEF Fed, Stored, Beat, Polling, Chunk, Hopeful
<1>2. ASSUME spe, Hopeful PROVE On'
  <2>1. eot' \/ outcome' = "OK" => shifted = Chunk
    BY <1>2 DEF Data, On
  <2>2. On
    BY <1>2 DEF Data
  <2> QED
    BY <1>1, <2>1, <2>2, OnKept
<1>3. ASSUME ~spe PROVE Cleared' /\ (Hopeful => Whole')
  <2>1. Done' = Done
    BY <1>1 DEF Done
  <2> QED
    BY <1>3, <2>1 DEF Data, Cleared, Whole, Filled
<1> QED
  BY <1>1, <1>2, <1>3 DEF Data

\* A call begins, is refused, or the controller is set up between two calls.
LEMMA CallData ==
  ASSUME TypeOK, Pool, Data, Initialise \/ Call \/ Refused
  PROVE  Data'
<1>1. pc = "idle" /\ ~spe /\ offset = 0 /\ txIndex = 0 /\ rxIndex = 0 /\ Cleared
  BY DEF Initialise, Call, Refused, Data, OnSteps
<1>2. CASE Call
  <2>1. /\ pc' \in {"acquire_rx", "pio_start"} /\ calls' = calls + 1 /\ wire' = <<>>
        /\ UNCHANGED <<offset, txIndex, rxIndex, spe, txFifo, rxFifo, shifted, eot>>
    BY <1>2 DEF Call, spi
  <2>2. Cleared' /\ ~spe' /\ offset' = 0 /\ txIndex' = 0 /\ rxIndex' = 0
    BY <1>1, <2>1 DEF Cleared
  <2>3. Whole'
    <3>1. Done' = 0
      BY <2>1, <2>2 DEF Done
    <3>2. \A b \in Byte : ~(b < 0)
      BY SpiAssumption DEF Byte
    <3> QED
      BY <2>1, <3>1, <3>2, CountsNothing DEF Whole, CountsFrom, Filled
  <2>4. Chunk' \in Nat
    BY <2>2, SpiAssumption DEF Chunk
  <2> QED
    BY <2>1, <2>2, <2>3, <2>4 DEF Data, OnSteps
<1>3. CASE Initialise \/ Refused
  <2>1. /\ pc' = "idle" /\ offset' = 0 /\ txIndex' = 0 /\ rxIndex' = 0
        /\ ~spe' /\ Cleared'
    BY <1>1, <1>3 DEF Initialise, Refused, Return, Off, Cleared, spi
  <2> QED
    BY <2>1 DEF Data, OnSteps, Hopeful, Polling, PioSteps
<1> QED
  BY <1>2, <1>3

\* A call that has gone wrong, or is over, leaves the controller off.
LEMMA IdleData ==
  ASSUME TypeOK, pc' = "idle", offset' = 0, txIndex' = 0, rxIndex' = 0,
         ~spe', Cleared'
  PROVE  Data'
BY DEF Data, OnSteps, Hopeful, Polling, PioSteps

\* The polling path.
LEMMA PioData ==
  ASSUME TypeOK, Pool, Data,
         \/ PioStart \/ PioFault \/ PioTx \/ PioRx \/ PioWait \/ PioEot \/ PioExpired \/ PioDone
  PROVE  Data'
<1>1. pc \in PioSteps /\ Polling
  BY DEF PioStart, PioFault, PioTx, PioRx, PioWait, PioEot, PioExpired, PioDone, PioSteps, Polling
<1>2. outcome = "none" /\ Hopeful
  BY <1>1 DEF Pool, CallSound, PioSteps, Hopeful
<1>3. CASE PioFault \/ PioExpired
  BY <1>3, IdleData DEF PioFault, PioExpired, PioAbort, Off, Return, Cleared
<1>4. CASE PioStart
  <2>1. /\ pc = "pio_start" /\ pc' = "pio_tx" /\ spe' /\ ~eot' /\ txFifo' = <<>> /\ rxFifo' = <<>>
        /\ shifted' = 0
        /\ UNCHANGED <<offset, txIndex, rxIndex, outcome, wire, buffer, calls>>
    BY <1>4 DEF PioStart, Goto, hist
  <2>2. txIndex = 0 /\ rxIndex = 0 /\ Whole /\ Done = offset /\ offset \in Nat
    BY <1>2, <2>1, ChunkRange DEF Data, OnSteps, Done
  <2>3. Polling' /\ Fed' = offset /\ Stored' = offset /\ Beat' = 0 /\ Chunk' = Chunk
    BY <2>1, <2>2 DEF Polling, PioSteps, Fed, Stored, Beat, Chunk
  <2>4. On'
    <3>1. Flow(wire, <<>>, <<>>, offset, offset, 0)
      BY <2>2, CountsNothing DEF Flow, Whole, CountsFrom
    <3> QED
      BY <1>2, <2>1, <2>2, <2>3, <3>1, ChunkRange DEF On, Whole, Filled
  <2> QED
    BY <2>1, <2>2, <2>3, <2>4, ChunkRange DEF Data, OnSteps
<1>5. ASSUME pc \in PioSteps \ {"pio_start"}
      PROVE  spe /\ On /\ pc \in OnSteps /\ Fed \in Nat /\ Stored \in Nat /\ Beat = 0
             /\ calls \in 1 .. MaxCalls
  BY <1>1, <1>2, <1>5, Places DEF Data, OnSteps, PioSteps, Beat
<1>6. CASE PioTx
  <2>1. /\ pc = "pio_tx" /\ pc' = "pio_rx"
        /\ UNCHANGED <<offset, outcome, pair, rxIndex, spe, rxFifo, shifted, eot, held>>
        /\ UNCHANGED <<wire, buffer, calls>>
    BY <1>6 DEF PioTx, hist, streams
  <2>2. Polling' /\ Stored' = Stored /\ Beat' = Beat /\ Chunk' = Chunk
    BY <1>1, <2>1 DEF Polling, PioSteps, Stored, Beat, Chunk
  <2>3. spe /\ On /\ Fed \in Nat /\ Stored \in Nat /\ Beat = 0
    BY <1>5, <2>1 DEF PioSteps
  <2>4. Fed = offset + txIndex /\ Fed' = offset + txIndex' /\ txIndex \in Nat /\ rxIndex \in Nat
        /\ offset \in Nat /\ Chunk \in Nat
    BY <1>1, <2>1, <2>2, ChunkRange DEF Fed, TypeOK, CallType
  <2>5. On' /\ txIndex' <= Chunk
    <3>1. CASE /\ txIndex < Chunk /\ txFifo' = Append(txFifo, offset + txIndex)
               /\ txIndex' = txIndex + 1
      <4>1. Fed' = Fed + 1 /\ txIndex' <= Chunk /\ Beat \in Nat
        BY <2>3, <2>4, <3>1
      <4> QED
        BY <2>1, <2>2, <2>3, <2>4, <3>1, <4>1, OnFed
    <3>2. CASE txFifo' = txFifo /\ txIndex' = txIndex
      <4>1. Fed' = Fed /\ txIndex' <= Chunk
        BY <1>1, <2>4, <3>2 DEF Data
      <4>2. On'
        BY <2>1, <2>2, <2>3, <3>2, <4>1, OnKept DEF On
      <4> QED
        BY <4>1, <4>2
    <3> QED
      BY <1>6, <3>1, <3>2 DEF PioTx
  <2> QED
    BY <1>1, <2>1, <2>2, <2>3, <2>5 DEF Data, OnSteps
<1>7. CASE PioRx
  <2>1. /\ pc = "pio_rx" /\ pc' = "pio_wait"
        /\ UNCHANGED <<offset, outcome, pair, txIndex, spe, txFifo, shifted, eot, held>>
        /\ UNCHANGED <<wire, calls>>
    BY <1>7 DEF PioRx, streams
  <2>2. Polling' /\ Fed' = Fed /\ Beat' = 0 /\ Chunk' = Chunk
    BY <1>1, <2>1 DEF Polling, PioSteps, Fed, Beat, Chunk
  <2>3. spe /\ On /\ Fed \in Nat /\ Stored \in Nat /\ Beat = 0 /\ calls \in 1 .. MaxCalls
    BY <1>5, <2>1 DEF PioSteps
  <2>4. Stored = offset + rxIndex /\ Stored' = offset + rxIndex' /\ txIndex \in Nat
        /\ rxIndex \in Nat /\ offset \in Nat /\ Chunk \in Nat
    BY <1>1, <2>1, <2>2, ChunkRange DEF Stored, TypeOK, CallType
  <2>5. On' /\ rxIndex' <= Chunk
    <3>1. CASE /\ rxIndex < Chunk /\ rxFifo # <<>> /\ rxFifo' = Tail(rxFifo)
               /\ buffer' = [buffer EXCEPT ![calls][offset + rxIndex] = Head(rxFifo)]
               /\ rxIndex' = rxIndex + 1
      <4>1. Stored' = Stored + 1 /\ rxIndex' <= Chunk
        BY <2>4, <3>1
      <4>2. On'
        BY <2>1, <2>2, <2>3, <2>4, <3>1, <4>1, OnTaken
      <4> QED
        BY <4>1, <4>2
    <3>2. CASE rxFifo' = rxFifo /\ rxIndex' = rxIndex /\ buffer' = buffer
      <4>1. Stored' = Stored /\ rxIndex' <= Chunk
        BY <1>1, <2>4, <3>2 DEF Data
      <4>2. On'
        BY <2>1, <2>2, <2>3, <3>2, <4>1, OnKept DEF On
      <4> QED
        BY <4>1, <4>2
    <3> QED
      BY <1>7, <3>1, <3>2 DEF PioRx
  <2> QED
    BY <1>1, <2>1, <2>2, <2>3, <2>5 DEF Data, OnSteps
<1>8. CASE PioWait \/ PioEot
  <2>1. /\ pc \in PioSteps \ {"pio_start"} /\ pc' \in PioSteps \ {"pio_start"}
        /\ pc' \in {"pio_eot", "pio_eot_wait"} =>
             pc \in {"pio_eot", "pio_eot_wait"} \/ ~PioMore
        /\ UNCHANGED <<offset, outcome, pair, txIndex, rxIndex, streams, spi, hist>>
    BY <1>8 DEF PioWait, PioEot, Goto, PioSteps
  <2>2. Polling' /\ Fed' = Fed /\ Stored' = Stored /\ Beat' = Beat /\ Chunk' = Chunk
        /\ pc' \in OnSteps
    BY <1>1, <2>1 DEF Polling, PioSteps, Fed, Stored, Beat, Chunk, OnSteps
  <2>3. spe /\ On
    BY <1>5, <2>1
  <2>4. On'
    BY <2>1, <2>2, <2>3, OnKept DEF On, streams, spi, hist
  <2>5. pc' \in {"pio_eot", "pio_eot_wait"} => rxIndex = Chunk
    BY <1>1, <2>1, ChunkRange DEF Data, PioMore, TypeOK, CallType
  <2> QED
    BY <1>1, <2>1, <2>2, <2>3, <2>4, <2>5 DEF Data, PioSteps, spi
<1>9. CASE PioDone
  <2>1. pc = "pio_eot" /\ eot /\ Off /\ NextChunk("pio_start") /\ UNCHANGED hist
    BY <1>9 DEF PioDone
  <2>2. On /\ rxIndex = Chunk /\ shifted = Chunk /\ Stored = offset + Chunk /\ Stored \in Nat
    BY <1>1, <1>5, <2>1 DEF PioSteps, Data, On, Stored
  <2>3. ~spe' /\ Cleared' /\ txIndex' = 0 /\ rxIndex' = 0
    BY <2>1 DEF Off, Cleared, NextChunk, Return
  <2>4. CASE pc' = "idle"
    BY <2>1, <2>3, <2>4, IdleData DEF NextChunk, Return
  <2>5. CASE pc' # "idle"
    <3>1. pc' = "pio_start" /\ offset' = offset + Chunk /\ offset' < Size /\ offset' \in Nat
      BY <2>1, <2>5, ChunkRange DEF NextChunk, Return
    <3>2. Done' = offset + Chunk /\ Chunk' \in Nat
      BY <3>1, SpiAssumption DEF Done, Chunk
    <3>3. Whole'
      BY <2>1, <2>2, <3>2 DEF On, Whole, Filled, Flow, CountsFrom, hist
    <3> QED
      BY <2>3, <3>1, <3>2, <3>3 DEF Data, OnSteps
  <2> QED
    BY <2>4, <2>5
<1> QED
  BY <1>3, <1>4, <1>6, <1>7, <1>8, <1>9

\* A step of the DMA path while the controller is off moves no byte.
LEMMA OffData ==
  ASSUME Data, ~spe, ~spe', Cleared', Hopeful' => Hopeful, Done' = Done,
         UNCHANGED <<wire, buffer, calls>>, pc' \in DmaSteps \ OnSteps,
         pc' \in {"start_tx", "enable"} => at'[pair'["rx"]] = offset' /\ held'[pair'["rx"]] = 0,
         pc' = "enable" => at'[pair'["tx"]] = offset'
  PROVE  Data'
<1>1. Hopeful' => Whole'
  BY DEF Data, Whole, Filled
<1>2. pc' \notin PioSteps /\ pc' # "idle"
  BY DEF DmaSteps, PioSteps
<1> QED
  BY <1>1, <1>2 DEF Data, Polling, PioSteps

\* The pair is taken and started.
LEMMA AcquireData ==
  ASSUME TypeOK, Pool, Data,
         \/ AcquireRx \/ AcquireRxFail \/ AcquireTx \/ AcquireTxFail
         \/ Configure \/ StartRx \/ StartTx
  PROVE  Data'
<1>1. /\ pc \in {"acquire_rx", "acquire_tx", "configure", "start_rx", "start_tx"}
      /\ UNCHANGED <<wire, buffer, calls>>
  BY DEF AcquireRx, AcquireRxFail, AcquireTx, AcquireTxFail, Claim, Configure, StartRx, StartTx,
         StartGated, hist
<1>2. ~spe /\ Cleared
  BY <1>1 DEF Data, OnSteps
<1>3. ~spe' /\ Cleared'
  BY <1>2 DEF AcquireRx, AcquireRxFail, AcquireTx, AcquireTxFail, Claim, Configure, StartRx,
     StartTx, StartGated, Off, spi, Cleared
<1>4. CASE AcquireRxFail \/ AcquireTxFail
  BY <1>3, <1>4, IdleData DEF AcquireRxFail, AcquireTxFail, Return
<1>5. CASE AcquireRx \/ AcquireTx \/ Configure
  <2>1. /\ pc' \in {"acquire_tx", "configure", "start_rx"} /\ UNCHANGED <<offset, outcome>>
    BY <1>5 DEF AcquireRx, AcquireTx, Claim, Configure, Goto
  <2>2. Done' = Done /\ (Hopeful' => Hopeful) /\ pc' \in DmaSteps \ OnSteps
    BY <1>1, <2>1 DEF Done, Hopeful, DmaSteps, OnSteps
  <2> QED
    BY <1>1, <1>2, <1>3, <2>1, <2>2, OffData
<1>6. CASE StartRx \/ StartTx
  <2>1. /\ HeldGates = Gates /\ outcome' = outcome /\ UNCHANGED <<offset, pair, held>>
        /\ pc' \in {"start_tx", "enable"}
        /\ "rx" \in Started <=> pc = "start_tx"
    BY <1>6 DEF StartRx, StartTx, StartGated, Goto, HeldGates, Started, DmaSteps
  <2>2. PICK rx \in Streams, tx \in Streams :
          rx = pair["rx"] /\ tx = pair["tx"] /\ rx # tx /\ HeldSound("rx") /\ HeldSound("tx")
    BY <2>1 DEF Pool, HeldSound, CallSound, Gates
  <2>3. held[rx] = 0
    <3>1. CASE StartRx
      BY <2>1, <2>2, <3>1 DEF StartRx, HeldSound, Pool, StreamSound
    <3>2. CASE StartTx
      BY <2>2, <3>2 DEF StartTx, Data
    <3> QED
      BY <1>6, <3>1, <3>2
  <2>4. at'[rx] = offset /\ (pc' = "enable" => at'[tx] = offset)
    <3>1. CASE StartRx
      BY <2>2, <3>1 DEF StartRx, StartGated, Goto, TypeOK, StreamsType
    <3>2. CASE StartTx
      BY <2>2, <3>2 DEF StartTx, StartGated, Data, TypeOK, StreamsType
    <3> QED
      BY <1>6, <3>1, <3>2
  <2>5. Done' = Done /\ (Hopeful' => Hopeful) /\ pc' \in DmaSteps \ OnSteps
    BY <1>1, <2>1 DEF Done, Hopeful, DmaSteps, OnSteps
  <2> QED
    BY <1>1, <1>2, <1>3, <2>1, <2>2, <2>3, <2>4, <2>5, OffData
<1> QED
  BY <1>4, <1>5, <1>6

\* The transfer runs, and is waited for.
LEMMA PollData ==
  ASSUME TypeOK, Pool, Data, Enable \/ Poll \/ PollWait
  PROVE  Data'
<1>1. CASE Enable
  <2>1. /\ pc = "enable" /\ pc' = "poll" /\ spe'
        /\ UNCHANGED <<offset, outcome, pair, at, held, txFifo, rxFifo, shifted, eot, wire>>
        /\ UNCHANGED <<buffer, calls>>
    BY <1>1 DEF Enable, Goto, streams, hist
  <2>2. outcome = "none" /\ Hopeful /\ ~spe
    BY <2>1 DEF Pool, CallSound, Hopeful, Data, OnSteps
  <2>3. Whole /\ Cleared /\ Done = offset /\ offset \in Nat /\ at[pair["rx"]] = offset
        /\ at[pair["tx"]] = offset /\ held[pair["rx"]] = 0
    BY <2>1, <2>2, ChunkRange DEF Data, Done
  <2>4. ~Polling' /\ Fed' = offset /\ Stored' = offset /\ Beat' = 0 /\ Chunk' = Chunk
    BY <2>1, <2>3 DEF Polling, PioSteps, Fed, Stored, Beat, Chunk
  <2>5. On'
    <3>1. Flow(wire, <<>>, <<>>, offset, offset, 0)
      BY <2>3, CountsNothing DEF Flow, Whole, CountsFrom
    <3> QED
      BY <2>1, <2>2, <2>3, <2>4, <3>1, ChunkRange DEF On, Whole, Filled, Cleared
  <2> QED
    BY <2>1, <2>4, <2>5 DEF Data, OnSteps
<1>2. CASE Poll \/ PollWait
  <2>1. /\ pc \in {"poll", "poll_wait"} /\ pc' \in {"poll", "poll_wait", "cleanup"}
        /\ UNCHANGED <<offset, pair, txIndex, rxIndex, streams, spi, hist>>
        /\ outcome' # outcome => outcome' \in {"IO", "TIMEOUT"} \/ eot
    BY <1>2 DEF Poll, PollWait, Complete
  <2>2. spe /\ Hopeful /\ outcome = "none"
    BY <2>1 DEF Data, OnSteps, Pool, CallSound, Hopeful
  <2>3. On /\ ~Polling /\ ~Polling'
    BY <2>1, <2>2 DEF Data, Polling, PioSteps
  <2>4. ASSUME Hopeful' PROVE On'
    <3>1. Fed' = Fed /\ Stored' = Stored /\ Beat' = Beat
      BY <2>1, <2>3 DEF Fed, Stored, Beat, streams
    <3>2. eot' \/ outcome' = "OK" => shifted = Chunk
      BY <2>1, <2>2, <2>3 DEF On, spi
    <3>3. /\ UNCHANGED <<offset, shifted, txFifo, rxFifo, wire, calls, buffer>>
          /\ held'[pair'["rx"]] = held[pair["rx"]]
      BY <2>1 DEF spi, hist, streams
    <3> QED
      BY <2>3, <3>1, <3>2, <3>3, OnKept
  <2> QED
    BY <2>1, <2>2, <2>3, <2>4 DEF Data, OnSteps, spi
<1> QED
  BY <1>1, <1>2

\* The controller goes off, and the pair back to the pool.
LEMMA CleanupData ==
  ASSUME TypeOK, Pool, Data, Cleanup \/ CleanupRx \/ CleanupTx
  PROVE  Data'
<1>1. CASE Cleanup
  <2>1. /\ pc = "cleanup" /\ pc' = "cleanup_rx"
        /\ UNCHANGED <<offset, outcome, wire, buffer, calls>>
        /\ ~spe' /\ Cleared'
    BY <1>1 DEF Cleanup, Goto, hist, Off, Cleared
  <2>2. ASSUME Hopeful' PROVE Whole'
    <3>1. outcome = "OK" /\ Hopeful /\ spe /\ pc \in OnSteps
      BY <2>1, <2>2 DEF Hopeful, Pool, CallSound, Data, OnSteps
    <3>2. On /\ ~Polling /\ HeldSound("rx") /\ Started = Gates /\ Stored \in Nat
      BY <2>1, <3>1, Places DEF Data, Polling, PioSteps
    <3>3. left[pair["rx"]] = 0 /\ at[pair["rx"]] \in Nat
      BY <3>1, <3>2 DEF HeldSound, Pool, StreamSound, TypeOK, StreamsType
    <3>4. Stored = offset + Chunk /\ shifted = Chunk /\ Done' = offset + Chunk
      BY <2>1, <3>1, <3>2, <3>3 DEF HeldSound, Stored, On, Done, Gates, Chunk
    <3> QED
      BY <2>1, <3>2, <3>4 DEF On, Flow, Whole, Filled, CountsFrom
  <2> QED
    BY <2>1, <2>2 DEF Data, OnSteps, Polling, PioSteps
<1>2. CASE CleanupRx
  <2>1. /\ pc = "cleanup_rx" /\ pc' = "cleanup_tx"
        /\ UNCHANGED <<offset, outcome, wire, buffer, calls, spi>>
    BY <1>2 DEF CleanupRx, Goto
  <2>2. ~spe /\ ~spe' /\ Cleared' /\ Done' = Done /\ (Hopeful' => Hopeful)
    BY <2>1 DEF Data, OnSteps, Cleared, spi, Done, Hopeful, Chunk
  <2>3. pc' \in DmaSteps \ OnSteps
    BY <2>1 DEF DmaSteps, OnSteps
  <2> QED
    BY <2>1, <2>2, <2>3, OffData
<1>3. CASE CleanupTx
  <2>1. /\ pc = "cleanup_tx" /\ pc' \in {"idle", "acquire_rx"}
        /\ UNCHANGED <<wire, buffer, calls, spi>>
    BY <1>3 DEF CleanupTx, NextChunk, Return
  <2>2. ~spe' /\ Cleared' /\ ~spe
    BY <2>1 DEF Data, OnSteps, Cleared, spi
  <2>3. CASE pc' = "idle"
    BY <1>3, <2>2, <2>3, IdleData DEF CleanupTx, NextChunk, Return
  <2>4. CASE pc' = "acquire_rx"
    <3>1. outcome = "OK" /\ offset' = offset + Chunk /\ Hopeful
      BY <1>3, <2>1, <2>4 DEF CleanupTx, NextChunk, Return, Hopeful
    <3>2. Done = offset + Chunk /\ Done' = offset'
      BY <2>1, <2>4 DEF Done
    <3> QED
      BY <2>1, <2>2, <2>4, <3>1, <3>2, OffData DEF DmaSteps, OnSteps
  <2> QED
    BY <2>1, <2>3, <2>4
<1> QED
  BY <1>1, <1>2, <1>3

\* The stream that answers a request of the controller is the one of its gate.
LEMMA RequestedIsPaired ==
  ASSUME TypeOK, Pool, Data, NEW g \in Gates, NEW s \in Streams, Requested(s, g)
  PROVE  s = pair[g] /\ ~Polling /\ pc \in OnSteps /\ spe
<1>1. spe /\ pc \in OnSteps /\ en[s] /\ serves[s] = g
  BY DEF Requested, Data
<1>2. s \notin leaked /\ owner[s] = "spi"
  BY DEF Requested, Pool, StreamSound
<1>3. PICK h \in HeldGates : pair[h] = s /\ HeldSound(h)
  BY <1>2 DEF Pool, StreamSound
<1>4. h \in Started
  BY <1>1, <1>3 DEF HeldSound
<1>5. serves[pair[h]] = h /\ ~Polling
  BY <1>3, <1>4 DEF HeldSound, Started, Polling, PioSteps
<1> QED
  BY <1>1, <1>3, <1>5

\* The controller and its streams move the bytes.
LEMMA MoveData ==
  ASSUME TypeOK, Pool, Data,
         HwShift \/ \E s \in Streams : HwDmaTx(s) \/ HwDmaRead(s)
  PROVE  Data'
<1>1. /\ spe /\ pc \in OnSteps
      /\ UNCHANGED <<pc, outcome, offset, txIndex, rxIndex, pair, calls, spe, eot, buffer>>
  BY DEF HwShift, HwDmaTx, HwDmaRead, Requested, Moved, Data, hist
<1>2. Polling' = Polling /\ Chunk' = Chunk /\ Hopeful' = Hopeful
  BY <1>1 DEF Polling, Chunk, Hopeful
<1>3. ASSUME Hopeful PROVE On'
  <2>1. /\ On /\ Fed \in Nat /\ Stored \in Nat /\ Beat \in {0, 1} /\ calls \in 1 .. MaxCalls
        /\ ~Polling => HeldSound("rx") /\ HeldSound("tx") /\ pair["rx"] # pair["tx"]
    BY <1>1, <1>3, Places DEF Data
  <2>2. CASE HwShift
    <3>1. Fed' = Fed /\ Stored' = Stored /\ Beat' = Beat
      BY <1>2, <2>2 DEF HwShift, Fed, Stored, Beat, streams
    <3> QED
      BY <2>1, <2>2, <3>1, OnShift
  <2>3. ASSUME NEW s \in Streams, HwDmaTx(s) PROVE On'
    <3>1. s = pair["tx"] /\ ~Polling
      BY <2>3, RequestedIsPaired DEF HwDmaTx, Gates
    <3>2. /\ at'[s] = at[s] + 1 /\ \A r \in Streams \ {s} : at'[r] = at[r]
          /\ txFifo' = Append(txFifo, at[s])
          /\ UNCHANGED <<offset, pair, held, shifted, rxFifo, wire, buffer, calls, eot, outcome>>
      BY <2>3 DEF HwDmaTx, Moved, TypeOK, StreamsType, hist
    <3>3. Fed = at[s] /\ Fed' = Fed + 1 /\ Stored' = Stored /\ Beat' = Beat
      BY <1>2, <2>1, <3>1, <3>2 DEF Fed, Stored, Beat, HeldSound
    <3> QED
      BY <2>1, <3>2, <3>3, OnFed
  <2>4. ASSUME NEW s \in Streams, HwDmaRead(s) PROVE On'
    <3>1. s = pair["rx"] /\ ~Polling
      BY <2>4, RequestedIsPaired DEF HwDmaRead, Gates
    <3>2. /\ held[s] = 0 /\ held'[s] = Head(rxFifo) /\ rxFifo # <<>> /\ rxFifo' = Tail(rxFifo)
          /\ UNCHANGED <<offset, pair, at, shifted, txFifo, wire, buffer, calls, eot, outcome>>
      BY <2>4 DEF HwDmaRead, TypeOK, StreamsType, hist
    <3>3. Fed' = Fed /\ Stored' = Stored /\ Beat = 0
      BY <1>2, <3>1, <3>2 DEF Fed, Stored, Beat
    <3>4. Beat' = 1
      <4>1. Head(rxFifo) = Stored + 0 + 1
        <5>1. PICK f \in Nat, t \in Nat, b \in Nat : f = Fed /\ t = Stored /\ b = 0
          BY <2>1
        <5>2. Flow(wire, txFifo, rxFifo, f, t, b)
          BY <2>1, <3>3, <5>1 DEF On
        <5>3. wire \in Seq(Nat) /\ txFifo \in Seq(Nat) /\ rxFifo \in Seq(Nat)
          BY DEF TypeOK, SpiType, HistType
        <5>4. rxFifo # <<>> => Head(rxFifo) = t + b + 1
          BY <5>2, <5>3, FlowSteps
        <5> QED
          BY <3>2, <5>1, <5>4
      <4> QED
        BY <1>2, <2>1, <3>1, <3>2, <4>1 DEF Beat
    <3> QED
      BY <2>1, <3>1, <3>2, <3>3, <3>4, OnTaken
  <2> QED
    BY <2>2, <2>3, <2>4
<1> QED
  BY <1>1, <1>2, <1>3 DEF Data, OnSteps

\* A beat lands: in its place of the call in progress, or, from a stream that
\* was lost, in the buffer of a call that is over.
LEMMA WriteData ==
  ASSUME TypeOK, Pool, Data, NEW s \in Streams, HwDmaWrite(s)
  PROVE  Data'
<1>1. /\ UNCHANGED <<pc, outcome, offset, txIndex, rxIndex, pair, calls, spe, eot, txFifo>>
      /\ UNCHANGED <<rxFifo, shifted, wire>>
      /\ held[s] # 0 /\ held'[s] = 0 /\ at'[s] = at[s] + 1
      /\ \A r \in Streams \ {s} : held'[r] = held[r] /\ at'[r] = at[r]
      /\ buffer' = [buffer EXCEPT ![into[s]][at[s]] = held[s]]
  BY DEF HwDmaWrite, Moved, TypeOK, StreamsType, spi
<1>2. Polling' = Polling /\ Chunk' = Chunk /\ Hopeful' = Hopeful /\ Done' = Done
  BY <1>1 DEF Polling, Chunk, Hopeful, Done
<1>3. en[s] /\ serves[s] = "rx" /\ owner[s] = "spi" /\ flag[s] = "none"
  BY <1>1 DEF Pool, StreamSound
<1>4. CASE s \in leaked
  <2>1. \A g \in HeldGates : pair[g] \in Streams \ {s}
    BY <1>4 DEF Pool, HeldSound
  <2>2. Hopeful => into[s] < calls
    BY <1>4 DEF Pool, StreamSound
  <2>3. Hopeful => buffer'[calls] = buffer[calls]
    BY <1>1, <2>2, SpiAssumption DEF TypeOK, HistType, StreamsType
  <2>4. ASSUME spe, Hopeful PROVE On'
    <3>1. /\ On /\ pc \in OnSteps /\ ~Polling => HeldGates = Gates
          /\ eot \/ outcome = "OK" => shifted = Chunk
      BY <2>4, Places DEF Data, On
    <3>2. ~Polling => at'[pair["rx"]] = at[pair["rx"]] /\ at'[pair["tx"]] = at[pair["tx"]]
                      /\ held'[pair["rx"]] = held[pair["rx"]]
      BY <1>1, <2>1, <2>4, <3>1, Places DEF Gates, Data
    <3>3. Fed' = Fed /\ Stored' = Stored /\ Beat' = Beat
      BY <1>1, <1>2, <3>2 DEF Fed, Stored, Beat
    <3>4. Beat = 1 => held'[pair'["rx"]] = held[pair["rx"]]
      BY <1>1, <3>2 DEF Beat
    <3> QED
      BY <1>1, <2>3, <2>4, <3>1, <3>3, <3>4, OnKept DEF Data
  <2>5. ASSUME ~spe PROVE Cleared' /\ (Hopeful => Whole')
    BY <1>1, <1>2, <2>3, <2>5 DEF Data, Cleared, Whole, Filled
  <2>6. pc \in {"start_tx", "enable"} =>
          at'[pair["rx"]] = at[pair["rx"]] /\ at'[pair["tx"]] = at[pair["tx"]]
          /\ held'[pair["rx"]] = held[pair["rx"]]
    BY <1>1, <2>1 DEF HeldGates, DmaSteps, Gates
  <2> QED
    BY <1>1, <1>2, <2>4, <2>5, <2>6 DEF Data
<1>5. CASE s \notin leaked
  <2>1. PICK g \in HeldGates : pair[g] = s /\ HeldSound(g)
    BY <1>3, <1>5 DEF Pool, StreamSound
  <2>2. g \in Started /\ g = "rx" /\ into[s] = calls
    BY <1>3, <2>1 DEF HeldSound
  <2>3. pc \notin {"start_tx", "enable"} /\ ~Polling
    BY <1>1, <2>1, <2>2 DEF Data, Started, Polling, PioSteps
  <2>4. Hopeful => spe
    <3>1. outcome # "OK"
      BY <1>3, <2>1 DEF HeldSound
    <3> QED
      BY <2>2, <2>3, <3>1 DEF Hopeful, Started, Pool, CallSound, Data, OnSteps
  <2>5. ASSUME spe, Hopeful PROVE On'
    <3>1. /\ On /\ Fed \in Nat /\ Stored \in Nat /\ calls \in 1 .. MaxCalls
          /\ HeldSound("rx") /\ HeldSound("tx") /\ pair["rx"] # pair["tx"]
      BY <2>3, <2>5, Places DEF Data
    <3>2. Beat = 1 /\ Beat' = 0 /\ Stored = at[s] /\ Stored' = Stored + 1 /\ Fed' = Fed
      BY <1>1, <1>2, <2>1, <2>2, <2>3, <3>1 DEF Beat, Stored, Fed, HeldSound
    <3> QED
      BY <1>1, <2>1, <2>2, <3>1, <3>2, OnLanded
  <2>6. ~spe => Cleared'
    BY <1>1 DEF Data, Cleared
  <2> QED
    BY <1>1, <1>2, <2>3, <2>4, <2>5, <2>6 DEF Data
<1> QED
  BY <1>4, <1>5

LEMMA NextData == TypeOK /\ Pool /\ Data /\ [Next]_vars => Data'
<1> SUFFICES ASSUME TypeOK, Pool, Data, [Next]_vars PROVE Data'
  OBVIOUS
<1>0. ASSUME UNCHANGED <<pc, outcome, offset, txIndex, rxIndex, pair, at, held, calls>>,
             UNCHANGED <<spe, txFifo, rxFifo, shifted, wire, buffer>>,
             eot' => eot \/ (spe /\ shifted = Chunk)
      PROVE  Data'
  BY <1>0, QuietData
<1>1. CASE UNCHANGED vars
  <2>1. /\ UNCHANGED <<pc, outcome, offset, txIndex, rxIndex, pair, at, held, calls>>
        /\ UNCHANGED <<spe, txFifo, rxFifo, shifted, wire, buffer>>
        /\ eot' = eot
    BY <1>1 DEF vars, software, streams, spi, hist
  <2>2. eot' => eot \/ (spe /\ shifted = Chunk)
    BY <2>1 DEF TypeOK, SpiType
  <2> QED
    BY <1>0, <2>1, <2>2
<1>2. CASE Running
  BY <1>2, PioData, AcquireData, PollData, CleanupData DEF Running
<1>3. CASE Expire \/ HwFault
  <2>1. /\ UNCHANGED <<pc, outcome, offset, txIndex, rxIndex, pair, at, held, calls>>
        /\ UNCHANGED <<spe, txFifo, rxFifo, shifted, wire, buffer>>
        /\ eot' = eot
    BY <1>3 DEF Expire, HwFault, streams, spi, hist
  <2>2. eot' => eot \/ (spe /\ shifted = Chunk)
    BY <2>1 DEF TypeOK, SpiType
  <2> QED
    BY <1>0, <2>1, <2>2
<1>4. CASE HwEndOfTransfer
  <2>1. /\ UNCHANGED <<pc, outcome, offset, txIndex, rxIndex, pair, at, held, calls>>
        /\ UNCHANGED <<spe, txFifo, rxFifo, shifted, wire, buffer>>
        /\ spe /\ shifted = Chunk
    BY <1>4 DEF HwEndOfTransfer, streams, hist
  <2>2. eot' => eot \/ (spe /\ shifted = Chunk)
    BY <2>1 DEF TypeOK, SpiType
  <2> QED
    BY <1>0, <2>1, <2>2
<1>5. ASSUME NEW s \in Streams, HwDmaError(s) \/ HwHalt(s) \/ OtherTask(s) PROVE Data'
  <2>1. /\ UNCHANGED <<pc, outcome, offset, txIndex, rxIndex, pair, at, held, calls>>
        /\ UNCHANGED <<spe, txFifo, rxFifo, shifted, wire, buffer>>
        /\ eot' = eot
    BY <1>5 DEF HwDmaError, HwHalt, OtherTask, spi, hist
  <2>2. eot' => eot \/ (spe /\ shifted = Chunk)
    BY <2>1 DEF TypeOK, SpiType
  <2> QED
    BY <1>0, <2>1, <2>2
<1>6. CASE Transferring
  BY <1>4, <1>6, MoveData, WriteData DEF Transferring
<1> QED
  BY <1>1, <1>2, <1>3, <1>5, <1>6, CallData DEF Next

\* Only the end of the last chunk returns OK.
LEMMA OkIsWhole ==
  ASSUME TypeOK, Pool, Data, Next, ret' = "OK"
  PROVE  /\ Len(wire) = Size /\ CountsFrom(wire, 0) /\ Filled(Size)
         /\ UNCHANGED <<wire, buffer, calls>>
<1>1. PioDone \/ (CleanupTx /\ outcome = "OK")
  BY DEF Next, Initialise, Call, Refused, Expire, Running, PioStart, PioFault, PioTx, PioRx,
       PioWait, PioEot, PioExpired, PioAbort, AcquireRx, AcquireRxFail, AcquireTx,
       AcquireTxFail, Claim, Configure, StartRx, StartTx, StartGated, Enable, Poll, PollWait,
       Cleanup, CleanupRx, CleanupTx, Transferring, HwShift, HwEndOfTransfer, HwFault, HwDmaTx,
       HwDmaRead, HwDmaWrite, HwDmaError, HwHalt, OtherTask, Moved, Return, Goto
<1>2. ~(offset + Chunk < Size)
  BY <1>1 DEF PioDone, CleanupTx, NextChunk
<1>3. offset + Chunk = Size
  BY <1>2, ChunkRange
<1>4. CASE PioDone
  <2>1. pc \in OnSteps /\ spe /\ Hopeful /\ Polling /\ eot /\ UNCHANGED <<wire, buffer, calls>>
    BY <1>4 DEF PioDone, OnSteps, Data, Pool, CallSound, Hopeful, Polling, PioSteps, hist
  <2>2. On /\ shifted = Chunk /\ Stored = offset + Chunk
    BY <1>4, <2>1 DEF Data, On, Stored, PioDone
  <2> QED
    BY <1>3, <2>1, <2>2 DEF On, Flow
<1>5. CASE CleanupTx /\ outcome = "OK"
  <2>1. ~spe /\ Hopeful /\ Done = offset + Chunk /\ UNCHANGED <<wire, buffer, calls>>
    BY <1>5 DEF CleanupTx, Data, OnSteps, Hopeful, Done
  <2> QED
    BY <1>3, <2>1 DEF Data, Whole
<1> QED
  BY <1>1, <1>4, <1>5

\* A transfer that returns OK, on either path, put every byte on the wire once
\* and in order, and has the answer to each in its place.
THEOREM OkTransfersAreWhole == Spec => []OkMeansAllMoved
<1> DEFINE IInv == TypeOK /\ Pool /\ Data /\ OkMeansAllMoved
<1>1. Init => IInv
  BY InitTypeOK, InitPool, InitData DEF Init, OkMeansAllMoved
<1>2. TypeOK /\ Pool /\ Data /\ OkMeansAllMoved /\ [Next]_vars => OkMeansAllMoved'
  <2> SUFFICES ASSUME TypeOK, Pool, Data, OkMeansAllMoved, [Next]_vars PROVE OkMeansAllMoved'
    OBVIOUS
  <2>1. CASE UNCHANGED vars
    BY <2>1 DEF OkMeansAllMoved, vars, software, hist
  <2>2. CASE Next /\ ret' = "OK"
    <3>1. /\ Len(wire) = Size /\ CountsFrom(wire, 0) /\ Filled(Size)
          /\ UNCHANGED <<wire, buffer, calls>> /\ wire \in Seq(Nat) /\ Size \in Nat
      BY <2>2, OkIsWhole, SpiAssumption DEF TypeOK, HistType
    <3>2. ASSUME NEW k \in 1 .. Size PROVE wire[k] = k - 1
      BY <3>1 DEF CountsFrom
    <3>3. wire = [k \in 1 .. Size |-> k - 1]
      BY <3>1, <3>2
    <3>4. \A b \in Byte : buffer[calls][b] = b + 1
      BY <3>1 DEF Filled, Byte
    <3> QED
      BY <3>1, <3>3, <3>4 DEF OkMeansAllMoved
  <2>3. CASE ret' # "OK"
    BY <2>3 DEF OkMeansAllMoved
  <2> QED
    BY <2>1, <2>2, <2>3
<1>3. IInv /\ [Next]_vars => IInv'
  BY <1>2, NextTypeOK, NextPool, NextData
<1> QED
  BY <1>1, <1>3, PTL DEF Spec

=============================================================================
