----------------------------- MODULE SpiTransfer -----------------------------
(***************************************************************************)
(* Full-duplex transfers of the SPI controller (device/stm32h755/spi.c):   *)
(* the polling path and the DMA path, which borrows a pair of streams from *)
(* the pool of dma.c for each chunk while other tasks use the pool too.    *)
(*                                                                         *)
(* One caller at a time, as docs/spi.md asks.  An operation on a DMA       *)
(* handle is one step here: its steps touch one stream, which is this      *)
(* caller's alone (theorem OnlyOwnersTouch of DmaStreamsProofs).           *)
(*                                                                         *)
(* The controller shifts bytes from its transmit FIFO to the wire and      *)
(* answers each with a byte of its peer; DMA moves bytes between the FIFOs *)
(* and the caller's buffers through request gates.                         *)
(***************************************************************************)
EXTENDS Naturals, FiniteSets, Sequences

CONSTANTS
  StreamCount,   \* streams of the pool (8 on the device)
  Limit,         \* DAS_STM32H755_SPI_MAX_TRANSFER: bytes of a chunk
  Size,          \* bytes of a transfer
  Depth,         \* bytes of each FIFO of the controller (16 on the device)
  MaxCalls       \* bound: transfers in a behaviour

ASSUME SpiAssumption ==
  /\ {StreamCount, Limit, Size, Depth} \subseteq Nat \ {0}
  /\ MaxCalls \in Nat

Streams  == 0 .. StreamCount - 1
NoStream == StreamCount
Byte     == 0 .. Size - 1
Gates    == {"rx", "tx"}

VARIABLES
  pc, path,            \* the call in progress: its step, polling or DMA
  clock,               \* its wait: "forever", "running" or "expired"
  offset,              \* bytes of the chunks already done
  outcome,             \* what the call will return once it has cleaned up
  pair,                \* the DMA handles of the chunk, by gate
  txIndex, rxIndex,    \* polling: bytes of the chunk written and read
  ret,                 \* what the last step returned
  owner,               \* DMA: whose each stream is: "free", "spi", "other"
  en, stopping,        \* DMA: EN, and whether it is draining
  serves, at, left,    \* DMA: request line, next byte and bytes left
  held, into,          \* DMA: the byte of a beat in progress, 0 if none, and
                       \*   the call whose buffer it goes to
  flag,                \* DMA: "none", "TC" or "TE"
  spe, gates, fault,   \* SPI: SPE, the open DMA gates, the error flags
  txFifo, rxFifo,      \* SPI: bytes by position
  shifted, eot,        \* SPI: bytes of the chunk on the wire, EOT
  wire,                \* history: bytes of this call on the wire
  buffer,              \* the receive buffer of each call, 0 where nothing came
  calls,               \* history: transfers so far
  leaked               \* history: streams that a release left claimed

software == <<pc, path, clock, offset, outcome, pair, txIndex, rxIndex, ret>>
streams  == <<owner, en, stopping, serves, at, left, held, into, flag>>
spi      == <<spe, gates, fault, txFifo, rxFifo, shifted, eot>>
hist     == <<wire, buffer, calls, leaked>>
vars     == <<software, streams, spi, hist>>

Chunk == IF Size - offset > Limit THEN Limit ELSE Size - offset

Goto(step) ==
  /\ pc' = step /\ ret' = "none"
  /\ UNCHANGED <<path, clock, offset, outcome, pair, txIndex, rxIndex>>

Return(result) ==
  /\ pc' = "idle" /\ ret' = result
  /\ path' = "none" /\ clock' = "none" /\ offset' = 0 /\ outcome' = "none"
  /\ pair' = [g \in Gates |-> NoStream]
  /\ txIndex' = 0 /\ rxIndex' = 0

\* Clearing SPE empties the FIFOs and stops the controller.
Off ==
  /\ spe' = FALSE /\ fault' = FALSE /\ eot' = FALSE
  /\ txFifo' = <<>> /\ rxFifo' = <<>> /\ shifted' = 0

Init ==
  /\ pc = "idle" /\ path = "none" /\ clock = "none" /\ offset = 0 /\ outcome = "none"
  /\ pair = [g \in Gates |-> NoStream] /\ txIndex = 0 /\ rxIndex = 0 /\ ret = "none"
  /\ owner = [s \in Streams |-> "free"]
  /\ en = [s \in Streams |-> FALSE] /\ stopping = [s \in Streams |-> FALSE]
  /\ serves = [s \in Streams |-> "none"]
  /\ at = [s \in Streams |-> 0] /\ left = [s \in Streams |-> 0]
  /\ held = [s \in Streams |-> 0] /\ into = [s \in Streams |-> 0]
  /\ flag = [s \in Streams |-> "none"]
  /\ spe = FALSE /\ gates = {} /\ fault = FALSE /\ eot = FALSE
  /\ txFifo = <<>> /\ rxFifo = <<>> /\ shifted = 0
  /\ wire = <<>> /\ calls = 0 /\ leaked = {}
  /\ buffer = [c \in 1 .. MaxCalls |-> [b \in Byte |-> 0]]

-----------------------------------------------------------------------------
(* das_spi_transfer_timeout and das_spi_transfer_dma_timeout. *)

Call ==
  /\ pc = "idle" /\ calls < MaxCalls
  /\ calls' = calls + 1
  /\ \E p \in {"polling", "dma"}, c \in {"forever", "running"} :
       /\ path' = p /\ clock' = c
       /\ pc' = IF p = "dma" THEN "acquire_rx" ELSE "pio_start"
  /\ wire' = <<>> /\ ret' = "none"
  /\ UNCHANGED <<offset, outcome, pair, txIndex, rxIndex, streams, spi, buffer, leaked>>

\* A bad argument, or a finite wait before the time source is ready.
Refused ==
  /\ pc = "idle"
  /\ \E result \in {"INVALID_ARGUMENT", "NOT_READY"} : Return(result)
  /\ UNCHANGED <<streams, spi, hist>>

\* das_spi_init between transfers: the controller is off and both gates closed.
Initialise ==
  /\ pc = "idle"
  /\ Off /\ gates' = {}
  /\ Return("initialised")
  /\ UNCHANGED <<streams, hist>>

Expire ==
  /\ clock = "running"
  /\ clock' = "expired" /\ ret' = "none"
  /\ UNCHANGED <<pc, path, offset, outcome, pair, txIndex, rxIndex, streams, spi, hist>>

\* A chunk is done: the next one, or the end.
NextChunk(step) ==
  IF offset + Chunk < Size
  THEN /\ offset' = offset + Chunk
       /\ pc' = step /\ ret' = "none"
       /\ outcome' = "none"
       /\ pair' = [g \in Gates |-> NoStream]
       /\ txIndex' = 0 /\ rxIndex' = 0
       /\ UNCHANGED <<path, clock>>
  ELSE Return("OK")

-----------------------------------------------------------------------------
(* transfer_chunk, the polling path. *)

PioStart ==
  /\ pc = "pio_start"
  /\ spe' = TRUE /\ fault' = FALSE /\ eot' = FALSE
  /\ txFifo' = <<>> /\ rxFifo' = <<>> /\ shifted' = 0
  /\ Goto("pio_tx")
  /\ UNCHANGED <<gates, streams, hist>>

\* abort_transfer.
PioAbort(result) == Off /\ Return(result) /\ UNCHANGED <<gates, streams, hist>>

PioMore == txIndex < Chunk \/ rxIndex < Chunk

PioFault ==
  /\ pc \in {"pio_tx", "pio_eot"} /\ fault
  /\ (pc = "pio_eot" => ~eot)
  /\ PioAbort("IO")

PioTx ==
  /\ pc = "pio_tx" /\ ~fault
  /\ IF txIndex < Chunk /\ Len(txFifo) < Depth
     THEN /\ txFifo' = Append(txFifo, offset + txIndex)
          /\ txIndex' = txIndex + 1
     ELSE UNCHANGED <<txFifo, txIndex>>
  /\ pc' = "pio_rx" /\ ret' = "none"
  /\ UNCHANGED <<path, clock, offset, outcome, pair, rxIndex, streams,
                 spe, gates, fault, rxFifo, shifted, eot, hist>>

PioRx ==
  /\ pc = "pio_rx"
  /\ IF rxIndex < Chunk /\ rxFifo # <<>>
     THEN /\ rxFifo' = Tail(rxFifo)
          /\ buffer' = [buffer EXCEPT ![calls][offset + rxIndex] = Head(rxFifo)]
          /\ rxIndex' = rxIndex + 1
     ELSE UNCHANGED <<rxFifo, buffer, rxIndex>>
  /\ pc' = "pio_wait" /\ ret' = "none"
  /\ UNCHANGED <<path, clock, offset, outcome, pair, txIndex, streams,
                 spe, gates, fault, txFifo, shifted, eot, wire, calls, leaked>>

\* The deadline is looked at even after the last byte.
PioWait ==
  /\ pc = "pio_wait" /\ clock # "expired"
  /\ Goto(IF PioMore THEN "pio_tx" ELSE "pio_eot")
  /\ UNCHANGED <<streams, spi, hist>>

PioExpired ==
  /\ pc \in {"pio_wait", "pio_eot_wait"} /\ clock = "expired"
  /\ PioAbort("TIMEOUT")

PioEot ==
  \/ /\ pc = "pio_eot" /\ ~eot /\ ~fault
     /\ Goto("pio_eot_wait") /\ UNCHANGED <<streams, spi, hist>>
  \/ /\ pc = "pio_eot_wait" /\ clock # "expired"
     /\ Goto("pio_eot") /\ UNCHANGED <<streams, spi, hist>>

PioDone ==
  /\ pc = "pio_eot" /\ eot
  /\ Off
  /\ NextChunk("pio_start")
  /\ UNCHANGED <<gates, streams, hist>>

-----------------------------------------------------------------------------
(* transfer_dma_chunk and dma_pair_cleanup, the DMA path. *)

Free == {s \in Streams : owner[s] = "free"}
Lowest(s) == s \in Free /\ \A r \in Free : s <= r

\* das_dma_acquire, then das_dma_configure and stm32h755_dma_set_request.
Claim(s, g, step) ==
  /\ owner' = [owner EXCEPT ![s] = "spi"]
  /\ pair' = [pair EXCEPT ![g] = s]
  /\ flag' = [flag EXCEPT ![s] = "none"]
  /\ pc' = step /\ ret' = "none"
  /\ UNCHANGED <<path, clock, offset, outcome, txIndex, rxIndex,
                 en, stopping, serves, at, left, held, into, spi, hist>>

AcquireRx ==
  /\ pc = "acquire_rx"
  /\ \E s \in Streams : Lowest(s) /\ Claim(s, "rx", "acquire_tx")

AcquireRxFail ==
  /\ pc = "acquire_rx" /\ Free = {}
  /\ Return("NOT_READY")
  /\ UNCHANGED <<streams, spi, hist>>

AcquireTx ==
  /\ pc = "acquire_tx"
  /\ \E s \in Streams : Lowest(s) /\ Claim(s, "tx", "configure")

\* The pool ran out between the two: the first stream goes back.
AcquireTxFailKeepingRx ==
  /\ pc = "acquire_tx" /\ Free = {}
  /\ Return("NOT_READY")
  /\ UNCHANGED <<streams, spi, hist>>
AcquireTxFail ==
  /\ pc = "acquire_tx" /\ Free = {}
  /\ owner' = [owner EXCEPT ![pair["rx"]] = "free"]
  /\ Return("NOT_READY")
  /\ UNCHANGED <<en, stopping, serves, at, left, held, into, flag, spi, hist>>

\* Both streams get their request lines; SPE and the gates are closed.
Configure ==
  /\ pc = "configure"
  /\ serves' = [s \in Streams |-> IF s = pair["rx"] THEN "rx"
                                 ELSE IF s = pair["tx"] THEN "tx" ELSE serves[s]]
  /\ Off /\ gates' = {}
  /\ Goto("start_rx")
  /\ UNCHANGED <<owner, en, stopping, at, left, held, into, flag, hist>>

\* A stream is armed before its gate opens.
StartGated(g, opened, step) ==
  /\ en' = [en EXCEPT ![pair[g]] = TRUE]
  /\ at' = [at EXCEPT ![pair[g]] = offset]
  /\ left' = [left EXCEPT ![pair[g]] = Chunk]
  /\ into' = [into EXCEPT ![pair[g]] = calls]
  /\ flag' = [flag EXCEPT ![pair[g]] = "none"]
  /\ gates' = gates \cup opened
  /\ Goto(step)
  /\ UNCHANGED <<owner, stopping, serves, held, spe, fault, txFifo, rxFifo, shifted, eot, hist>>

StartRxUngated == pc = "start_rx" /\ StartGated("rx", {}, "start_tx")
StartRx == pc = "start_rx" /\ StartGated("rx", {"rx"}, "start_tx")
StartTx == pc = "start_tx" /\ StartGated("tx", {"tx"}, "enable")

Enable ==
  /\ pc = "enable"
  /\ spe' = TRUE
  /\ Goto("poll")
  /\ UNCHANGED <<streams, gates, fault, txFifo, rxFifo, shifted, eot, hist>>

\* The states of both streams, then SR: the flags only rise in between.
CompleteTx == flag[pair["tx"]] = "TC" /\ eot
Complete == (\A g \in Gates : flag[pair[g]] = "TC") /\ eot
Failed   == fault \/ \E g \in Gates : flag[pair[g]] = "TE"

Poll ==
  /\ pc = "poll"
  /\ \/ Failed /\ outcome' = "IO" /\ pc' = "cleanup"
     \/ ~Failed /\ Complete /\ outcome' = "OK" /\ pc' = "cleanup"
     \/ ~Failed /\ ~Complete /\ outcome' = outcome /\ pc' = "poll_wait"
  /\ ret' = "none"
  /\ UNCHANGED <<path, clock, offset, pair, txIndex, rxIndex, streams, spi, hist>>

PollWait ==
  /\ pc = "poll_wait"
  /\ IF clock = "expired"
     THEN outcome' = "TIMEOUT" /\ pc' = "cleanup"
     ELSE outcome' = outcome /\ pc' = "poll"
  /\ ret' = "none"
  /\ UNCHANGED <<path, clock, offset, pair, txIndex, rxIndex, streams, spi, hist>>

\* The controller is off and the gates closed before the streams are stopped.
Cleanup ==
  /\ pc = "cleanup"
  /\ Off /\ gates' = {}
  /\ Goto("cleanup_rx")
  /\ UNCHANGED <<streams, hist>>

\* das_dma_abort and das_dma_release of one stream, their results dropped: they
\* wait for a beat in progress, but not for ever.  A stream that does not stop
\* in time stays claimed, and nobody knows it.
GiveBack(g) ==
  LET s == pair[g] IN
  \/ /\ held[s] = 0
     /\ owner' = [owner EXCEPT ![s] = "free"]
     /\ en' = [en EXCEPT ![s] = FALSE] /\ stopping' = [stopping EXCEPT ![s] = FALSE]
     /\ serves' = [serves EXCEPT ![s] = "none"]
     /\ flag' = [flag EXCEPT ![s] = "none"]
     /\ UNCHANGED <<at, left, held, into, leaked>>
  \/ /\ en[s]
     /\ stopping' = [stopping EXCEPT ![s] = TRUE]
     /\ leaked' = leaked \cup {s}
     /\ UNCHANGED <<owner, en, serves, at, left, held, into, flag>>

\* Freed without waiting for the hardware.
GiveBackRunning(g) ==
  /\ owner' = [owner EXCEPT ![pair[g]] = "free"]
  /\ serves' = [serves EXCEPT ![pair[g]] = "none"]
  /\ stopping' = [stopping EXCEPT ![pair[g]] = en[pair[g]]]
  /\ UNCHANGED <<en, at, left, held, into, flag, leaked>>

CleanupRxRunning ==
  /\ pc = "cleanup_rx"
  /\ GiveBackRunning("rx")
  /\ Goto("cleanup_tx")
  /\ UNCHANGED <<spi, wire, buffer, calls>>
CleanupRx ==
  /\ pc = "cleanup_rx"
  /\ GiveBack("rx")
  /\ Goto("cleanup_tx")
  /\ UNCHANGED <<spi, wire, buffer, calls>>

CleanupTx ==
  /\ pc = "cleanup_tx"
  /\ GiveBack("tx")
  /\ IF outcome = "OK" THEN NextChunk("acquire_rx") ELSE Return(outcome)
  /\ UNCHANGED <<spi, wire, buffer, calls>>

-----------------------------------------------------------------------------
(* The controller, the DMA engine and the other users of the pool. *)

\* One byte out, and the peer's answer to it in.
HwShift ==
  /\ spe /\ ~fault /\ shifted < Chunk
  /\ txFifo # <<>> /\ Len(rxFifo) < Depth
  /\ txFifo' = Tail(txFifo)
  /\ wire' = Append(wire, Head(txFifo))
  /\ rxFifo' = Append(rxFifo, Len(wire) + 1)
  /\ shifted' = shifted + 1
  /\ ret' = "none"
  /\ UNCHANGED <<pc, path, clock, offset, outcome, pair, txIndex, rxIndex,
                 streams, spe, gates, fault, eot, buffer, calls, leaked>>

HwEndOfTransfer ==
  /\ spe /\ shifted = Chunk /\ ~eot
  /\ eot' = TRUE /\ ret' = "none"
  /\ UNCHANGED <<pc, path, clock, offset, outcome, pair, txIndex, rxIndex,
                 streams, spe, gates, fault, txFifo, rxFifo, shifted, hist>>

\* Overrun, underrun, mode fault, CRC or frame error.
HwFault ==
  /\ spe /\ ~fault /\ ~eot
  /\ fault' = TRUE /\ ret' = "none"
  /\ UNCHANGED <<pc, path, clock, offset, outcome, pair, txIndex, rxIndex,
                 streams, spe, gates, txFifo, rxFifo, shifted, eot, hist>>

Requested(s, g) == en[s] /\ ~stopping[s] /\ serves[s] = g /\ g \in gates /\ spe

\* The stream moves on; after the last byte it turns itself off.
Moved(s) ==
  /\ at' = [at EXCEPT ![s] = @ + 1]
  /\ left' = [left EXCEPT ![s] = @ - 1]
  /\ en' = [en EXCEPT ![s] = left[s] > 1]
  /\ flag' = [flag EXCEPT ![s] = IF left[s] = 1 THEN "TC" ELSE @]
  /\ ret' = "none"
  /\ UNCHANGED <<pc, path, clock, offset, outcome, pair, txIndex, rxIndex,
                 owner, stopping, serves, into>>

HwDmaTx(s) ==
  /\ Requested(s, "tx") /\ Len(txFifo) < Depth
  /\ txFifo' = Append(txFifo, at[s])
  /\ Moved(s)
  /\ UNCHANGED <<held, spe, gates, fault, rxFifo, shifted, eot, hist>>

\* A beat of the receive stream: the byte leaves the FIFO, and reaches memory
\* later, even if the stream has been told to stop meanwhile.
HwDmaRead(s) ==
  /\ Requested(s, "rx") /\ rxFifo # <<>> /\ held[s] = 0
  /\ rxFifo' = Tail(rxFifo)
  /\ held' = [held EXCEPT ![s] = Head(rxFifo)]
  /\ ret' = "none"
  /\ UNCHANGED <<pc, path, clock, offset, outcome, pair, txIndex, rxIndex, owner, en,
                 stopping, serves, at, left, into, flag, spe, gates, fault, txFifo,
                 shifted, eot, hist>>

HwDmaWrite(s) ==
  /\ held[s] # 0
  /\ buffer' = [buffer EXCEPT ![into[s]][at[s]] = held[s]]
  /\ held' = [held EXCEPT ![s] = 0]
  /\ Moved(s)
  /\ UNCHANGED <<spi, wire, calls, leaked>>

HwDmaError(s) ==
  /\ en[s] /\ ~stopping[s] /\ held[s] = 0
  /\ en' = [en EXCEPT ![s] = FALSE]
  /\ flag' = [flag EXCEPT ![s] = "TE"]
  /\ ret' = "none"
  /\ UNCHANGED <<pc, path, clock, offset, outcome, pair, txIndex, rxIndex,
                 owner, stopping, serves, at, left, held, into, spi, hist>>

HwHalt(s) ==
  /\ stopping[s] /\ held[s] = 0
  /\ en' = [en EXCEPT ![s] = FALSE]
  /\ stopping' = [stopping EXCEPT ![s] = FALSE]
  /\ ret' = "none"
  /\ UNCHANGED <<pc, path, clock, offset, outcome, pair, txIndex, rxIndex,
                 owner, serves, at, left, held, into, flag, spi, hist>>

\* Another task acquires a stream, or releases one it is done with.
OtherTask(s) ==
  /\ \/ Lowest(s) /\ owner' = [owner EXCEPT ![s] = "other"]
     \/ owner[s] = "other" /\ owner' = [owner EXCEPT ![s] = "free"]
  /\ ret' = "none"
  /\ UNCHANGED <<pc, path, clock, offset, outcome, pair, txIndex, rxIndex,
                 en, stopping, serves, at, left, held, into, flag, spi, hist>>

Running ==
  \/ PioStart \/ PioFault \/ PioTx \/ PioRx \/ PioWait \/ PioEot \/ PioExpired \/ PioDone
  \/ AcquireRx \/ AcquireRxFail \/ AcquireTx \/ AcquireTxFail \/ Configure
  \/ StartRx \/ StartTx \/ Enable \/ Poll \/ PollWait \/ Cleanup \/ CleanupRx \/ CleanupTx

Transferring ==
  \/ HwShift \/ HwEndOfTransfer
  \/ \E s \in Streams : HwDmaTx(s) \/ HwDmaRead(s) \/ HwDmaWrite(s)

Next ==
  \/ Initialise \/ Call \/ Refused \/ Expire \/ Running
  \/ Transferring \/ HwFault
  \/ \E s \in Streams : HwDmaError(s) \/ HwHalt(s) \/ OtherTask(s)

Spec == Init /\ [][Next]_vars

\* The caller runs, and the controller and its DMA streams make progress.
FairSpec == Spec /\ WF_vars(Running) /\ WF_vars(Transferring)

-----------------------------------------------------------------------------
(* Properties. *)

\* A transfer that returns OK has put every byte of the caller's on the wire
\* once, in order, across chunks, and holds the peer's answer to each at its
\* place: both paths mean the same by OK.
OkMeansAllMoved ==
  ret = "OK" /\ calls > 0 =>
    /\ wire = [k \in 1 .. Size |-> k - 1]
    /\ \A b \in Byte : buffer[calls][b] = b + 1

\* The caller has its buffer back when the call returns, whatever it returned:
\* nothing writes to the buffer of a finished call but the last beat of a stream
\* that would not stop, and never a stream the pool may hand to someone else.
BuffersComeBack ==
  [][\A c \in DOMAIN buffer : buffer'[c] # buffer[c] =>
       \/ pc # "idle" /\ c = calls
       \/ \E s \in leaked : held[s] # 0 /\ owner[s] = "spi"]_vars

\* Between calls the driver holds no stream, except one that would not stop when
\* it was given back; and a pair just acquired is off and has no beat in progress,
\* whoever had it before: the error exits of spi.c:267, 282 and 292 are never taken.
StreamsComeBack ==
  /\ pc = "idle" => \A s \in Streams : owner[s] = "spi" => s \in leaked
  /\ pc \in {"configure", "start_rx"} =>
       /\ pair["rx"] # pair["tx"]
       /\ \A g \in Gates : ~en[pair[g]] /\ held[pair[g]] = 0

\* An unbounded transfer that meets no error ends: neither direction waits for
\* the other for ever.
TransfersEnd == pc # "idle" ~> pc = "idle"

==============================================================================
