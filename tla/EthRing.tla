------------------------------ MODULE EthRing ------------------------------
(***************************************************************************)
(* The Ethernet driver of the STM32H755's Cortex-M7                        *)
(* (device/stm32h755/eth.c): two descriptor rings shared by the driver,    *)
(* whose loads and stores go through the data cache, and the MAC's DMA,    *)
(* which reads and writes memory behind it.                                *)
(*                                                                         *)
(* One caller at a time, as das/eth.h asks.  Between two steps of a call   *)
(* the MAC sends, receives and fails, the link comes and goes, and the     *)
(* cache speculates: it may fetch any line it does not hold and write back *)
(* or drop any line it holds.                                              *)
(***************************************************************************)
EXTENDS Naturals, FiniteSets, Sequences

CONSTANTS
  Count,         \* descriptors of each ring (4 in the code)
  Workloads,     \* bound: how many frames the caller hands to das_eth_send and how
                 \* many the link partner sends, how many calls of das_eth_init and
                 \* changes of the link there are: the tuples a behaviour may reach
  Speculated     \* bound: the lines the cache fetches, and drops clean

ASSUME CountAssumption  == Count \in Nat /\ Count > 1
ASSUME WorkloadsAssumption == Workloads \subseteq Nat \X Nat \X Nat \X Nat

Ring == 0 .. Count - 1
After(i) == (i + 1) % Count

TxDesc(i) == <<"tx_desc", i>>
TxBuf(i)  == <<"tx_buffer", i>>
RxDesc(i) == <<"rx_desc", i>>
RxBuf(i)  == <<"rx_buffer", i>>
Kinds == {"tx_desc", "tx_buffer", "rx_desc", "rx_buffer"}
Line  == Kinds \X Ring

ASSUME SpeculatedAssumption == Speculated \subseteq Line

\* A descriptor line holds what its desc3 says: "dma", owned by the DMA; "cpu",
\* owned by the CPU; and for receive "good" or "bad", the CPU's with what the DMA
\* found.  A buffer line holds a frame's number; 0 is a buffer nobody wrote to.

VARIABLES
  mem,         \* each line in memory, as the DMA sees it
  cache,       \* the lines the cache holds, with the value it holds
  dirty,       \* lines written and not yet cleaned
  initialized, txIndex, rxIndex,    \* the driver's statics
  pc,          \* the step of the call in progress
  got,         \* the frame (send: being sent; receive: copied to the caller)
  outcome,     \* what a receive that recycles its descriptor will return
  ret,         \* what the last step returned to its caller
  txRun, rxRun, fbe,                \* DMA: ST, SR and the fatal bus error flag
  txCur, txTail, rxCur, rxTail,     \* DMA: current descriptors, tail pointers
  txFetch,     \* the frame the DMA has read and is sending, 0 for none
  rxFill,      \* the frame the DMA is writing to memory, 0 for none
  link,        \* the PHY's link status
  wire,        \* history: the last frame put on the wire
  arrived,     \* history: frames that reached the MAC
  delivered,   \* history: the last frame a receive returned
  sends, inits, links   \* history: calls and changes of the link so far

driver == <<initialized, txIndex, rxIndex, pc, got, outcome, ret>>
dma    == <<txRun, rxRun, fbe, txCur, txTail, rxCur, rxTail, txFetch, rxFill>>
memory == <<mem, cache, dirty>>
hist   == <<wire, arrived, delivered, sends, inits, links>>
vars   == <<driver, dma, memory, link, hist>>

NoReturn == [op |-> "none", result |-> "none"]

Goto(step) == pc' = step /\ ret' = NoReturn
Advance(step) == Goto(step) /\ UNCHANGED <<got, outcome>>
Return(op, result) ==
  /\ pc' = "idle"
  /\ got' = 0 /\ outcome' = "none"
  /\ ret' = [op |-> op, result |-> result]

-----------------------------------------------------------------------------
(* The data cache: mcu/cortex_m/cache.c and the loads and stores around it. *)

Load(l) == IF l \in DOMAIN cache THEN cache[l] ELSE mem[l]
Without(f, lines) == [l \in DOMAIN f \ lines |-> f[l]]
With(f, l, value) == [k \in DOMAIN f \cup {l} |-> IF k = l THEN value ELSE f[k]]

Store(l, value) ==
  /\ cache' = With(cache, l, value)
  /\ dirty' = dirty \cup {l}
  /\ UNCHANGED mem

Clean(l) ==
  /\ mem' = IF l \in dirty THEN [mem EXCEPT ![l] = cache[l]] ELSE mem
  /\ dirty' = dirty \ {l}
  /\ UNCHANGED cache

CleanNothing(l) == UNCHANGED memory

\* Invalidating loses what the line was not cleaned of.
Invalidate(l) ==
  /\ cache' = Without(cache, {l})
  /\ dirty' = dirty \ {l}
  /\ UNCHANGED mem
InvalidateNothing(l) == UNCHANGED memory

Prefetch(l) ==
  /\ l \in Speculated /\ l \notin DOMAIN cache
  /\ cache' = With(cache, l, mem[l])
  /\ UNCHANGED <<mem, dirty, driver, dma, link, hist>>

Evict(l) ==
  /\ l \in DOMAIN cache /\ (l \in Speculated \/ l \in dirty)
  /\ mem' = IF l \in dirty THEN [mem EXCEPT ![l] = cache[l]] ELSE mem
  /\ cache' = Without(cache, {l})
  /\ dirty' = dirty \ {l}
  /\ UNCHANGED <<driver, dma, link, hist>>

-----------------------------------------------------------------------------
(* das_eth_init. *)

Init ==
  /\ mem = [l \in Line |-> IF l[1] \in {"tx_desc", "rx_desc"} THEN "cpu" ELSE 0]
  /\ cache = [l \in {} |-> 0]
  /\ dirty = {}
  /\ initialized = FALSE /\ txIndex = 0 /\ rxIndex = 0
  /\ pc = "idle" /\ got = 0 /\ outcome = "none" /\ ret = NoReturn
  /\ txRun = FALSE /\ rxRun = FALSE /\ fbe = FALSE
  /\ txCur = 0 /\ txTail = 0 /\ rxCur = 0 /\ rxTail = 0 /\ txFetch = 0 /\ rxFill = 0
  /\ link = FALSE
  /\ wire = 0 /\ arrived = 0 /\ delivered = 0 /\ sends = 0 /\ inits = 0 /\ links = 0

\* The instance is withdrawn; the DMA still runs.
InitWithdraw ==
  /\ pc = "idle" /\ <<sends, arrived, inits + 1, links>> \in Workloads
  /\ inits' = inits + 1
  /\ initialized' = FALSE
  /\ Advance("init_reset")
  /\ UNCHANGED <<txIndex, rxIndex, dma, memory, link, wire, arrived, delivered,
                 sends, links>>

\* enable_and_reset_mac, and a software reset that may not finish.
InitReset ==
  /\ pc = "init_reset"
  /\ txRun' = FALSE /\ rxRun' = FALSE /\ fbe' = FALSE
  /\ txFetch' = 0 /\ rxFill' = 0
  /\ \/ Advance("init_rings")
     \/ Return("init", "TIMEOUT")
  /\ UNCHANGED <<initialized, txIndex, rxIndex, txCur, txTail, rxCur, rxTail, memory, link, hist>>

\* initialize_descriptors: both rings and their buffers, written and cleaned
\* while the DMA is stopped.
InitRings ==
  LET fresh == [l \in Kinds \X Ring |->
                  CASE l[1] = "tx_desc" -> "cpu"
                    [] l[1] = "rx_desc" -> "dma"
                    [] OTHER            -> mem[l]]
  IN
  /\ pc = "init_rings"
  /\ mem' = fresh
  /\ cache' = [l \in {k \in Line : k[1] \in {"tx_desc", "rx_desc"}} |-> fresh[l]]
  /\ dirty' = {}
  /\ txIndex' = 0 /\ rxIndex' = 0
  /\ txCur' = 0 /\ txTail' = 0 /\ rxCur' = 0 /\ rxTail' = Count - 1
  /\ Advance("init_phy")
  /\ UNCHANGED <<initialized, txRun, rxRun, fbe, txFetch, rxFill, link, hist>>

\* discover_phy and configure_phy: no PHY answers, or MDIO fails.
InitNoPhy ==
  /\ pc = "init_phy"
  /\ \E result \in {"NOT_READY", "TIMEOUT"} : Return("init", result)
  /\ UNCHANGED <<initialized, txIndex, rxIndex, dma, memory, link, hist>>

\* start_mac_dma: the DMA runs before the instance is ready.
InitStart ==
  /\ pc = "init_phy"
  /\ txRun' = TRUE /\ rxRun' = TRUE
  /\ Advance("init_ready")
  /\ UNCHANGED <<initialized, txIndex, rxIndex, fbe, txCur, txTail, rxCur, rxTail,
                 txFetch, rxFill, memory, link, hist>>

InitReady ==
  /\ pc = "init_ready"
  /\ initialized' = TRUE
  /\ Return("init", "OK")
  /\ UNCHANGED <<txIndex, rxIndex, dma, memory, link, hist>>

\* enter_dma_fault_state: the instance is withdrawn until the next das_eth_init;
\* the call, a send or a receive, has the DMA still to stop.
EnterFault(stop, reason) ==
  /\ initialized' = FALSE
  /\ Goto(stop)
  /\ outcome' = reason
  /\ UNCHANGED <<txIndex, rxIndex, got, dma, memory, link, hist>>

StopSteps == {"send_stop", "receive_stop"}

FaultStopSkipped ==
  /\ pc \in StopSteps
  /\ Return(IF pc = "send_stop" THEN "send" ELSE "receive", outcome)
  /\ UNCHANGED <<initialized, txIndex, rxIndex, dma, memory, link, hist>>
FaultStop ==
  /\ pc \in StopSteps
  /\ txRun' = FALSE /\ rxRun' = FALSE
  /\ Return(IF pc = "send_stop" THEN "send" ELSE "receive", outcome)
  /\ UNCHANGED <<initialized, txIndex, rxIndex, fbe, txCur, txTail, rxCur, rxTail,
                 txFetch, rxFill, memory, link, hist>>

-----------------------------------------------------------------------------
(* das_eth_send. *)

\* read_link_state: the PHY's answer, or a failure of MDIO or a mode the PHY
\* does not name.
LinkAnswers == {IF link THEN "UP" ELSE "DOWN", "TIMEOUT", "IO"}

\* Not initialized, the link is down, or its state cannot be read.
SendRefused ==
  /\ pc = "idle"
  /\ \/ ~initialized /\ Return("send", "NOT_READY")
     \/ initialized /\ \E answer \in LinkAnswers \ {"UP"} :
          Return("send", IF answer = "DOWN" THEN "NOT_READY" ELSE answer)
  /\ UNCHANGED <<initialized, txIndex, rxIndex, dma, memory, link, hist>>

SendFaulted ==
  /\ pc = "idle" /\ initialized /\ link /\ fbe
  /\ EnterFault("send_stop", "IO")

Send ==
  /\ pc = "idle" /\ initialized /\ link /\ ~fbe
  /\ <<sends + 1, arrived, inits, links>> \in Workloads
  /\ sends' = sends + 1
  /\ got' = sends + 1
  /\ Invalidate(TxDesc(txIndex))
  /\ Goto("send_own")
  /\ UNCHANGED <<initialized, txIndex, rxIndex, outcome, dma, link,
                 wire, arrived, delivered, inits, links>>

SendOwn ==
  /\ pc = "send_own"
  /\ IF Load(TxDesc(txIndex)) = "dma"
     THEN Return("send", "NOT_READY")
     ELSE Advance("send_copy")
  /\ UNCHANGED <<initialized, txIndex, rxIndex, dma, memory, link, hist>>

SendCopy ==
  /\ pc = "send_copy"
  /\ Store(TxBuf(txIndex), got)
  /\ Advance("send_clean")
  /\ UNCHANGED <<initialized, txIndex, rxIndex, dma, link, hist>>

SendCleanSkipped ==
  /\ pc = "send_clean"
  /\ CleanNothing(TxBuf(txIndex))
  /\ Advance("send_desc")
  /\ UNCHANGED <<initialized, txIndex, rxIndex, dma, link, hist>>
SendClean ==
  /\ pc = "send_clean"
  /\ Clean(TxBuf(txIndex))
  /\ Advance("send_desc")
  /\ UNCHANGED <<initialized, txIndex, rxIndex, dma, link, hist>>

\* The barrier orders OWN after the rest of the descriptor.
SendDesc ==
  /\ pc = "send_desc"
  /\ Store(TxDesc(txIndex), "dma")
  /\ Advance("send_publish")
  /\ UNCHANGED <<initialized, txIndex, rxIndex, dma, link, hist>>

SendPublish ==
  /\ pc = "send_publish"
  /\ Clean(TxDesc(txIndex))
  /\ Advance("send_kick")
  /\ UNCHANGED <<initialized, txIndex, rxIndex, dma, link, hist>>

SendKick ==
  /\ pc = "send_kick"
  /\ txIndex' = After(txIndex)
  /\ txTail' = After(txIndex)
  /\ Advance("send_poll")
  /\ UNCHANGED <<initialized, rxIndex, txRun, rxRun, fbe, txCur, rxCur, rxTail,
                 txFetch, rxFill, memory, link, hist>>

\* The descriptor a send waits for: txIndex is already past it.
CurrentIsNext == txIndex
Current == (txIndex + Count - 1) % Count

SendPoll ==
  /\ pc = "send_poll"
  /\ Invalidate(TxDesc(Current))
  /\ Advance("send_check")
  /\ UNCHANGED <<initialized, txIndex, rxIndex, dma, link, hist>>

SendCheck ==
  /\ pc = "send_check"
  /\ \/ /\ ~fbe /\ Advance("send_look")
        /\ UNCHANGED <<initialized, txIndex, rxIndex, dma, memory, link, hist>>
     \/ fbe /\ EnterFault("send_stop", "IO")

SendLook ==
  /\ pc = "send_look"
  /\ IF Load(TxDesc(Current)) = "dma"
     THEN Advance("send_poll")
     ELSE Return("send", "OK")
  /\ UNCHANGED <<initialized, txIndex, rxIndex, dma, memory, link, hist>>

\* The poll limit.
SendGiveUp ==
  /\ pc = "send_look" /\ Load(TxDesc(Current)) = "dma"
  /\ EnterFault("send_stop", "TIMEOUT")

-----------------------------------------------------------------------------
(* das_eth_receive. *)

ReceiveRefused ==
  /\ pc = "idle" /\ ~initialized
  /\ Return("receive", "NOT_READY")
  /\ UNCHANGED <<initialized, txIndex, rxIndex, dma, memory, link, hist>>

ReceiveFaulted ==
  /\ pc = "idle" /\ initialized /\ fbe
  /\ EnterFault("receive_stop", "IO")

ReceiveUnsynced ==
  /\ pc = "idle" /\ initialized /\ ~fbe
  /\ InvalidateNothing(RxDesc(rxIndex))
  /\ Advance("receive_own")
  /\ UNCHANGED <<initialized, txIndex, rxIndex, dma, link, hist>>
Receive ==
  /\ pc = "idle" /\ initialized /\ ~fbe
  /\ Invalidate(RxDesc(rxIndex))
  /\ Advance("receive_own")
  /\ UNCHANGED <<initialized, txIndex, rxIndex, dma, link, hist>>

\* Nothing there; a frame; or one the DMA marked or the caller has no room for.
ReceiveOwn ==
  /\ pc = "receive_own"
  /\ LET status == Load(RxDesc(rxIndex)) IN
     \/ status = "dma" /\ Return("receive", "EMPTY")
     \/ /\ status = "good"
        /\ outcome' = "OK" /\ Goto("receive_sync") /\ UNCHANGED got
     \/ /\ status = "good"
        /\ outcome' = "INVALID_ARGUMENT" /\ Goto("recycle_sync") /\ UNCHANGED got
     \/ /\ status = "bad"
        /\ outcome' = "IO" /\ Goto("recycle_sync") /\ UNCHANGED got
  /\ UNCHANGED <<initialized, txIndex, rxIndex, dma, memory, link, hist>>

ReceiveSyncSkipped ==
  /\ pc = "receive_sync"
  /\ InvalidateNothing(RxBuf(rxIndex))
  /\ Advance("receive_copy")
  /\ UNCHANGED <<initialized, txIndex, rxIndex, dma, link, hist>>
ReceiveSync ==
  /\ pc = "receive_sync"
  /\ Invalidate(RxBuf(rxIndex))
  /\ Advance("receive_copy")
  /\ UNCHANGED <<initialized, txIndex, rxIndex, dma, link, hist>>

ReceiveCopy ==
  /\ pc = "receive_copy"
  /\ got' = Load(RxBuf(rxIndex))
  /\ Goto("recycle_sync")
  /\ UNCHANGED <<initialized, txIndex, rxIndex, outcome, dma, memory, link, hist>>

\* recycle_rx_descriptor.
RecycleSync ==
  /\ pc = "recycle_sync"
  /\ Invalidate(RxBuf(rxIndex))
  /\ Advance("recycle_desc")
  /\ UNCHANGED <<initialized, txIndex, rxIndex, dma, link, hist>>

RecycleDesc ==
  /\ pc = "recycle_desc"
  /\ Store(RxDesc(rxIndex), "dma")
  /\ Advance("recycle_publish")
  /\ UNCHANGED <<initialized, txIndex, rxIndex, dma, link, hist>>

RecyclePublishSkipped ==
  /\ pc = "recycle_publish"
  /\ CleanNothing(RxDesc(rxIndex))
  /\ Advance("recycle_kick")
  /\ UNCHANGED <<initialized, txIndex, rxIndex, dma, link, hist>>
RecyclePublish ==
  /\ pc = "recycle_publish"
  /\ Clean(RxDesc(rxIndex))
  /\ Advance("recycle_kick")
  /\ UNCHANGED <<initialized, txIndex, rxIndex, dma, link, hist>>

\* The tail pointer moves to the descriptor just recycled, the index past it;
\* a receive that copied a frame returns it, another the error.
RecycleKick ==
  /\ pc = "recycle_kick"
  /\ rxTail' = rxIndex
  /\ rxIndex' = After(rxIndex)
  /\ delivered' = IF outcome = "OK" THEN got ELSE delivered
  /\ Return("receive", outcome)
  /\ UNCHANGED <<initialized, txIndex, txRun, rxRun, fbe, txCur, txTail, rxCur, txFetch, rxFill,
                 memory, link, wire, arrived, sends, inits, links>>

\* das_eth_link_state changes nothing the rings depend on.
LinkState ==
  /\ pc = "idle"
  /\ \/ ~initialized /\ Return("link_state", "NOT_READY")
     \/ initialized /\ \E answer \in LinkAnswers : Return("link_state", answer)
  /\ UNCHANGED <<initialized, txIndex, rxIndex, dma, memory, link, hist>>

-----------------------------------------------------------------------------
(* The MAC's DMA and the PHY, as eth.c relies on them. *)

\* The DMA stops at the tail pointer and at a descriptor it does not own.  A
\* frame it has begun it finishes even when the driver stops the channel.
TxReady == txRun /\ ~fbe /\ txCur # txTail /\ mem[TxDesc(txCur)] = "dma"
RxReady == rxRun /\ ~fbe /\ rxCur # rxTail /\ mem[RxDesc(rxCur)] = "dma"

HwFetch ==
  /\ TxReady /\ txFetch = 0
  /\ txFetch' = mem[TxBuf(txCur)]
  /\ ret' = NoReturn
  /\ UNCHANGED <<initialized, txIndex, rxIndex, pc, got, outcome, txRun, rxRun, fbe,
                 txCur, txTail, rxCur, rxTail, rxFill, memory, link, hist>>

HwSent ==
  /\ txFetch # 0 /\ ~fbe
  /\ wire' = txFetch
  /\ txFetch' = 0
  /\ mem' = [mem EXCEPT ![TxDesc(txCur)] = "cpu"]
  /\ txCur' = After(txCur)
  /\ ret' = NoReturn
  /\ UNCHANGED <<initialized, txIndex, rxIndex, pc, got, outcome, txRun, rxRun, fbe,
                 txTail, rxCur, rxTail, rxFill, cache, dirty, link,
                 arrived, delivered, sends, inits, links>>

\* A frame arrives: the DMA fills the buffer, then closes the descriptor.
HwFill ==
  /\ RxReady /\ rxFill = 0
  /\ <<sends, arrived + 1, inits, links>> \in Workloads
  /\ arrived' = arrived + 1
  /\ rxFill' = arrived + 1
  /\ mem' = [mem EXCEPT ![RxBuf(rxCur)] = arrived + 1]
  /\ ret' = NoReturn
  /\ UNCHANGED <<initialized, txIndex, rxIndex, pc, got, outcome, txRun, rxRun, fbe,
                 txCur, txTail, rxCur, rxTail, txFetch, cache, dirty, link,
                 wire, delivered, sends, inits, links>>

HwClose ==
  /\ rxFill # 0 /\ ~fbe
  /\ \E status \in {"good", "bad"} : mem' = [mem EXCEPT ![RxDesc(rxCur)] = status]
  /\ rxFill' = 0
  /\ rxCur' = After(rxCur)
  /\ ret' = NoReturn
  /\ UNCHANGED <<initialized, txIndex, rxIndex, pc, got, outcome, txRun, rxRun, fbe,
                 txCur, txTail, rxTail, txFetch, cache, dirty, link, hist>>

\* A frame that finds no descriptor is lost.
HwDrop ==
  /\ rxRun /\ ~RxReady /\ rxFill = 0
  /\ <<sends, arrived + 1, inits, links>> \in Workloads
  /\ arrived' = arrived + 1
  /\ ret' = NoReturn
  /\ UNCHANGED <<initialized, txIndex, rxIndex, pc, got, outcome, dma, memory, link,
                 wire, delivered, sends, inits, links>>

\* A fatal bus error stops both channels; it may clear OWN of the descriptor
\* in use (eth.c:561) although the frame is not sent.
HwBusError ==
  /\ txRun \/ rxRun
  /\ ~fbe
  /\ fbe' = TRUE
  /\ mem' \in {mem, IF TxReady THEN [mem EXCEPT ![TxDesc(txCur)] = "cpu"] ELSE mem}
  /\ ret' = NoReturn
  /\ UNCHANGED <<initialized, txIndex, rxIndex, pc, got, outcome, txRun, rxRun,
                 txCur, txTail, rxCur, rxTail, txFetch, rxFill, cache, dirty, link, hist>>

HwLink ==
  /\ <<sends, arrived, inits, links + 1>> \in Workloads
  /\ links' = links + 1
  /\ link' = ~link
  /\ ret' = NoReturn
  /\ UNCHANGED <<initialized, txIndex, rxIndex, pc, got, outcome, dma, memory,
                 wire, arrived, delivered, sends, inits>>

Hardware == HwFetch \/ HwSent \/ HwFill \/ HwClose \/ HwDrop \/ HwBusError \/ HwLink

Driver ==
  \/ InitWithdraw \/ InitReset \/ InitRings \/ InitNoPhy \/ InitStart \/ InitReady
  \/ FaultStop
  \/ SendRefused \/ SendFaulted \/ Send \/ SendOwn \/ SendCopy \/ SendClean
  \/ SendDesc \/ SendPublish \/ SendKick
  \/ SendPoll \/ SendCheck \/ SendLook \/ SendGiveUp
  \/ ReceiveRefused \/ ReceiveFaulted \/ Receive \/ ReceiveOwn \/ ReceiveSync
  \/ ReceiveCopy \/ RecycleSync \/ RecycleDesc \/ RecyclePublish \/ RecycleKick
  \/ LinkState

Next == Driver \/ Hardware \/ \E l \in Line : Prefetch(l) \/ Evict(l)

Spec == Init /\ [][Next]_vars

\* A call that has begun runs on, a send does not poll beyond its limit, and the
\* owner of the instance polls it: one of its calls, again and again, is a receive.
FairSpec ==
  Spec /\ WF_vars(pc # "idle" /\ Driver) /\ SF_vars(SendGiveUp) /\ SF_vars(Receive)

-----------------------------------------------------------------------------
(* Properties. *)

\* The descriptors from a up to b, b excluded, round the ring.
Span(a, b) == {(a + k) % Count : k \in 0 .. ((b + Count - a) % Count) - 1}

Usable  == Span(rxCur, rxTail)    \* the DMA may fill these
Waiting == Span(rxIndex, rxCur)   \* these hold frames not yet taken

\* Frames reach the wire in the order they were handed to das_eth_send, each
\* at most once and as it was handed over, through the cache: timeouts, faults
\* and reinitialisation lose frames and never repeat or mix them.  HwSent is
\* every transmission, that of the last frame over again included.
WireInOrder == [][HwSent => wire' > wire]_vars

\* A send that returns OK has put its frame on the wire, or a bus error
\* occurred that the next call reports.
SendOkIsSent ==
  ret = [op |-> "send", result |-> "OK"] => wire = sends \/ fbe

\* docs/ethernet.md: a fatal fault "stops the MAC/DMA path, marks the instance
\* uninitialized", in the code in the other order (eth.c:360-362).  A withdrawn
\* instance begins no frame but in the step that still has the DMA to stop, or
\* to reset (eth.c:462-465); and one not ready yet sends none, though it may
\* receive once its DMA runs (eth.c:490-491).
Stopping == StopSteps \cup {"init_reset"}
WithdrawnIsSilent ==
  [][ /\ txFetch = 0 /\ txFetch' # 0 => initialized \/ pc \in Stopping
      /\ rxFill = 0 /\ rxFill' # 0 => initialized \/ pc \in Stopping \cup {"init_ready"}
    ]_vars

\* The rings are handed over whole: every descriptor up to the tail is the
\* DMA's in memory, and every one short of the one kept apart is either that
\* or holds a frame for the caller.  The receiver is never deaf: when nothing
\* waits, Count - 1 frames can come.
RingHandover ==
  rxRun =>
    /\ \A i \in Usable : mem[RxDesc(i)] = "dma"
    /\ \A i \in Waiting \ {rxIndex} : mem[RxDesc(i)] # "dma"
    /\ Cardinality(Usable) + Cardinality(Waiting) = Count - 1

\* A frame at the head of the ring is taken by a caller that keeps polling,
\* whatever copy of its descriptor the cache held, unless a fault ends it all.
FramesAreTaken ==
  \A i \in Ring :
    rxRun /\ rxIndex = i /\ i \in Waiting ~> rxIndex # i \/ fbe \/ ~initialized

\* What the caller receives: a first-in first-out queue of at most Count - 1
\* frames, a queue that forgets its frames only at das_eth_init.
Queue == INSTANCE EthQueue WITH
  Room  <- Count - 1,
  queue <- [k \in 1 .. (rxCur + Count - rxIndex) % Count |->
              mem[RxBuf((rxIndex + k - 1) % Count)]],
  taken <- delivered

\* See Queue: the refinement of EthQueue.
KeepsQueue == Queue!Spec

\* eth.c:561: "Check fatal DMA state *before* trusting ownership completion: a
\* bus fault can also clear OWN without a successful wire transfer".
SendOkOnWire ==
  ret = [op |-> "send", result |-> "OK"] => wire = sends

=============================================================================
