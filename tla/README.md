# Verification of the device abstraction stack

TLA+ models of DAS, the device abstraction stack for the STM32H755: what its
drivers promise their callers, checked with TLC on small instances, and, for
the allocation of DMA streams, the monotonic clock, the change of the system
clock, the duty of a PWM channel, the bytes of a UART and the flags of interrupts,
proved with TLAPS for every instance. The C
sources under `src/src` are the reference; `PROJECT.json` maps every definition to
the lines it models.

## 1. The system

DAS is a library of synchronous drivers for one core (CM7 or CM4) that runs
bare metal or under the preemptive kernel HardRT. It has no tasks of its own.
What runs concurrently is: the tasks and interrupt handlers that call it, the
SysTick interrupt, and the hardware (DMA streams, the SPI, I2C and UART blocks,
the Ethernet MAC with its own DMA, the data cache).

| Component | State it keeps | Operations | Interacts with |
|---|---|---|---|
| DMA streams (`dma.c`) | per stream: claimed, generation, configured, active; the stream's registers | acquire, release, configure, start, get_state, wait, abort, set_request | SPI borrows a pair per chunk; time for finite waits; PRIMASK as its lock |
| DMA handles (`dma_handle_internal.h`) | none: index and generation in the token | make, match, next generation | the entry check of every DMA operation |
| SPI (`spi.c`) | registers only | init, transfer by polling or DMA, with or without timeout | DMA streams, time |
| I2C (`i2c.c`) | registers only | init, probe, write, read, write_read | time; a target on the bus |
| UART (`uart.c`) | registers only | init, write, read, flush | time; a peer that sends when it likes |
| Ethernet (`eth.c`) | initialized, ring indices, PHY address; two rings and buffers in cacheable memory | init, send, receive, link_state | MAC DMA through memory, `cache.c`, PHY over MDIO |
| Data cache (`cache.c`) | the cache | clean, invalidate by range | Ethernet; callers that use DMA |
| Time (`common/time.c`, `mcu/cortex_m/time.c`, board `time.c`) | source and context; the SysTick counter | set_source, init, now, elapsed, deadlines, delay, hook | every finite wait of every driver |
| Timer, PWM (`timer.c`) | TIM2 and TIM1 registers | init, start, stop, frequency, duty, update flag | the clock tree; the NVIC |
| Clock tree, power (`clock.c`, `power.c`, board `clock.c`) | RCC, PWR and FLASH registers | apply a profile, read the rates | rates of UART, timers, SysTick |
| GPIO, EXTI (`gpio.c`, `gpio_irq.c`) | port and EXTI registers | configure, write, toggle, interrupts | the NVIC; handlers of the application |
| NVIC (`irq.c`) | enabled and pending interrupts | enable, disable, set and clear pending | every handler |
| Startup, vector table, board tables | none of their own | | |

Interactions are calls downwards, shared registers and memory with hardware,
and two pieces of state shared by contexts: the table of DMA streams and the
pair of time source and context. There are no callbacks but the time source.

What makes each part correct, and what is hard about it:

* **DMA.** A stream has one owner; a token of an allocation that is over is
  refused; a stream that can be claimed is off. Hard: a release takes several
  steps, of which only the last is masked, a stream may refuse to stop, and
  completion shows after EN has cleared.
* **SPI.** OK means all bytes moved; whatever happens the pair of streams goes
  back to the pool and nothing writes to the caller's buffer afterwards. Hard:
  cleanup in the middle of a transfer, with beats in progress and results dropped.
* **Ethernet.** Frames leave in order, at most once, as handed over; the
  receiver never goes deaf; a fault withdraws the instance until it is
  initialised again. Hard: two rings shared with DMA through a cache that may
  fetch and evict any line at any time.
* **I2C, UART.** OK means that this call's bytes moved, no more and no fewer;
  calls end; a failed call does not poison the next. Hard: status flags and
  data registers survive the call that raised them.
* **Time.** No wait ends early, none is missed, across the wrap of the counter.
  Hard: arithmetic modulo 2^32, a pair of words read without a lock.
* **Clock tree.** At every step of a change the clock in use runs within the
  limits, with the supply, voltage and wait states its rate needs; OK means the
  profile asked for; the rate read back is the true one. Hard: a change stops at
  any of eight waits, the hardware completes it later, and the next change
  starts from what is left.
* **Rates.** The divider chosen is the best one that fits its field, for the clock
  that is really there; what runs from HSI keeps its rate through every change,
  as long as the divider of HSI stays. Hard: double rounding, limits met exactly,
  dividers computed before a change.
* **GPIO, EXTI, timers' flags.** No edge and no overflow is lost, none is reported
  that was not asked for, and a pin keeps its owner's level. Hard: flags cleared
  by writing ones, lines that share an interrupt, reconfiguration that looks
  like an edge, handlers between any two register accesses.

`PROJECT.json` lists the hazards at their lines and the properties that watch
each; those without a property say why.

## 2. Modules

| Module | Models |
|---|---|
| `DmaStreams` | `dma.c` and the tokens, step by step, run by preempting tasks |
| `DmaSession` | what the holder of a DMA handle may rely on; `DmaStreams` implements it |
| `DmaStreamsProofs` | theorems about `DmaStreams` |
| `SpiTransfer` | `spi.c`, with the streams of `dma.c` it borrows and the SPI block |
| `SpiTransferProofs` | theorems about `SpiTransfer` |
| `EthRing` | `eth.c` with the data cache, the MAC's DMA, the PHY's answers |
| `MCEthRing` | mixes of work for TLC: what a behaviour sends, receives and initialises |
| `EthQueue` | the queue of received frames; `EthRing` implements it |
| `EthRingProofs` | theorems about `EthRing` |
| `I2cController` | `i2c.c` with the I2C block and a target |
| `I2cControllerProofs` | theorems about `I2cController` |
| `UartIo` | `uart.c` with the UART and a peer |
| `UartIoProofs` | theorems about `UartIo` |
| `MonoTime` | time sources, SysTick, every kind of wait |
| `MonoTimeProofs` | theorems about `MonoTime` |
| `ClockTree` | `clock.c`, `power.c` and the board's profiles, with oscillators, PLL, supply and voltage |
| `ClockClients` | `ClockTree` composed with the peripherals whose dividers are computed from it |
| `Rates` | the divider arithmetic of SPI, I2C, timer, PWM and UART, used by `ClockClients` |
| `MCClockClients` | configurations of other boards and rates asked for, for TLC |
| `ClockTreeProofs` | theorems about `ClockTree`, the rates its clients read and run at, and the duty of a PWM channel |
| `Interrupts` | EXTI lines, TIM2's update interrupt, the NVIC, output pins; a task and handlers |
| `MCInterrupts` | two lines that share an interrupt, for TLC |
| `InterruptsProofs` | theorems about flags and output pins |

Conventions. `pc` is the step a call is in, `ret` what the last step returned
(`"none"` if nothing). Variables marked *history* are not in the code; no guard
of an operation reads them, except that bounds on the length of a behaviour do.
Constants commented `bound:` bound the instance and nothing else. A definition
whose name extends another one (`NextGeneration`, `NextGenerationUnwrapped`) is
a plausible mistake in the code; no specification uses it. Each property of a
passing run is paired in `PROJECT.json` with the mistake that breaks it.

### DMA (`DmaStreams`)

Each task's operation is a sequence of steps between which it can be preempted.
`AcquireClaim` and `ReleaseCommit`/`ReleaseLost` are the two interrupt-masked
sections. Other steps group register accesses of one stream: `ConfigureWrite`
is the rewriting of a stopped stream's registers, `StartArm` the flags, NDTR,
addresses and the active flag, `StartEnable` the write of EN. The poll of
`stop_stream` is `ReleaseSpin`/`AbortSpin` when EN has cleared, and
`...Timeout` when the spin limit is reached first, which may happen at any time
while EN is set. A wait is a loop of `get_state` samples.

Callers use any token ever issued, and two words that never were. The variable
`serialised` is chosen in `Init` and kept: where it is true a token is not used by
two tasks at once, which `das/dma.h:14` and `docs/dma.md:46` ask for; a released
token may still be used by anybody. Properties that need the rule have it as
their hypothesis, so that one run shows what holds with it and what without.

`DmaSession` is what a holder may rely on. Besides the state `get_state` answers it
keeps whether the end of a transfer is still owed to the holder (`owed`): an end is
seen by a sample, or given up by an abort, a configure or a release, and only then
may the next transfer start. A start over an end nobody has looked at, which the
second half of the guard at `dma.c:293` refuses, is no step of it.

Hardware: a transfer finishes or fails, EN clears before TCIF shows
(`dma.c:339`), a stream told to stop drains and raises TCIF. *TrailSettled*, an
assumption: a completion flag that trails EN has shown by the time
`clear_stream_flags` runs; the lag is a few bus cycles and the code relies on it.
Left out: addresses, widths, counts, `das_dma_get_remaining`, `das_dma_get_irq`.

### SPI (`SpiTransfer`)

Both paths share the controller: FIFOs by byte position, EOT, an error flag,
gates. Status reads of the polling path act on one flag at a time. A DMA
operation is one step: it touches one stream, which is this caller's alone, as
the theorem `OnlyOwnersTouch` states. A beat of the receive stream has two
halves, the read of RXDR and the write to memory, so that a stopped stream may
still write once; `BuffersComeBack` is about that. `OtherTask` takes and
gives back streams of the pool. A transfer of size 0 returns OK at once, and
the parameter checks are `Refused`.

### Ethernet (`EthRing`)

Memory is a function from lines to values, the cache a partial copy with a set
of dirty lines. The driver's loads and stores go through it; `Prefetch` and
`Evict` may act between any two steps. A descriptor's value is its owner and
what DMA found; a buffer holds the number of a frame, so that a stale buffer
shows. `Send` is nine steps from the invalidate to the poll; the poll, the
check of FBE and the look at OWN are separate, as in the code. `InitNoPhy` is
any failure of MDIO or of the PHY; `LinkAnswers` is what reading the link state
can return. Cache operations cannot fail with the driver's own arguments (the
only failure of `cache.c` is a bad range), so their error branches are
unreachable and left out. A frame begun is finished by the hardware after ST or
SR is cleared.

`g_initialized` and the registers of the DMA change in steps of their own, in the
order of the code: `EnterFault` withdraws the instance (`eth.c:360`) before
`FaultStop` clears ST and SR (361, 362: one step); `InitWithdraw` (462) comes before
`InitReset` (465), and `InitStart` sets ST and SR (490) before `InitReady` makes the
instance ready (491). Between the two the DMA of an instance that is withdrawn still
runs, or already does: it may send what it was handed and take frames that arrive.
`WithdrawnIsSilent` says that outside these steps it begins nothing, and
`WireInOrder` is about every completed transmission, `HwSent`, not about the number of
the last frame, so that a frame sent again is seen.

### I2C (`I2cController`)

A phase is START with NBYTES and AUTOEND, then TXIS or RXNE per byte, then STOPF
or TC. Each turn of a loop reads the status and then the clock. The target
acknowledges, refuses, or holds the bus as long as it likes. TXDR and RXDR keep
their byte across a STOP, and writing PE = 0 in init clears them.

`CR2.START` is a request. The START goes out in a step of the controller's
(`HwStart`), and only then is ISR.BUSY set. A call whose time runs out between the
two (`i2c.c:225`, then 194) finds the bus idle and asks for no STOP; its START goes
out later, with no call to serve it. `astray` records that this has happened, and the
properties say what is left of them then: `OkMeansExact` no longer knows which call
an acknowledge belongs to, and the bus may stay busy until the next call that times
out on it.

### UART (`UartIo`)

`wait_for_flag` is one turn per status read: `LookFault` then `Clear`,
`LookReady` then the data register, `LookWait` then the clock. FIFOs are off.
A frame that arrives damaged raises an error and fills RDR; one that finds RDR
full is lost with an overrun. There is no flow control, so the transmitter
always makes progress, and the peer owes nothing. The byte that came with a
fault stays in RDR and is returned, with OK, by the read after the
`DAS_ERROR_IO`; `LossIsReported` states exactly what the IO stands for.

### Time (`MonoTime`)

One task waits, in any of the three ways the code has; another context installs
a source; SysTick counts. A millisecond that ends while the last one is still
pending is lost. The rule of `das/time.h:38` (the source is not changed
while others read the time) is the guard `MayInstall`/`MayRead`; the first
source, and the same one again, may be installed at any moment. A source of the
application is modelled as one millisecond ahead of the counter.

### Clock tree (`ClockTree`)

A call is one step per register write or wait of `stm32h755_clock_apply`, in its
order: supply, validation, back to HSI, voltage, flash, dividers, source, PLL,
switch, verification. `pc` names the wait or the write that comes next; a name that
ends in `?` is a wait, which `GiveUp` may end while its condition is false
(`wait_mask` polls at least once, so a wait that is satisfied does not time out). A
call that gave up leaves everything as it is, and the next starts from there.

The hardware is a set of actions of its own: the mux follows SW when the source
asked for is ready, HSE and the PLL start and stop in their time, the PLL locks at
the rate its registers say at that moment, supply and voltage settle. HSI is on in
every state (no code turns it off). A supply is written only once after power-on,
as PWR_CR3 is; `Supplies` are the modes a core may start with.

Rates are whole megahertz, which every profile and limit of the repository is. The
four APB buses have one divider (they always do in the repository). `Managed` adds
configurations of other boards to the four profiles: with HSE, with HSE through the
PLL, beyond the limits, not derivable. Left out: the PLL's outputs Q and R, which no
driver uses, its fractional factor, which is written as zero, and the range bits.

### What the clock drives (`ClockClients`, `Rates`)

`Rates` has the arithmetic as operators only. `ClockClients` runs it: an init reads
the live tree as the driver does, keeps the registers it computes in `client`, and
the clock goes on changing. Rates asked for are in hertz, those of I2C in kilohertz,
as in the API; the tree counts megahertz. Peripherals share nothing but the tree, and
a behaviour follows one at a time. `fresh` is a history variable: the system clock is
still the one the init met. An init during a change that gave up and is still being
completed by the hardware computes for a clock about to go, and is not fresh. `met` is
the divider HSI had at the init of SPI or I2C.

`Followed`, a bound, names the rates of the clients that are followed through a
change: SPI and I2C must keep theirs as long as HSI has the divider they met, a timer
must still report the rate it counts at, a PWM channel must keep its duty. A UART
promises nothing any more. The one change of HSI's divider there is, to 1 by
`switch_to_hsi`, breaks the rate of what was initialised on a divided HSI: that is
`SpiNeverExceedsRequest`, which fails (section 6).

All limits are those of the device: 65536 counts, duties in 1/1000, BRR from 16 to 65535.
A rate above two thirds of the timer's clock and up to it is accepted with ARR = 0, at
which the counter stands still; the properties state that exception by name
(`Counts`) and prove that it is the only one. Properties compare a divider with its
definition by search or inequality, never with the formula that computed it.

### Interrupts and pins (`Interrupts`)

One task, and handlers that preempt it between any two register accesses and run
to their end; all priorities are equal. `part`, a bound, splits the
behaviours in three that share no register: EXTI pins, the timer, outputs.
The five writes of `das_gpio_interrupt_configure` are five steps. What the reference
manual leaves open is open here: a line that is masked may or may not set its flag,
and a change of the route to an input of another level may look like an edge.
`das_timer_init` raises UIF by UG and clears SR afterwards.

The application's handler is modelled as the two in the repository are written
(`button_firmware.c:173`, `firmware.c:373`): for each source of its interrupt it looks
whether the source is pending (`Look`), reads the pin (`HandlerRead`) and clears the
line (`HandlerClear`). No header or document prescribes an order. With this one an
edge between the read and the clear is cleared unseen. `missed` holds the pins to which
that has happened since the last reading: `EventsReachTheirHandler` says that no edge is
lost in any other way, `NoEdgeIsLost` leaves the exception out and fails (section 6).
Left out: priorities, pull, speed and alternate functions of a pin.

## 3. Runs

All runs stop at their bounds and TLC explores everything within. Deadlock is
checked where the hardware or the caller can always move; it is switched off in
`dma_streams` and `i2c_stale`, where all allocations or calls may be used up.

| Run | Shows | Bounds and why they suffice |
|---|---|---|
| `dma_streams` | With no rule between tasks: types, `StaleTokenRefused`, `FreedByOwnAllocation`; where callers serialise: `FreeIsInert`, `ReportedStateIsTrue`, `OnlyOwnerTouches`, the refinement `KeepsSessions`, `CallsReturn`, `WaitFollowsHardware` | 2 tasks, 1 stream, 3 allocations with 2 generations: the third has the first one's generation. A race needs two tasks; streams share nothing but the scan of an acquire, the theorems hold for every count, and `spi_transfer` has two |
| `spi_transfer` | `OkMeansAllMoved`, `StreamsComeBack`, `BuffersComeBack`, `TransfersEnd` | 2 calls of 3 bytes in chunks of 2: a full and a short chunk, a call after a call that failed; 2 streams, so that the second acquire can fail |
| `eth_ring` | `SendOkIsSent`, `RingHandover`, `WireInOrder`, `WithdrawnIsSilent`, `FramesAreTaken`, the refinement `KeepsQueue` | 3 descriptors; after one initialisation 4 frames out or 4 in, so that every slot is used again, or one of each; half of it over 2 initialisations; the link comes up. Cache speculation on the first slot: both descriptors and the receive buffer |
| `eth_fault` | A bus error between FBE and OWN makes a send return OK (finding) | 2 descriptors, 1 send, no speculation |
| `i2c_controller` | `OkMeansExact`, `CallsEnd`, `BusComesBack` | 3 calls of 2 bytes a phase: a call after one that failed after another |
| `i2c_stale` | A read returns a byte of an earlier, broken-off read (finding) | 2 calls of 1 byte |
| `uart_io` | `OkMeansOut`, `WireInOrder`, `LossIsReported`, `FaultsDoNotDeafen`, `CallsEnd` | 2 writes of 2 bytes, any reads, flushes and inits, 4 frames in: a loss, a damage, and sound frames after them |
| `mono_time` | `NeverEarly`, `NeverMissed`, `SourceGetsItsContext`, `WaitsEnd` | a counter of four values: waits start and end on either side of each wrap; polls up to five milliseconds apart, later than a whole range |
| `clock_tree` | `RunsWithinLimits`, `OkMeansProfile`, `ReadsBackTrue`, `HsiClientsKeepTheirRate`, `ClientsRunAtTheirRate`, `DutyHolds` | no bound on the number of changes or of waits that give up: every profile and 5 other configurations over every state another left; HSI whole or divided by 4 at reset. Rates at both ends of each range with their neighbours: SPI from 62499 Hz to 32 MHz; UART 115200 baud, and 1200 and 6250000, which are refused or served depending on the bus; timers at 3, 150 and 201 MHz, PWM from 1 Hz to 150 MHz, among them all counts of a period and ARR = 0; duties 333 and 1000. SPI, I2C and a timer are followed through changes; no PWM rate is, for the number of states, and `DutyIsKept` has no such bound |
| `spi_fast` | SPI initialised on a divided HSI runs faster than asked for after a change (finding) | one request of 1 MHz, HSI divided by 4 |
| `interrupts` | `PendingIsDue`, `PinsAreOwn`, `EventsReachTheirHandler` | no bound on events or calls; lines 5 and 6, which share an interrupt, one of them with a choice of ports and edges. Lines share nothing but their interrupt and PR1 |
| `irq_lost` | An edge between a handler's read and its clear is lost (finding) | as `interrupts` |

`MaxAllocs`, `Workloads` and the like bound the number of calls, never what a
call may do. `Workloads` of the Ethernet is the set of tuples (frames sent, frames that
arrived, initialisations, changes of the link) a behaviour may reach. `Speculated` is the set
of lines that the cache may fetch, or drop clean, at any moment; a dirty line of any kind
may always be written back. A clean copy of a send buffer is never read by the driver,
which stores to it first.

## 4. Fairness

* **Callers run.** A task inside an operation keeps running: weak fairness of its
  steps (of DMA, where callers serialise). Under HardRT this asks that the tasks of
  higher priority block at times.
* **Time passes.** The millisecond clock of a finite wait runs out (`Expire`). In
  `MonoTime` SysTick fires (strong fairness of `Passes`, since reconfiguring
  SysTick over and over stops it each time; weak for its hook).
* **Hardware moves** only where the code can do nothing without it: a completion
  flag shows (`DmaStreams`), the controller and its streams shift bytes
  (`SpiTransfer`), the transmitter shifts (`UartIo`). The I2C target owes
  nothing: `CallsEnd` for endless calls and `BusComesBack` state its fairness as their
  hypothesis, and finite calls need none. A DMA transfer owes nothing
  either: `WaitFollowsHardware` begins when the stream has stopped.
* **Interrupts are taken.** In `Interrupts` the NVIC latches a request that stays up
  (weak fairness), takes an interrupt that is enabled and pending again and again
  (strong: other handlers run in between), and a handler ends (weak). Inputs, the
  task and the counter owe nothing.
* **Polling ends.** A send that polls for ever is not a behaviour of the code, whose
  loop counts to `STM32H755_ETH_WAIT_LIMIT`: strong fairness of `SendGiveUp`.
* **The application polls.** `FramesAreTaken` assumes a caller that calls
  `das_eth_receive` again and again; `FaultsDoNotDeafen` one that keeps reading;
  `WaitsEnd` is about waits polled at least every half range, the rule by which
  `das/time.h:20` makes comparisons unambiguous.

## 5. Proofs

Checked by TLAPS for every value of the constants. Every safety property that a
passing run checks is stated by a theorem.
Assumptions: those on the constants (`StreamCountAssumption`,
`GenLimitAssumption`: at least two generations; `ClockTreeAssumption`: an
oscillator of 4 to 48 MHz, HSI dividers that exist; `ClockClientsAssumption`: a
period register of at least four counts and twice the duties there are, and 200 MHz
below the square of its counts, both of which 65536 and 1000 satisfy with room;
`UartAssumption`, `SpiAssumption` and `CountAssumption` of I2C: calls, chunks,
FIFOs and pools of at least one byte or stream; `CountAssumption` of Ethernet: at
least two descriptors; `InterruptsAssumption`: pins 0 to 15, some edge asked
for). The last four theorems on DMA are about the behaviours whose callers serialise.
`Task`, `Managed`, `Followed`, `Workloads` and all bounds on the number of calls, frames
and changes are arbitrary.

`DmaStreamsProofs`

* `TypeCorrect`: `TypeOK` is inductive.
* `StaleTokensAreRefused`, `OnlyOwnAllocationIsFreed`, with no rule for callers.
  The invariant is `TokensOfAge`: a token `n` allocations old differs from its
  stream's generation by `n` modulo the number of generations, for `n` below a
  full turn. `StaleTokenRefused` alone is not inductive: it says nothing of the
  generation the next acquire will meet.
* `FreeStreamsAreInert`, `OnlyOwnersTouch`, if callers serialise. `SoleOwner`:
  a call in progress holds a token that matches, and two calls are never on one
  stream. `Quiet`: free streams are at rest, and a release that is past its stop
  has its stream off. Both are needed because a release switches its stream off
  several steps before it publishes it.
* `ReportsAreTrue`, if callers serialise. `Truth`: what EN, the flags, the active
  mark and the trailing flag of a stream say together of its last transfer, and which
  operation holds the stream while they say anything else (a stop lets go of a
  transfer before its flags are cleared, an acquire claims before it clears).
* `SessionsAreKept`, the refinement of `DmaSession`: `Serves`, `Engine` and `View`
  are the abstract state of a stream, and every step changes them at one stream by one
  step of its session (`SessionStep`) or leaves all of them (`Unseen`). `Truth` is what tells
  a transfer whose end is still owed from one whose end was seen, at every start.

`MonoTimeProofs`

* `TypeCorrect`, `SourcePaired` (`Steady`: a source that can be read has its
  context beside it).
* `WaitsAreNotShort`, `WaitsAreNotMissed`. `Counted`: the difference of the
  current timestamp and the mark is the number of milliseconds counted, until a
  whole range has passed; `Lived`: at most one more was counted than has passed.
  The arithmetic is in the lemmas `SubTick` and `DeadlineWindow`.

`ClockTreeProofs`

* `TreeIsInvariant`: `TreeInv` holds in every state of `TreeSpec`. `RunsWithinLimits`
  is far from inductive: it says nothing of what the mux will switch to. `CallInv` is
  what a call has made sure of by the step it is at (the supply, SW back on HSI, the
  voltage, the dividers, the PLL's registers); `LockInv`, that a PLL that is ready
  locked at the rate of its registers, and that HSI is whole while the PLL runs; `InUse`, what the
  source in use or asked for needs at every step, and so after a call that
  gave up; `Arrived`, what a call that returned OK leaves. One lemma per
  action, one step per conjunct.
* `ClientsLeaveTheTree`: `Spec => TreeSpec`, so that the rest holds with clients.
* `ClockIsWithinLimits`, `OkIsTheProfile`, `RatesReadBack`. Integer division is nonlinear
  for the prover: `DivUnique` and `DivLess` reduce it to multiplication. `LockOfTarget`
  is the step where `clock.c` computes in two orders: the rate derived from a
  configuration divides by M first, the PLL and the readback last, and they agree
  because a configuration whose M does not divide its source is refused.
  `KernelOfRates`: the timer clock, which `timer.c` computes from the rates of AHB and
  APB rather than from the divider, is the one the reference manual gives.
* `DutyReadsBack`: a duty survives the rounding to a compare value, the clamp at 65535
  and the rounding back, if the period has at least as many counts as there are duties.
* `DutyIsKept`, for every rate asked for and through every change of the clock, whatever
  `Followed` is: with `PwmInv` (a channel's period fits, its compare value is that of its
  duty) and `KernelIsTrue` from the clock tree, since the period must be a number.
* `HsiClientsAreKept`, `ClientsAreOnRate`. `RateInv`: a client's registers are what its
  init computed from the clock it met. For SPI and I2C that is HSI, whose divider no
  step of a change sets to anything but 1 (`HsiInv`), so that the rate is kept exactly
  while the divider is the one of the init (`met`); for the others it holds until the next
  change begins, because an init on a mux that has settled finds nothing under way that
  could change a rate (`BusInv`, `HardwareSettled`). The rest is arithmetic, for every
  rate in hertz: `NearestIsNear`, `PwmPeriodFits` (the period is rounded twice and
  still needs at most 65536 counts), `BrrIsBest`, `PrescalerIsFastest`, `TimingOfHsi`
  (the four rates of HSI with both rates of the bus). The searches of `spi.c` and
  `i2c.c` are recursive functions on 9 and 17 arguments: such a function exists
  because a function written out value by value satisfies its equation, so that no
  induction is needed.

`SpiTransferProofs`, for every pool, chunk, FIFO, length and number of transfers

* `StreamsAreGivenBack`, `BuffersAreGivenBack`. `Pool`: each stream of the driver is
  that of a gate its call holds at the step it is at (`HeldGates`), or was lost by a
  release that timed out; a lost one is told to stop, is never handed out and
  writes at most the beat it has in hand. That a pair is gone is not enough: the
  invariant has to follow it through three failing exits of the call.
* `OkTransfersAreWhole`. `Data`: while the controller is on, each byte of the chunk
  is in one place, still to be fed, in the transmit FIFO, on the wire with its answer
  in the receive FIFO or in a beat, or in the caller's buffer (`Flow`). One form
  serves both paths: what was fed and stored is an index of the polling loop, or the
  position of a stream.

`EthRingProofs`, for every number of descriptors and any speculation of the cache

* `TypeCorrect`, with the lemmas on positions round the ring (`AfterIs`, `GapIs`,
  `GapSplits` ...) that the later proofs rest on: a remainder and a comparison of
  two indices, one of which may have wrapped, reduced to linear arithmetic.
* `WithdrawnBeginsNothing`. `Control`: while the instance is there the DMA runs, and
  while it is not the DMA runs only at the steps between a write of `g_initialized`
  and the write of ST and SR or the reset that goes with it (`Stopping` and `init_ready`); nothing
  is under way while the rings are rebuilt.
* `OkIsSent`, `FramesLeaveInOrder`. `NotStale`: a clean copy of a descriptor can hide
  that the DMA is done with it and never pretend it; `OnlyWritten`: nothing is dirty
  but what the call has just written; `Staged`: the buffer is in memory before the
  descriptor and both before the doorbell; `Sending`: the frame of the call is the
  only one that can be under way, or a bus error stands. With that a completed
  transmission is always of a later frame than the last, so none goes out twice. The descriptor's two owners
  and the cache's copy of it make `SendOkIsSent` far from inductive.
* `RingIsHandedOver`. `Rings`, `AtHead`, `Owned`: counted from the driver's index,
  frames that wait come first, then what the DMA owns, then the one kept apart.
* `ReceivesAreAQueue`, the refinement of `EthQueue`. `Frames`, the abstract queue, are
  the buffers from the driver's index to the DMA's. `Order`: their frames are in the
  order of arrival and later than the last one delivered; `Copied`: what the driver
  copies is what is in memory, since its invalidate comes after the frame and a line
  fetched later is no older. Closing a frame is `Accept`, the last step of the recycle
  `Take` or `Discard`, `das_eth_init` `Forget`, any other step a stutter.

`I2cControllerProofs`, for every length of a phase and every number of calls

* `OkCallsAreExact`. `Addressed`: as long as no START is astray, a call without an answer
  to its address finds an error flag, or no flag at all. `Bytes`: as long as no call was broken off, a call
  begins with empty data registers, and each of its bytes is with the caller, in a
  register or with the target; the invariant follows the repeated START of a
  write-read, where the registers are empty once more.

`UartIoProofs`, for every length of a call and every number of writes and frames

* `OkIsOut`, `BytesLeaveInOrder`. `Stream` is what has left, then the shift register,
  then TDR. `StreamInv`: neighbours in it are consecutive bytes of one write, or the
  first of a later one, and a write in progress has its bytes at the end. The wire
  alone is not inductive: a write that timed out leaves up to two bytes behind.
* `NoGapIsSilent`. `ReceiverInv`: a frame lost or damaged since the last IO has its
  error flag up; and once a read has looked, what goes wrong concerns later frames
  than the one it is about to take.

`InterruptsProofs`, for every set of lines, ports and edges

* `FlagsAreDue`. `CallInv` ties the step a configuration is at to the pin it is
  about: a flag that is not due belongs to that pin, and the call's last step clears
  it. `PendingIsDue` is not inductive, since it does not say what the next step does.
* `OutputsAreOwn`. `OutputInv`: what a toggle has read of its own pin is still true when
  it writes, whatever the handler did to the other pin of the port.

Only model-checked: all liveness properties (fairness and ENABLED are out of
the prover's reach), which are `CallsReturn`, `WaitFollowsHardware`,
`TransfersEnd`, `FramesAreTaken`, `CallsEnd`, `BusComesBack`, `FaultsDoNotDeafen`,
`WaitsEnd` and `EventsReachTheirHandler`.

Before each proof TLC checked its inductive invariant as an invariant of the run,
for the Ethernet ring with two and with three descriptors and every kind of line
open to speculation.

## 6. Where the code and its word part

1. `eth.c:563`. FBE is read before OWN, and a bus error between the two reads
   makes `das_eth_send` return OK for a frame that was lost, which the comment
   at `eth.c:561` means to exclude. The next call reports it: `SendOkIsSent`
   shows that a wrong OK never comes without FBE standing. (`eth_fault`)
2. `i2c.c:193`. A call that is broken off leaves a received byte in RXDR; the next
   read returns it first, with OK. (`i2c_stale`)
3. `clock.c:287`. `switch_to_hsi` sets the divider of HSI to 1. SPI that was initialised
   while HSI was divided computed its prescaler from the divided rate (`spi.c:49`), and
   after the next change of the clock runs up to eight times as fast, above the
   "requested maximum serial clock" of `das/spi.h:35`. It takes a core that starts with HSI
   divided by what ran before: nothing in the repository divides it. (`spi_fast`)
4. `button_firmware.c:179`. The handler reads the level of the pin, then clears its line;
   an edge between the two is cleared unseen, and the release that
   `stm32h755_button_state.gdb:31` asks to be counted is not. `firmware.c:375` has the
   same order. A handler that clears before it reads loses none. (`irq_lost`)

Found on the way and not stated as a property of a run:

* `dma.c:376`: `das_dma_wait_timeout` drops the result of `das_dma_abort`. If the stream
  does not stop within the spin limit it runs on, and the caller, who is told
  `DAS_ERROR_TIMEOUT`, learns it only from `das_dma_get_state`.
* `eth.c:528` looks unreachable, since every send waits for its own descriptor; so do the
  error exits of `spi.c:267`, `282` and `292`, for a pair just acquired is free.
* `timer.c:308`: `das_pwm_stop` does not update the active compare value. A duty set
  while running and followed by a stop in the same period is not in use at the next
  start, for one period; `DutyHolds` excepts exactly that (`late`).
* `i2c.c:225`: a call that gives up right after its write of CR2.START, before ISR.BUSY is
  set, asks for no STOP (`i2c.c:194`). The START goes out with no call, and holds the bus
  until the next call has timed out on it (`BusComesBack`).
* With a rate above two thirds of the timer clock `das_timer_init` computes a period of
  one count, ARR = 0, at which the counter stands still.
* UART and timers ask for the tree with an HSE rate of 0 (`uart.c:121`, `timer.c:50`), so
  that they are refused under a clock that comes from HSE.
* An init that runs between a change that timed out and its completion by the hardware
  computes for a clock about to go; nothing in the code can tell (`fresh`).

## 7. Not modelled, and the plan

Not modelled at all: the second core (each is a system of its own here; sharing
hardware between the cores is excluded by `docs/dma.md` and `docs/ethernet.md`);
startup, vector table and board tables, which keep no state that can be
wrong between two steps; build files and scripts; registers that only set a
mode. Left out inside modelled parts: see `PROJECT.json`, "components".

Done, in this order: DMA streams, their sessions and proofs; time and its proofs;
Ethernet rings; SPI over DMA; I2C; UART; the clock tree, its clients and their
proofs; GPIO interrupts, the timer's update flag and output pins, and their proofs;
the proofs about the UART, the reports and sessions of DMA, SPI, I2C, the Ethernet
rings with their queue, and the rates of the clock's clients. What is left:

1. Registers that several drivers read, change and write back without a mask: the RCC
   enables (`dma.c:108` against `eth.c:141`) and the configuration registers of GPIO
   and EXTI (`gpio.c:153`, `266`). The code has no rule for who may configure when;
   each model here has one configuring context.
2. Proofs: `FreeIsInert` for the streams of `SpiTransfer` from the theorems on
   `DmaStreams`, by composing both.
3. The live counter of a timer and the pending bit of its interrupt across
   `das_irq_set_priority`, when an application with two priorities exists.
