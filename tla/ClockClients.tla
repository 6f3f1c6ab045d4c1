---------------------------- MODULE ClockClients ----------------------------
(***************************************************************************)
(* The peripherals whose rates come from the clock tree.  An init reads    *)
(* the live tree, chooses its dividers and keeps them; a later change of   *)
(* the clock does not touch them.  UART, timers and SysTick are clocked by *)
(* the buses and the core, SPI and I2C by HSI whatever the system clock.   *)
(* Rates asked for are in hertz, of I2C in kilohertz; the tree is in MHz.  *)
(***************************************************************************)
EXTENDS ClockTree, Rates

CONSTANTS
  UartRequests, TimerRequests, PwmRequests, SpiRequests,   \* rates asked for
  Duties,     \* duties asked for
  Followed    \* bound: rates of the clients that are followed through a change

\* Units of a megahertz.
Hz == 1000000
KHz == 1000

\* The fastest clock is below the square of a period of 16 bits, and 1000 far below one.
ASSUME ClockClientsAssumption ==
  /\ UartRequests \cup TimerRequests \cup PwmRequests \cup SpiRequests \subseteq Nat \ {0}
  /\ Duties \subseteq 0 .. Mille
  /\ (200 * Hz) \div Top < Top
  /\ 2 * Mille <= Top /\ 4 <= Top

VARIABLES
  timpre,   \* RCC_CFGR.TIMPRE, which no code of the repository writes
  client,   \* the peripheral that is followed: the request, and its registers;
            \* "met": the divider of HSI that its init met
  fresh     \* history: the system clock is the one its init met

clientVars == <<timpre, client, fresh>>
vars == <<treeVars, clientVars>>

NoClient == [of |-> "none"]

-----------------------------------------------------------------------------
(* What the drivers read: the live tree, with no rate for HSE. *)

UartKernel == LiveTree(0).apb * Hz

\* timer_kernel_frequency derives the APB divider from the rates.
TimerKernel ==
  LET tree == LiveTree(0) IN KernelFrequency(tree.ahb, tree.ahb \div tree.apb, timpre) * Hz

\* With a clock that comes from HSE the tree cannot be read (UNSUPPORTED).
Readable == LiveSystem(0) # 0

\* A timer is not ready where the AHB is no multiple of its bus.
TimerReadable == Readable /\ LiveTree(0).apb # 0 /\ LiveTree(0).ahb % LiveTree(0).apb = 0

-----------------------------------------------------------------------------
(* Operations.  The peripherals share nothing but the tree, and an init writes *)
(* every register of its own: each behaviour follows one of them. *)

\* A change whose call gave up may still be completed by the hardware, so that
\* an init then computes for a clock about to go.
Settled == sw = sws

Becomes(c) ==
  /\ pc = "idle" /\ client = NoClient
  /\ client' = c /\ fresh' = Settled
  /\ UNCHANGED <<treeVars, timpre>>

UartInit(baud, bits, parity) ==
  /\ Readable /\ UartKernel # 0
  /\ Becomes([of |-> "uart", rate |-> baud, reg |-> Brr(UartKernel, baud), bits |-> bits,
              mask |-> DataMask(FrameBits(bits, parity), parity)])

SpiInit(rate) ==
  Becomes([of |-> "spi", rate |-> rate, met |-> hsidiv,
           reg |-> SelectPrescaler(HsiMHz * Hz, rate)])

I2cInit(bus) ==
  Becomes([of |-> "i2c", rate |-> bus, met |-> hsidiv, reg |-> Timing(HsiMHz * KHz, bus)])

TimerInit(rate) ==
  /\ TimerReadable
  /\ Becomes([of |-> "timer", rate |-> rate, reg |-> PeriodicDividers(TimerKernel, rate)])

\* das_time_init: the core's rate in counts per millisecond.
TimeInit ==
  Readable /\ Becomes([of |-> "systick", ticks |-> LiveTree(0).core * KHz])

\* das_pwm_init.  "active" is the compare value the channel works with; UG
\* loads it from CCR4, and so does the end of a period.  "late": the duty was set
\* in the middle of a period.
PwmInit(rate, duty) ==
  LET d == PwmDividers(TimerKernel, rate)
      compare == PwmCompare(d.arr + 1, duty)
  IN
  /\ TimerReadable
  /\ Becomes(IF d.ok
       THEN [of |-> "pwm", rate |-> rate, reg |-> d, duty |-> duty, on |-> FALSE,
             compare |-> compare, active |-> compare, late |-> FALSE]
       ELSE [of |-> "pwm", rate |-> rate, reg |-> d])

\* Also while another core changes the clock.
Pwm(registers) ==
  /\ client.of = "pwm" /\ client.reg.ok
  /\ client' = registers
  /\ UNCHANGED <<treeVars, timpre, fresh>>

PwmStart == Pwm([client EXCEPT !.on = TRUE])
PwmStop == Pwm([client EXCEPT !.on = FALSE])

PwmSetDutyPreloaded(duty) ==
  Pwm([client EXCEPT !.duty = duty, !.compare = PwmCompare(client.reg.arr + 1, duty),
                     !.late = client.on])
\* das_pwm_set_duty: at rest, UG makes the new value take effect at once.
PwmSetDuty(duty) ==
  LET compare == PwmCompare(client.reg.arr + 1, duty) IN
  Pwm([client EXCEPT !.duty = duty, !.compare = compare, !.late = client.on,
                     !.active = IF client.on THEN @ ELSE compare])

\* The end of a period, by the hardware.
PwmPeriodEnds ==
  /\ client.of = "pwm" /\ client.reg.ok /\ client.on
  /\ Pwm([client EXCEPT !.active = client.compare, !.late = FALSE])

\* A change of the clock outdates whatever is clocked by the tree.
Clocked == {"spi", "i2c", "timer", "pwm"}
Change ==
  /\ \/ \E f \in Frequencies : SetFrequency(f)
     \/ \E c \in Managed : ApplyManaged(c)
  /\ fresh' = FALSE
  /\ client' = IF client.of \in Clocked /\ client.rate \in Followed THEN client ELSE NoClient
  /\ UNCHANGED timpre

Init == TreeInit /\ timpre \in BOOLEAN /\ client = NoClient /\ fresh = FALSE

Next ==
  \/ Change
  \/ (Call \/ Hardware) /\ UNCHANGED clientVars
  \/ \E r \in UartRequests, bits \in {7, 8}, parity \in BOOLEAN : UartInit(r, bits, parity)
  \/ \E r \in SpiRequests : SpiInit(r)
  \/ \E bus \in {100, 400} : I2cInit(bus)
  \/ \E r \in TimerRequests : TimerInit(r)
  \/ TimeInit
  \/ \E r \in PwmRequests, duty \in Duties : PwmInit(r, duty)
  \/ PwmStart \/ PwmStop \/ (\E duty \in Duties : PwmSetDuty(duty)) \/ PwmPeriodEnds

Spec == Init /\ [][Next]_vars

-----------------------------------------------------------------------------
(* The rates the hardware has, from the clock it runs at. *)

Distance(a, b) == IF a < b THEN b - a ELSE a - b

BusRates == Tree(Running, div)
TrueTimerKernel ==
  LET most == (IF timpre THEN 4 ELSE 2) * BusRates.apb
  IN (IF most < BusRates.ahb THEN most ELSE BusRates.ahb) * Hz

\* A counter stands still while ARR is 0.
Counts(reg) == reg.ok /\ reg.arr > 0

-----------------------------------------------------------------------------
(* Properties. *)

\* docs/clocks.md, "Live readback"; docs/timer.md, "derives timer kernel frequency
\* from the live DAS clock tree".  In every state, in the middle of a change or
\* after one that gave up, das_clock_get_frequency returns the rate the hardware
\* runs at or refuses, and a timer initialised before any number of changes, if it
\* counts at all, reports the rate it now counts at.
ReadsBackTrue ==
  /\ LiveSystem(HseMHz) = Running
  /\ Readable => LiveSystem(0) = Running
  /\ TimerReadable /\ client.of = "timer" /\ Counts(client.reg) =>
       LET counts == (client.reg.psc + 1) * (client.reg.arr + 1)
       IN Frequency(TimerKernel, client.reg) = Nearest(TrueTimerKernel, counts)

\* das/spi.h: "frequency_hz is the requested maximum serial clock"; das/i2c.h:
\* 100 or 400 kHz.  The SPI divider is the fastest of the eight that does not
\* exceed the request, the I2C timing is not faster than asked for, not a tick
\* slower than it must be, fits its fields and keeps the delays of the bus.  Both
\* hold on through every later change of the system clock while HSI has the divider
\* that the init met; and no change gives it another one than 1, so that only what
\* was initialised on a divided HSI can lose its rate (SpiNeverExceedsRequest).
HsiClientsKeepTheirRate ==
  /\ client.of \in {"spi", "i2c"} => hsidiv \in {client.met, 1}
  /\ client.of = "spi" /\ hsidiv = client.met =>
       LET allowed == {d \in {2, 4, 8, 16, 32, 64, 128, 256} :
                         (HsiMHz * Hz) \div d <= client.rate}
       IN IF client.reg.ok
          THEN /\ Divider(client.reg.mbr) \in allowed
               /\ \A d \in allowed : Divider(client.reg.mbr) <= d
          ELSE allowed = {}
  /\ client.of = "i2c" /\ hsidiv = client.met =>
       /\ client.reg.ok
       /\ client.reg.presc \in 0 .. 15 /\ client.reg.scl \in 0 .. 255
       /\ client.reg.scldel \in 0 .. 15 /\ client.reg.sdadel \in 0 .. 15
       /\ I2cFrequency(HsiMHz * KHz, client.reg) <= client.rate
       /\ client.rate * 2 * (client.reg.presc + 1) * client.reg.scl < HsiMHz * KHz
       /\ (client.reg.scldel + 1) * (client.reg.presc + 1) * Hz
            >= HsiMHz * KHz * Setup(client.rate)
       /\ client.reg.sdadel * (client.reg.presc + 1) * Hz >= HsiMHz * KHz * Hold

\* The claim of das/spi.h:35-36, "the requested maximum serial clock.  Backends choose
\* a supported divider that does not exceed it", without that condition: false where
\* SPI was initialised on a divided HSI, which the next change of the clock sets back
\* to its full rate (switch_to_hsi).
SpiNeverExceedsRequest ==
  client.of = "spi" /\ client.reg.ok =>
    (HsiMHz * Hz) \div Divider(client.reg.mbr) <= client.rate

\* What was initialised after the last change runs at the rate asked for, as near
\* as its divider allows, on the clock that is really there.  UART refuses only what
\* its smallest divider cannot reach or its largest is still too fast for.  A timer
\* and a PWM channel count, at the nearest rate, wherever the rate asked for is below
\* two thirds of their clock; from there up to the clock itself the init returns OK
\* with ARR = 0, and they do not.  The PWM period is rounded twice, for the prescaler
\* and then with it, never asks for more than Top counts, and has the smallest
\* prescaler that allows that.
ClientsRunAtTheirRate ==
  /\ fresh /\ client.of = "uart" =>
       /\ client.mask = 2 ^ client.bits - 1
       /\ IF client.reg.ok
          THEN /\ client.reg.brr \in BrrMin .. BrrMax
               /\ 2 * Distance(client.reg.brr * client.rate, BusRates.apb * Hz) <= client.rate
          ELSE \/ BusRates.apb * Hz < BrrMin * client.rate
               \/ (BusRates.apb * Hz) \div client.rate >= BrrMax
  /\ fresh /\ client.of \in {"timer", "pwm"} =>
       /\ 3 * client.rate < 2 * TrueTimerKernel => Counts(client.reg)
       /\ Counts(client.reg) =>
            LET count == (client.reg.psc + 1) * client.rate
            IN /\ 3 * client.rate <= 2 * TrueTimerKernel
               /\ 2 * Distance((client.reg.arr + 1) * count, TrueTimerKernel) <= count
  /\ fresh /\ client.of = "pwm" /\ client.reg.ok =>
       /\ client.reg.arr + 1 \in 1 .. Top
       /\ client.reg.psc > 0 =>
            2 * TrueTimerKernel >= (2 * client.reg.psc * Top + 1) * client.rate
  /\ fresh /\ client.of = "systick" => client.ticks = BusRates.core * KHz

\* docs/timer.md: duty in per mille.  A duty is read back as it was set whenever
\* the period can tell all duties apart, also where CCR4 cannot hold the compare
\* value and it is clamped; and the channel works with the duty set last, but for
\* one that was set in the middle of a period, which waits for its end even over
\* a stop and a start, and over changes of the clock.
DutyHolds ==
  client.of = "pwm" /\ client.reg.ok =>
    /\ client.compare < Top
    /\ client.reg.arr + 1 >= Mille => ReadDuty(client.reg.arr + 1, client.compare) = client.duty
    /\ client.late \/ client.active = client.compare

=============================================================================
