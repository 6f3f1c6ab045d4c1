------------------------------- MODULE Rates --------------------------------
(***************************************************************************)
(* The arithmetic that turns a requested rate into dividers: SPI and UART  *)
(* clocks, I2C timing, timer and PWM periods, and the rates read back from *)
(* the registers.  I2C is in kilohertz, the others are in hertz.            *)
(***************************************************************************)
EXTENDS Integers

CONSTANTS
  Top,              \* counts of a PWM period (65536 on the device)
  Mille,            \* parts of a full duty (1000 on the device)
  BrrMin, BrrMax    \* limits of BRR (16 and 65535 on the device)

ASSUME RatesAssumption == {Top, Mille, BrrMin, BrrMax} \subseteq Nat \ {0}

None == [ok |-> FALSE]

\* Integer division to the nearest, halves up; and up.
Nearest(n, d) == (n + d \div 2) \div d
CeilDiv(n, d) == (n + d - 1) \div d

-----------------------------------------------------------------------------
(* SPI: select_prescaler, the first power of two that is slow enough. *)

Divider(exponent) == 2 ^ (exponent + 1)

SelectPrescalerNotAbove(kernel, requested) ==
  LET from[e \in 0 .. 8] ==
        IF e = 8 THEN None
        ELSE IF kernel \div Divider(e) < requested
             THEN [ok |-> kernel \div Divider(e) # 0, mbr |-> e]
             ELSE from[e + 1]
  IN from[0]
SelectPrescaler(kernel, requested) ==
  LET from[e \in 0 .. 8] ==
        IF e = 8 THEN None
        ELSE IF kernel \div Divider(e) <= requested
             THEN [ok |-> kernel \div Divider(e) # 0, mbr |-> e]
             ELSE from[e + 1]
  IN from[0]

-----------------------------------------------------------------------------
(* I2C: calculate_timing. *)

Setup(bus) == IF bus <= 100 THEN 500 ELSE 125     \* nanoseconds
Hold == 100

\* The first prescaler whose half period fits SCLL and SCLH.
HalfTicks(kernel, bus, presc) == CeilDiv(kernel, 2 * bus * presc)
PrescalerDiv(kernel, bus) ==
  LET from[p \in 1 .. 17] ==
        IF p = 17 \/ HalfTicks(kernel, bus, p) \in 2 .. 256 THEN p ELSE from[p + 1]
  IN from[1]

DelayTicksDown(kernel, ns, presc) == (kernel * ns) \div (1000000 * presc)
DelayTicks(kernel, ns, presc) == CeilDiv(kernel * ns, 1000000 * presc)

Timing(kernel, bus) ==
  LET presc  == PrescalerDiv(kernel, bus)
      setup  == DelayTicks(kernel, Setup(bus), presc)
      scldel == IF setup = 0 THEN 1 ELSE setup
      sdadel == DelayTicks(kernel, Hold, presc)
  IN IF presc = 17 \/ scldel > 16 \/ sdadel > 15 THEN None
     ELSE [ok |-> TRUE, presc |-> presc - 1, scl |-> HalfTicks(kernel, bus, presc) - 1,
           scldel |-> scldel - 1, sdadel |-> sdadel]

\* das_i2c_get_frequency.
I2cFrequency(kernel, t) == kernel \div ((t.presc + 1) * 2 * (t.scl + 1))

-----------------------------------------------------------------------------
(* Timer and PWM. *)

\* timer_kernel_frequency, for an APB divider and RCC_CFGR.TIMPRE.
KernelFrequency(ahb, divider, timpre) ==
  IF ~timpre THEN IF divider = 1 THEN ahb \div divider ELSE (ahb \div divider) * 2
             ELSE IF divider <= 4 THEN ahb ELSE (ahb \div divider) * 4

PeriodicDividers(clock, requested) ==
  IF requested > clock THEN None
  ELSE [ok |-> TRUE, psc |-> 0, arr |-> Nearest(clock, requested) - 1]

PwmPrescalerAbove(counts) == counts \div Top + 1
PwmPrescaler(counts) == CeilDiv(counts, Top)

PwmDividers(clock, requested) ==
  LET presc  == PwmPrescaler(Nearest(clock, requested))
      period == Nearest(clock, requested * presc)
      counts == IF period = 0 THEN 1 ELSE period
  IN IF requested > clock \/ presc > Top \/ counts > Top THEN None
     ELSE [ok |-> TRUE, psc |-> presc - 1, arr |-> counts - 1]

\* das_timer_get_frequency and das_pwm_get_frequency.
Frequency(clock, d) == Nearest(clock, (d.psc + 1) * (d.arr + 1))

\* pwm_compare clamps to the largest value of CCR4.
PwmCompare(counts, duty) ==
  LET compare == (counts * duty + Mille \div 2) \div Mille
  IN IF compare > Top - 1 THEN Top - 1 ELSE compare

\* das_pwm_get_duty.
ReadDuty(counts, compare) ==
  LET duty == Nearest(compare * Mille, counts) IN IF duty > Mille THEN Mille ELSE duty

-----------------------------------------------------------------------------
(* UART: BRR, the rate read back, and the frame. *)

BaudDividerDown(clock, baud) == clock \div baud
BaudDivider(clock, baud) == (clock + baud \div 2) \div baud
Brr(clock, baud) ==
  IF BaudDivider(clock, baud) \in BrrMin .. BrrMax
  THEN [ok |-> TRUE, brr |-> BaudDivider(clock, baud)] ELSE None

\* The frame bits that das_uart_init chooses, and the mask that
\* application_data_mask recovers from M1, M0 and PCE.
FrameBits(bits, parity) == IF parity THEN bits + 1 ELSE bits
DataMask(frame, parity) ==
  LET data == IF parity THEN frame - 1 ELSE frame
  IN IF data >= 8 THEN 255 ELSE 2 ^ data - 1

=============================================================================
