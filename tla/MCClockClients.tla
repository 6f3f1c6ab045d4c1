--------------------------- MODULE MCClockClients ---------------------------
(* ClockClients on small instances. *)
EXTENDS ClockClients

\* Configurations of other boards: PLL1 from HSE, HSE alone, one beyond the AHB
\* limit, one whose factors do not divide its source, and one whose timers run at
\* 170 MHz, from which a PWM period takes all the counts there are.
MCManaged ==
  LET Config(source, use, m, n, ahb, apb) ==
        [source |-> source, use |-> use, m |-> m, n |-> n, p |-> 2,
         div |-> [core |-> 1, ahb |-> ahb, apb |-> apb]]
  IN {Config("HSE", TRUE, 1, 100, 2, 4), Config("HSE", FALSE, 1, 4, 1, 1),
      Config("HSE", TRUE, 1, 90, 1, 2), Config("HSI", TRUE, 3, 100, 2, 2),
      Config("HSI", TRUE, 32, 170, 1, 2)}

\* The fastest and the slowest SPI divider of HSI, in full and divided by four,
\* with their neighbours.
MCSpiRequests == {62499, 62500, 249999, 250000, 250001, 31999999, 32000000}
\* A usual rate, and rates for which BRR is too large or too small on some buses.
MCUartRequests == {1200, 115200, 6250000}
\* A usual rate, one for which ARR is 0 on some buses, and one no bus can give.
MCTimerRequests == {3000000, 150000000, 201000000}
\* The largest prescaler, all counts from 170 MHz, with a prescaler, the first rate
\* with none from 200 MHz, a period of few counts, and one for which ARR is 0.
MCPwmRequests == {1, 1297, 3052, 4000000, 150000000}
MCDuties == {333, 1000}

=============================================================================
