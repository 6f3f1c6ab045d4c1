\* Every change of the clock over every other, with every client between them; the
\* limits of the device.
CONSTANTS
  Managed <- MCManaged
  Supplies = {"run*", "other"}
  Dividers = {1, 4}
  HseMHz = 8
  Top = 65536
  Mille = 1000
  BrrMin = 16
  BrrMax = 65535
  UartRequests <- MCUartRequests
  TimerRequests <- MCTimerRequests
  PwmRequests <- MCPwmRequests
  Duties <- MCDuties
  Followed = {3000000, 100, 31999999}
  SpiRequests <- MCSpiRequests
SPECIFICATION Spec
INVARIANTS RunsWithinLimits OkMeansProfile ReadsBackTrue HsiClientsKeepTheirRate ClientsRunAtTheirRate DutyHolds
