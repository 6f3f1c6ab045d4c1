\* SPI initialised on an HSI that what ran before has divided, and a change of the clock.
CONSTANTS
  Managed = {}
  Supplies = {"run*"}
  Dividers = {4}
  HseMHz = 8
  Top = 65536
  Mille = 1000
  BrrMin = 16
  BrrMax = 65535
  UartRequests = {}
  TimerRequests = {}
  PwmRequests = {}
  Duties = {}
  Followed = {1000000}
  SpiRequests = {1000000}
SPECIFICATION Spec
INVARIANTS SpiNeverExceedsRequest
