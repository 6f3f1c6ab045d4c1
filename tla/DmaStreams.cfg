\* Two tasks share handles, with the rule of das/dma.h on each token and
\* without it; generations wrap, and a released token meets its own again.
CONSTANTS
  Task = {t1, t2}
  StreamCount = 1
  GenLimit = 3
  MaxAllocs = 3
SPECIFICATION FairSpec
CHECK_DEADLOCK FALSE
INVARIANTS TypeOK StaleTokenRefused FreeIsInert ReportedStateIsTrue
PROPERTIES FreedByOwnAllocation OnlyOwnerTouches KeepsSessions
PROPERTIES CallsReturn WaitFollowsHardware
