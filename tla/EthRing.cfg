\* Three descriptors; see MCEthRing for the bounds.
CONSTANTS
  Count = 3
  Workloads <- Workload
  Speculated <- FirstSlot
SPECIFICATION FairSpec
INVARIANTS SendOkIsSent RingHandover
PROPERTIES WireInOrder WithdrawnIsSilent FramesAreTaken KeepsQueue
