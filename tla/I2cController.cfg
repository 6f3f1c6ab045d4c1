\* Three calls of two bytes a phase.
CONSTANTS
  Count = 2
  MaxCalls = 3
SPECIFICATION FairSpec
INVARIANTS OkMeansExact
PROPERTIES CallsEnd BusComesBack
