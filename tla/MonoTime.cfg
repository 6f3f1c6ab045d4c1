\* A range of four; a poll may come later than a whole range after the last.
CONSTANTS
  Half = 2
  Gap = 5
SPECIFICATION FairSpec
INVARIANTS NeverEarly NeverMissed SourceGetsItsContext
PROPERTIES WaitsEnd
