\* Two calls of one byte a phase.
CONSTANTS
  Count = 1
  MaxCalls = 2
SPECIFICATION Spec
INVARIANTS ReadBytesAreOwn
CHECK_DEADLOCK FALSE
