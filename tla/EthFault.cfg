\* A bus error between the check of the flag and the look at the descriptor.
CONSTANTS
  Count = 2
  Workloads <- OneSend
  Speculated = {}
SPECIFICATION Spec
INVARIANT SendOkOnWire
