\* The two lines of Interrupts.cfg: an edge between a handler's read and its clear.
CONSTANTS
  Setups <- MCSetups
SPECIFICATION Spec
INVARIANT NoEdgeIsLost
