\* Two lines that share an interrupt, one of them with a choice of ports and edges.
CONSTANTS
  Setups <- MCSetups
SPECIFICATION Spec
INVARIANTS PendingIsDue PinsAreOwn
PROPERTIES EventsReachTheirHandler
