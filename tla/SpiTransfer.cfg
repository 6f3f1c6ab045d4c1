\* Two transfers of three bytes in chunks of two, two streams, other users.
CONSTANTS
  StreamCount = 2
  Limit = 2
  Size = 3
  Depth = 1
  MaxCalls = 2
SPECIFICATION FairSpec
INVARIANTS OkMeansAllMoved StreamsComeBack
PROPERTIES BuffersComeBack TransfersEnd
