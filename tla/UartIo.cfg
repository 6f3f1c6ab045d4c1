\* Two writes, four frames in, two bytes a call.
CONSTANTS
  Count = 2
  MaxWrites = 2
  MaxFrames = 4
SPECIFICATION FairSpec
INVARIANTS OkMeansOut LossIsReported
PROPERTIES WireInOrder FaultsDoNotDeafen CallsEnd
