SPECIFICATION FairSpec
CONSTANTS
  Pipelines = {p1, p2}
  Devices = {d1}
  NoDevice = NoDevice
  MaxBuilds = 2
INVARIANTS
  TypeOK
  HandlesOwnedOnce
  SharedBufferSubmittedByOne
PROPERTIES
  LostOnlyByRebuild
  RecordedUntilOwnCall
  WrongDeviceOnlyBySetGpu
  SubmittedWaitReturns
CHECK_DEADLOCK FALSE
