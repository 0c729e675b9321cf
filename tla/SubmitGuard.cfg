SPECIFICATION Spec
CONSTANTS
  Pipelines = {p1}
  Devices = {d1}
  NoDevice = NoDevice
  MaxBuilds = 2
INVARIANT
  GuardMeansRecorded
CHECK_DEADLOCK FALSE
