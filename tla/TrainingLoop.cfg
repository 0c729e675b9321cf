SPECIFICATION FairSpec
CONSTANTS
  Dims = {1, 2}
  Asked = {0, 2, 4}
  MaxEntries = 3
  Depth = 3
  Activated = {1, 2}
  InFeatures = 1
  OutFeatures = 2
  MaxEpochs = 2
INVARIANTS
  BatchHoldsEntries
  ReferenceKeepsItsEntry
PROPERTIES
  DescendsTheGradient
  TrainingEnds
CHECK_DEADLOCK FALSE
