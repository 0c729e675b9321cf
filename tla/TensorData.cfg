SPECIFICATION Spec
CONSTANTS
  Tensors = {x, y}
  Shapes <- MCShapes
  Vectors <- MCVectors
  Matrices <- MCMatrices
INVARIANTS
  TypeOK
  ReadsWhatWasStored
PROPERTY
  OutOfRangeOnlyByHollowOrRagged
CHECK_DEADLOCK FALSE
