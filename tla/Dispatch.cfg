SPECIFICATION DispatchSpec
CONSTANTS
  Word = 8
  LocalSizes = {2, 3}
  Counts <- MCCounts
INVARIANTS
  GroupsAreExact
  WholeBufferIsComputed
  WrappingMakesOneGroup
