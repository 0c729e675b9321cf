SPECIFICATION KernelSpec
CONSTANTS
  MaxRank = 4
  Operands <- MCShapes
  Garbage = {0, 3}
INVARIANT
  BatchesBroadcast
CHECK_DEADLOCK FALSE
