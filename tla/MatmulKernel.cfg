SPECIFICATION KernelSpec
CONSTANTS
  MaxRank = 5
  Operands <- MCShapesAndLong
  Garbage = {0, 3}
INVARIANTS
  KernelTypeOK
  AlignedOperandsBroadcast
  ReadsStayInData
CHECK_DEADLOCK FALSE
