SPECIFICATION Spec
CONSTANTS
  Largest = 24
  Exact = 8
  Approx <- MCApprox
  Cases <- MCCases
INVARIANTS
  GradientsAreDerivatives
  StaysInTensors
  OnlyRoundingSkips
CHECK_DEADLOCK FALSE
