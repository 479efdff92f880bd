CONSTANTS
  LimbBits <- MC_LimbBits
  None = None
SPECIFICATION Spec
INVARIANT TypeOK
INVARIANT DistanceIsShortestArc
INVARIANT ArithmeticMatchesExact
INVARIANT MiddleIsHalfMax
