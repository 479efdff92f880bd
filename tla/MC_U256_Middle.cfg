CONSTANTS
  LimbBits <- MC_LimbBits
  None = None
SPECIFICATION Spec
INVARIANT DistanceBoundedByMiddle
