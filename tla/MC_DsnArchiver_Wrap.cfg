CONSTANTS
  PiecesInSegment <- MC_PiecesInSegment
  MaxSegmentIndex <- MC_MaxSegmentIndex
  MaxNotifications <- MC_MaxNotifications
  MaxRestarts = 0
  PieceIndexModulus <- MC_PieceIndexModulusNarrow
  PutOutcomes <- MC_AnyPutOutcome
  None = None
SPECIFICATION Spec
INVARIANT DhtConsistent
CHECK_DEADLOCK FALSE
