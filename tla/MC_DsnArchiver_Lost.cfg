CONSTANTS
  PiecesInSegment <- MC_PiecesInSegment
  MaxSegmentIndex <- MC_MaxSegmentIndex
  MaxNotifications <- MC_MaxNotifications
  MaxRestarts = 0
  PieceIndexModulus <- MC_PieceIndexModulus
  PutOutcomes <- MC_AnyPutOutcome
  None = None
SPECIFICATION Spec
PROPERTY EveryPublishedSegmentStored
CHECK_DEADLOCK FALSE
