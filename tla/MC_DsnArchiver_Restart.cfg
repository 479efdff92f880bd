CONSTANTS
  PiecesInSegment <- MC_PiecesInSegment
  MaxSegmentIndex <- MC_MaxSegmentIndex
  MaxNotifications <- MC_MaxNotifications
  MaxRestarts <- MC_MaxRestarts
  PieceIndexModulus <- MC_PieceIndexModulus
  PutOutcomes <- MC_PutsSucceed
  None = None
SPECIFICATION Spec
PROPERTY EveryPublishedSegmentStored
CHECK_DEADLOCK FALSE
