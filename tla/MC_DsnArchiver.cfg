CONSTANTS
  PiecesInSegment <- MC_PiecesInSegment
  MaxSegmentIndex <- MC_MaxSegmentIndex
  MaxNotifications <- MC_MaxNotifications
  MaxRestarts <- MC_MaxRestarts
  PieceIndexModulus <- MC_PieceIndexModulus
  PutOutcomes <- MC_AnyPutOutcome
  None = None
SPECIFICATION Spec
INVARIANT TypeOK
INVARIANT DhtConsistent
INVARIANT NoDuplicatePublication
PROPERTY EventuallyQuiescent
PROPERTY ImplementsPieceStore
CHECK_DEADLOCK FALSE
