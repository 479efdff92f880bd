CONSTANTS
  SegmentSize <- MC_SegmentSize
  BlockSizes <- MC_BlockSizes
  MaxBlocks <- MC_MaxBlocks
  Complete = Complete
  None = None
  GenesisHash = GenesisHash
SPECIFICATION Spec
INVARIANTS
  TypeOK
  PartialIsStrict
PROPERTIES
  ImplementsArchivedHistory
CHECK_DEADLOCK FALSE
