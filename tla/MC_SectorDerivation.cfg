CONSTANTS
  LimbBits <- MC_LimbBits
  ByteBits <- MC_ByteBits
  BytesPerLimb <- MC_BytesPerLimb
  None = None
SPECIFICATION Spec
INVARIANT PieceIndexInRange
INVARIANT LocalChallengeIsTopLimb
INVARIANT ByteConversionsRoundTrip
