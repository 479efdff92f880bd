-------------------------- MODULE SectorDerivation --------------------------
(***************************************************************************)
(* The byte conversions of U256 and the sector derivations of              *)
(* LegacySectorId (subspace-core-primitives, lib.rs).  A byte has ByteBits *)
(* bits (8 in the code) and a limb BytesPerLimb bytes (8 in the code), so  *)
(* a U256 is 4 * BytesPerLimb bytes.  The keyed BLAKE2b hash is external:  *)
(* a derivation is a function of the digest the hash returns, and the      *)
(* checks quantify over every digest.                                      *)
(***************************************************************************)
EXTENDS U256

CONSTANTS
  ByteBits,      \* bits of a byte
  BytesPerLimb   \* bytes of a limb (of a u64)

ASSUME ByteAssumption ==
  /\ ByteBits \in Nat \ {0}
  /\ BytesPerLimb \in Nat \ {0}
  /\ LimbBits = ByteBits * BytesPerLimb

NBytes == Limbs * BytesPerLimb        \* 32: the size of a digest and a U256
ByteValues == 0 .. 2 ^ ByteBits - 1
ByteArrays(n) == [1 .. n -> ByteValues]

\* The number a byte array spells, most significant byte first.
BigEndianValue(bytes, n) ==
  LET acc[i \in 0 .. n] == IF i = 0 THEN 0
                           ELSE acc[i - 1] * 2 ^ ByteBits + bytes[i]
  IN  acc[n]

\* The i-th byte of x counted from the least significant one (i = 0).
ByteOf(x, i) == (x \div 2 ^ (ByteBits * i)) % 2 ^ ByteBits

\* U256::from_be_bytes / from_le_bytes and to_be_bytes / to_le_bytes.
FromBeBytes(bytes) == BigEndianValue(bytes, NBytes)
FromLeBytes(bytes) ==
  BigEndianValue([i \in 1 .. NBytes |-> bytes[NBytes - i + 1]], NBytes)

\* Faulty variant (mutant): the byte positions counted one too far.
ToBeBytesShifted(x) == [i \in 1 .. NBytes |-> ByteOf(x, NBytes - i + 1)]

ToBeBytes(x) == [i \in 1 .. NBytes |-> ByteOf(x, NBytes - i)]
ToLeBytes(x) == [i \in 1 .. NBytes |-> ByteOf(x, i - 1)]

\* From<PieceIndexHash> for U256 and From<U256> for PieceIndexHash: both
\* big-endian.
U256FromPieceIndexHash(hash) == FromBeBytes(hash)
PieceIndexHashFromU256(x) == ToBeBytes(x)

\* LegacySectorId::new: the keyed hash input, sector_index.to_le_bytes()
\* under the public key; the sector id is the digest of this input.
U64ToLeBytes(x) == [i \in 1 .. BytesPerLimb |-> ByteOf(x, i - 1)]
SectorIdInput(publicKey, sectorIndex) ==
  [message |-> U64ToLeBytes(sectorIndex), key |-> publicKey]

\* Faulty variant (mutant): the digest narrowed to u64 before the modulo.
DerivePieceIndexNarrowFirst(digest, totalPieces) ==
  LET narrowed == TryIntoU64(FromLeBytes(digest))
  IN  IF narrowed = None THEN None ELSE narrowed % totalPieces

\* derive_piece_index: the digest of piece_offset.to_bytes() under the
\* sector id, read little-endian, modulo total_pieces, narrowed to u64.
\* None is the Err on which the code's expect panics.
DerivePieceIndex(digest, totalPieces) ==
  TryIntoU64(FromLeBytes(digest) % totalPieces)

\* Faulty variant (mutant): the first limb's bytes read little-endian.
DeriveLocalChallengeLe(digest) ==
  BigEndianValue([i \in 1 .. BytesPerLimb |-> digest[BytesPerLimb - i + 1]],
                 BytesPerLimb)

\* derive_local_challenge: SolutionRange::from_be_bytes of the first eight
\* bytes of the digest of the global challenge under the sector id.
DeriveLocalChallenge(digest) == BigEndianValue(digest, BytesPerLimb)
=============================================================================
