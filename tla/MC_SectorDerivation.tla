------------------------- MODULE MC_SectorDerivation -------------------------
(* Checks the derivations on every digest of an 8-bit instance (eight      *)
(* 1-bit bytes, two bytes per limb) and every NonZeroU64 total_pieces:     *)
(* each initial state is one (digest, totalPieces) pair; a step moves      *)
(* totalPieces to the next non-zero u64.                                   *)
EXTENDS SectorDerivation

MC_LimbBits == 2
MC_ByteBits == 1
MC_BytesPerLimb == 2

VARIABLES digest, totalPieces
vars == <<digest, totalPieces>>

Init ==
  /\ digest \in ByteArrays(NBytes)
  /\ totalPieces \in 1 .. LimbMax
NextTotalPieces ==
  /\ totalPieces' = IF totalPieces = LimbMax THEN 1 ELSE totalPieces + 1
  /\ UNCHANGED digest
Spec == Init /\ [][NextTotalPieces]_vars

(* Spec 4.3 and 8.5: whatever the hash returns, derive_piece_index gives   *)
(* an index below total_pieces, so the u64 narrowing behind the expect     *)
(* never fails and the farmer never panics.                                *)
PieceIndexInRange ==
  DerivePieceIndex(digest, totalPieces) \in 0 .. totalPieces - 1

(* Spec 4.3: the local challenge is the most significant u64 of the digest *)
(* read as a big-endian U256, although derive_piece_index reads the same   *)
(* kind of digest little-endian.                                           *)
LocalChallengeIsTopLimb ==
  DeriveLocalChallenge(digest) = FromBeBytes(digest) \div 2 ^ (Bits - LimbBits)

(* Spec 8.1: the byte conversions are inverse to each other in both byte   *)
(* orders, the two orders are mirror images, the PieceIndexHash conversion *)
(* round-trips, and distinct sector indices give distinct hash inputs.     *)
ByteConversionsRoundTrip ==
  LET x == FromLeBytes(digest)
  IN  /\ ToLeBytes(x) = digest
      /\ FromBeBytes(ToBeBytes(x)) = x
      /\ ToBeBytes(x) = [i \in 1 .. NBytes |-> digest[NBytes - i + 1]]
      /\ U256FromPieceIndexHash(PieceIndexHashFromU256(x)) = x
      /\ \A s \in 0 .. LimbMax :
            SectorIdInput("key", s) = SectorIdInput("key", totalPieces - 1)
              => s = totalPieces - 1
=============================================================================
