------------------------ MODULE SectorDerivation_proofs ------------------------
(***************************************************************************)
(* Proof that derive_piece_index never reaches its panic, for every limb   *)
(* width and every value the keyed hash can produce.  The digest bytes are *)
(* folded into a number by a recursive function, and what that fold        *)
(* computes needs induction, which the provers cannot do: the theorem      *)
(* starts from the digest's value, and TLC checks the fold in the run      *)
(* sector_derivation.                                                      *)
(***************************************************************************)
EXTENDS SectorDerivation, TLAPS

USE LimbBitsAssumption, NoneAssumption, LimbMaxAssumption

(* The remainder modulo a NonZeroU64 fits a u64: the TryFrom<U256> for u64 *)
(* after the modulo in derive_piece_index always succeeds.                 *)
LEMMA RemainderFitsU64 ==
  ASSUME NEW v \in Nat, NEW t \in 1 .. LimbMax
  PROVE  TryIntoU64(v % t) = v % t /\ v % t \in 0 .. t - 1
<1>1. v % t \in 0 .. t - 1
  OBVIOUS
<1>2. v % t <= LimbMax
  BY <1>1
<1>3. QED
  BY <1>1, <1>2 DEF TryIntoU64

(* Spec 4.3 and 8.5: whatever number the little-endian digest spells,      *)
(* derive_piece_index returns an index below total_pieces, and its expect  *)
(* never panics; the run sector_derivation checks the same for every       *)
(* digest of a small width, byte fold included.                            *)
THEOREM PieceIndexNeverPanics ==
  ASSUME NEW digest, FromLeBytes(digest) \in Nat, NEW t \in 1 .. LimbMax
  PROVE  /\ DerivePieceIndex(digest, t) # None
         /\ DerivePieceIndex(digest, t) \in 0 .. t - 1
<1>1. TryIntoU64(FromLeBytes(digest) % t) \in 0 .. t - 1
  BY RemainderFitsU64
<1>2. QED
  BY <1>1, NoneAssumption DEF DerivePieceIndex
=============================================================================
