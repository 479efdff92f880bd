-------------------------------- MODULE U256 --------------------------------
(***************************************************************************)
(* The fixed-width unsigned integer of subspace-core-primitives (lib.rs,   *)
(* U256 over uint::construct_uint!(U256(4)): four limbs, least significant *)
(* limb first) and bidirectional_distance.  The width is a parameter: a    *)
(* limb has LimbBits bits (64 in the code), so a value has 4 * LimbBits    *)
(* bits and u64 is one limb wide.  Every operation is pure.                *)
(***************************************************************************)
EXTENDS Naturals

CONSTANTS
  LimbBits,  \* bits of one limb (u64 in the code)
  None       \* Option::None, and the Err of a failed conversion

ASSUME LimbBitsAssumption == LimbBits \in Nat \ {0}
ASSUME NoneAssumption == None \notin Nat

Limbs == 4
Bits == Limbs * LimbBits
Modulus == 2 ^ Bits
Values == 0 .. Modulus - 1
LimbMax == 2 ^ LimbBits - 1     \* u64::MAX

\* The ring of values has an even number of points, at least two.  This
\* follows from LimbBits > 0; it is stated for the provers, which do not
\* reason about exponentiation, and TLC evaluates it on every run.
ASSUME ModulusAssumption == Modulus \in Nat /\ Modulus >= 2 /\ Modulus % 2 = 0

\* u64::MAX is a natural number; stated for the same reason.
ASSUME LimbMaxAssumption == LimbMax \in Nat

\* The value of a limb array, limb 1 least significant (uint's layout).
LimbValue(l) ==
  l[1] + l[2] * 2 ^ LimbBits + l[3] * 2 ^ (2 * LimbBits)
       + l[4] * 2 ^ (3 * LimbBits)

Zero == 0
One == 1
MAX == LimbValue(<<LimbMax, LimbMax, LimbMax, LimbMax>>)

\* Faulty variant (mutant): the limbs of MIDDLE in big-endian order.
MIDDLE_BE == LimbValue(<<LimbMax \div 2, LimbMax, LimbMax, LimbMax>>)

\* U256::MIDDLE, written as a limb array in the code.
MIDDLE == LimbValue(<<LimbMax, LimbMax, LimbMax, LimbMax \div 2>>)

\* uint's overflowing operations: the result modulo 2^Bits and the flag.
OverflowingAdd(a, b) == <<(a + b) % Modulus, a + b > MAX>>
OverflowingSub(a, b) == <<(a - b) % Modulus, a < b>>
OverflowingMul(a, b) == <<(a * b) % Modulus, a * b > MAX>>

\* Faulty variant (mutant): the sum taken without the wrap.
WrappingAddUnwrapped(a, b) == a + b

WrappingAdd(a, b) == OverflowingAdd(a, b)[1]
WrappingSub(a, b) == OverflowingSub(a, b)[1]

\* checked_*: None on overflow, underflow or division by zero.
Checked(r) == IF r[2] THEN None ELSE r[1]
CheckedAdd(a, b) == Checked(OverflowingAdd(a, b))
CheckedSub(a, b) == Checked(OverflowingSub(a, b))
CheckedMul(a, b) == Checked(OverflowingMul(a, b))
CheckedDiv(a, b) == IF b = 0 THEN None ELSE a \div b

\* saturating_*: clamp at the boundary the operation crossed.
SaturatingAdd(a, b) == IF OverflowingAdd(a, b)[2] THEN MAX ELSE a + b
\* Faulty variant (mutant): underflow clamped to the wrong boundary.
SaturatingSubToMax(a, b) == IF OverflowingSub(a, b)[2] THEN MAX ELSE a - b
SaturatingSub(a, b) == IF OverflowingSub(a, b)[2] THEN Zero ELSE a - b
SaturatingMul(a, b) == IF OverflowingMul(a, b)[2] THEN MAX ELSE a * b

\* TryFrom<U256> for u64: Err unless the value fits one limb.
TryIntoU64(x) == IF x <= LimbMax THEN x ELSE None

\* bidirectional_distance: the smaller of the two wrapping differences.
MinOf(x, y) == IF x <= y THEN x ELSE y

\* Faulty variant (mutant): only one direction of the ring measured.
OneWayDistance(a, b) == WrappingSub(a, b)

BidirectionalDistance(a, b) ==
  LET diff == WrappingSub(a, b)
      diff2 == WrappingSub(b, a)
  IN  MinOf(diff, diff2)
=============================================================================
