----------------------------- MODULE U256_proofs -----------------------------
(***************************************************************************)
(* Proofs about bidirectional_distance for every limb width, and of the   *)
(* run u256_ops' reference comparison of it.  The ring size 2^Bits enters  *)
(* only through ModulusAssumption.                                         *)
(***************************************************************************)
EXTENDS MC_U256, TLAPS

USE LimbBitsAssumption, ModulusAssumption

(* Wrapping subtraction of two points of the ring, without the modulo. *)
LEMMA WrappingSubCases ==
  ASSUME NEW u \in Values, NEW v \in Values
  PROVE  WrappingSub(u, v) = IF v <= u THEN u - v ELSE u - v + Modulus
<1>1. CASE v <= u
  BY <1>1 DEF WrappingSub, OverflowingSub, Values
<1>2. CASE u < v
  BY <1>2 DEF WrappingSub, OverflowingSub, Values
<1>3. QED
  BY <1>1, <1>2 DEF Values

(* bidirectional_distance is symmetric: ranking a tag against a target     *)
(* does not depend on which of the two is passed first.                    *)
THEOREM DistanceSymmetric ==
  \A u, v \in Values : BidirectionalDistance(u, v) = BidirectionalDistance(v, u)
<1> SUFFICES ASSUME NEW u \in Values, NEW v \in Values
             PROVE  BidirectionalDistance(u, v) = BidirectionalDistance(v, u)
  OBVIOUS
<1>1. WrappingSub(u, v) \in Nat /\ WrappingSub(v, u) \in Nat
  BY WrappingSubCases DEF Values
<1>2. QED
  BY <1>1 DEF BidirectionalDistance, MinOf

(* bidirectional_distance is zero exactly on equal points and never more   *)
(* than half the ring, 2^(Bits-1): one more than MIDDLE, which the spec    *)
(* gives as the bound (the run u256_middle_bound shows it is reached).     *)
THEOREM DistanceBounds ==
  \A u, v \in Values :
    /\ BidirectionalDistance(u, v) \in 0 .. Modulus \div 2
    /\ BidirectionalDistance(u, v) = 0 <=> u = v
<1> SUFFICES ASSUME NEW u \in Values, NEW v \in Values
             PROVE  /\ BidirectionalDistance(u, v) \in 0 .. Modulus \div 2
                    /\ BidirectionalDistance(u, v) = 0 <=> u = v
  OBVIOUS
<1>1. WrappingSub(u, v) = IF v <= u THEN u - v ELSE u - v + Modulus
  BY WrappingSubCases
<1>2. WrappingSub(v, u) = IF u <= v THEN v - u ELSE v - u + Modulus
  BY WrappingSubCases
<1>3. QED
  BY <1>1, <1>2 DEF BidirectionalDistance, MinOf, Values

(* Walking WrappingSub(y, x) steps from x round the ring reaches y, and no *)
(* other number of steps below 2^Bits does: the reference arc length is    *)
(* the wrapping difference.                                                *)
LEMMA ArcLengthIsWrappingSub ==
  ASSUME NEW x \in Values, NEW y \in Values
  PROVE  ArcLength(x, y) = WrappingSub(y, x)
<1> DEFINE w == WrappingSub(y, x)
<1>1. w = IF x <= y THEN y - x ELSE y - x + Modulus
  BY WrappingSubCases
<1>2. w \in Values /\ (x + w) % Modulus = y
  BY <1>1 DEF Values
<1>3. \A k \in Values : (x + k) % Modulus = y => k = w
  BY <1>1 DEF Values
<1>4. QED
  BY <1>2, <1>3 DEF ArcLength

(* The run u256_ops' comparison holds for every limb width: the distance   *)
(* is the length of the shorter arc between the two points, whichever is  *)
(* passed first, and it is zero only on equal points.                     *)
THEOREM DistanceIsArc == Spec => []DistanceIsShortestArc
<1>1. Init => TypeOK
  BY DEF Init, TypeOK
<1>2. TypeOK /\ [NextOperand]_vars => TypeOK'
  BY DEF TypeOK, NextOperand, vars, WrappingAdd, OverflowingAdd, One, Values
<1>3. TypeOK => DistanceIsShortestArc
  <2> SUFFICES ASSUME TypeOK PROVE DistanceIsShortestArc
    OBVIOUS
  <2>1. /\ ArcLength(a, b) = WrappingSub(b, a)
        /\ ArcLength(b, a) = WrappingSub(a, b)
    BY ArcLengthIsWrappingSub DEF TypeOK
  <2>2. BidirectionalDistance(a, b) = ShortestArc(a, b)
    <3>1. WrappingSub(a, b) \in Nat /\ WrappingSub(b, a) \in Nat
      BY WrappingSubCases DEF TypeOK, Values
    <3>2. QED
      BY <2>1, <3>1 DEF BidirectionalDistance, ShortestArc, MinOf
  <2>3. /\ BidirectionalDistance(a, b) = BidirectionalDistance(b, a)
        /\ (BidirectionalDistance(a, b) = 0) <=> (a = b)
    BY DistanceSymmetric, DistanceBounds DEF TypeOK
  <2>4. QED
    BY <2>2, <2>3 DEF DistanceIsShortestArc
<1>4. QED
  BY <1>1, <1>2, <1>3, PTL DEF Spec

-----------------------------------------------------------------------------
(* MAX, written limb by limb in the code, is the largest value of the     *)
(* ring.  The provers do not reason about 2^Bits, so this is a hypothesis  *)
(* of the theorem below; the run u256_ops checks it, as the first         *)
(* conjunct of MiddleIsHalfMax.                                            *)
MaxIsModulusMinusOne == MAX = Modulus - 1

(* Wrapping addition of two points of the ring, without the modulo. *)
LEMMA WrappingAddCases ==
  ASSUME NEW u \in Values, NEW v \in Values
  PROVE  WrappingAdd(u, v) = IF u + v < Modulus THEN u + v ELSE u + v - Modulus
<1>1. CASE u + v < Modulus
  BY <1>1 DEF WrappingAdd, OverflowingAdd, Values
<1>2. CASE u + v >= Modulus
  BY <1>2 DEF WrappingAdd, OverflowingAdd, Values
<1>3. QED
  BY <1>1, <1>2 DEF Values

(* The run u256_ops' comparison with exact arithmetic holds for every     *)
(* limb width once MAX is the top of the ring: checked_add, checked_sub    *)
(* and checked_mul return the exact result or None exactly when it leaves  *)
(* [0, MAX], the saturating operations clamp it, wrapping_sub undoes      *)
(* wrapping_add, and the u64 conversion fails exactly above u64::MAX.     *)
THEOREM ExactArithmetic == MaxIsModulusMinusOne => (Spec => []ArithmeticMatchesExact)
<1> SUFFICES ASSUME MaxIsModulusMinusOne PROVE Spec => []ArithmeticMatchesExact
  OBVIOUS
<1>1. Init => TypeOK
  BY DEF Init, TypeOK
<1>2. TypeOK /\ [NextOperand]_vars => TypeOK'
  BY DEF TypeOK, NextOperand, vars, WrappingAdd, OverflowingAdd, One, Values
<1>3. TypeOK => ArithmeticMatchesExact
  <2> SUFFICES ASSUME TypeOK PROVE ArithmeticMatchesExact
    OBVIOUS
  <2>0. a \in 0 .. Modulus - 1 /\ b \in 0 .. Modulus - 1 /\ MAX = Modulus - 1
    BY DEF TypeOK, Values, MaxIsModulusMinusOne
  <2> DEFINE ov(r) == r[2]
              res(r) == r[1]
  <2>a. /\ res(OverflowingAdd(a, b)) = (a + b) % Modulus
        /\ ov(OverflowingAdd(a, b)) = (a + b > MAX)
        /\ res(OverflowingSub(a, b)) = (a - b) % Modulus
        /\ ov(OverflowingSub(a, b)) = (a < b)
        /\ res(OverflowingMul(a, b)) = (a * b) % Modulus
        /\ ov(OverflowingMul(a, b)) = (a * b > MAX)
    BY Zenon DEF OverflowingAdd, OverflowingSub, OverflowingMul
  <2>b. a * b \in Nat /\ a + b \in Nat
    BY <2>0
  <2>1. CheckedAdd(a, b) = Exact(a + b)
    <3>1. CheckedAdd(a, b) = IF a + b > MAX THEN None ELSE (a + b) % Modulus
      BY <2>a DEF CheckedAdd, Checked
    <3>2. QED
      BY <2>0, <3>1 DEF Exact, InRange
  <2>2. CheckedSub(a, b) = Exact(a - b)
    <3>1. CheckedSub(a, b) = IF a < b THEN None ELSE (a - b) % Modulus
      BY <2>a DEF CheckedSub, Checked
    <3>2. QED
      BY <2>0, <3>1 DEF Exact, InRange
  <2>3. CheckedMul(a, b) = Exact(a * b)
    <3>1. CheckedMul(a, b) = IF a * b > MAX THEN None ELSE (a * b) % Modulus
      BY <2>a DEF CheckedMul, Checked
    <3>2. QED
      BY <2>0, <2>b, <3>1 DEF Exact, InRange
  <2>4. CheckedDiv(a, b) = IF b = 0 THEN None ELSE a \div b
    BY DEF CheckedDiv
  <2>5. SaturatingAdd(a, b) = Clamp(a + b)
    <3>1. SaturatingAdd(a, b) = IF a + b > MAX THEN MAX ELSE a + b
      BY <2>a DEF SaturatingAdd
    <3>2. QED
      BY <2>0, <3>1 DEF Clamp
  <2>6. SaturatingSub(a, b) = Clamp(a - b)
    <3>1. SaturatingSub(a, b) = IF a < b THEN 0 ELSE a - b
      BY <2>a DEF SaturatingSub, Zero
    <3>2. QED
      BY <2>0, <3>1 DEF Clamp
  <2>6a. SaturatingMul(a, b) = Clamp(a * b)
    <3>1. SaturatingMul(a, b) = IF a * b > MAX THEN MAX ELSE a * b
      BY <2>a DEF SaturatingMul
    <3>2. QED
      BY <2>0, <2>b, <3>1 DEF Clamp
  <2>7. WrappingSub(WrappingAdd(a, b), b) = a
    <3> DEFINE s == WrappingAdd(a, b)
    <3>1. s = IF a + b < Modulus THEN a + b ELSE a + b - Modulus
      BY WrappingAddCases DEF TypeOK
    <3>2. s \in Values
      BY <2>0, <3>1 DEF Values
    <3>3. WrappingSub(s, b) = IF b <= s THEN s - b ELSE s - b + Modulus
      BY <3>2, WrappingSubCases DEF TypeOK
    <3>4. QED
      BY <2>0, <3>1, <3>3
  <2>8. TryIntoU64(a) = IF a < 2 ^ LimbBits THEN a ELSE None
    BY <2>0, LimbMaxAssumption DEF TryIntoU64, LimbMax
  <2>9. QED
    BY <2>1, <2>2, <2>3, <2>4, <2>5, <2>6, <2>6a, <2>7, <2>8 DEF ArithmeticMatchesExact
<1>4. QED
  BY <1>1, <1>2, <1>3, PTL DEF Spec
=============================================================================
