------------------------------ MODULE MC_U256 ------------------------------
(* Checks the U256 operations on every pair of operands of an 8-bit        *)
(* instance (four 2-bit limbs): each initial state is one pair (a, b), so  *)
(* every invariant is checked on every pair; a step moves b one point      *)
(* round the ring.                                                         *)
EXTENDS U256

MC_LimbBits == 2

VARIABLES a, b
vars == <<a, b>>

Init == a \in Values /\ b \in Values
NextOperand == b' = WrappingAdd(b, One) /\ UNCHANGED a
Spec == Init /\ [][NextOperand]_vars

TypeOK == a \in Values /\ b \in Values

(* Reference: the length of the shorter arc between a and b on the ring    *)
(* of 2^Bits points, found by walking from either end.                     *)
ArcLength(x, y) == CHOOSE k \in Values : (x + k) % Modulus = y
ShortestArc(x, y) == MinOf(ArcLength(x, y), ArcLength(y, x))

(* bidirectional_distance is the shortest-arc distance on the ring: the    *)
(* metric solution ranking relies on is symmetric and zero only on equal   *)
(* points.                                                                 *)
DistanceIsShortestArc ==
  /\ BidirectionalDistance(a, b) = ShortestArc(a, b)
  /\ BidirectionalDistance(a, b) = BidirectionalDistance(b, a)
  /\ (BidirectionalDistance(a, b) = 0) <=> (a = b)

(* Spec 4.1 / 8.2: the distance is bounded above by U256::MIDDLE.          *)
DistanceBoundedByMiddle == BidirectionalDistance(a, b) <= MIDDLE

(* Reference: exact integer arithmetic clamped to, or rejected outside,    *)
(* [0, MAX].                                                               *)
InRange(n) == n \in 0 .. MAX
Clamp(n) == IF n > MAX THEN MAX ELSE IF n < 0 THEN 0 ELSE n
Exact(n) == IF InRange(n) THEN n ELSE None

(* The checked operations return the exact result or None exactly when it *)
(* leaves [0, MAX], the saturating ones clamp it, and the wrapping ones    *)
(* are inverse to each other (spec 4.1, 7 and 8.3).                         *)
ArithmeticMatchesExact ==
  /\ CheckedAdd(a, b) = Exact(a + b)
  /\ CheckedSub(a, b) = Exact(a - b)
  /\ CheckedMul(a, b) = Exact(a * b)
  /\ CheckedDiv(a, b) = IF b = 0 THEN None ELSE a \div b
  /\ SaturatingAdd(a, b) = Clamp(a + b)
  /\ SaturatingSub(a, b) = Clamp(a - b)
  /\ SaturatingMul(a, b) = Clamp(a * b)
  /\ WrappingSub(WrappingAdd(a, b), b) = a
  /\ TryIntoU64(a) = IF a < 2 ^ LimbBits THEN a ELSE None

(* U256::MIDDLE, written limb by limb because MAX / 2 is not a const fn,   *)
(* is MAX / 2 (the TODO at its definition worries about the limb order):   *)
(* a value is at most MIDDLE exactly when its top bit is clear.            *)
MiddleIsHalfMax ==
  /\ MAX = Modulus - 1
  /\ (a <= MIDDLE) <=> (a \div 2 ^ (Bits - 1) = 0)
=============================================================================
