------------------------------ MODULE SoftU64 ------------------------------
(***************************************************************************)
(* The 64-bit integers of the compiler itself (soft_u64.c): two limbs of   *)
(* 32 bits, so that a host without 64-bit integers can build it.  A limb   *)
(* has LimbBits bits here, every 32 of the source is LimbBits, every 64 is *)
(* twice that and every 16 half of it.                                     *)
(***************************************************************************)
EXTENDS Integers, FiniteSetsExt

CONSTANTS LimbBits,   \* bits of a uint32_t
          Base        \* the number of its values

ASSUME LimbAssumption == /\ LimbBits \in Nat \ {0}
                         /\ Base \in Nat \ {0, 1}
                         /\ Base = 2 ^ LimbBits
                         /\ LimbBits % 2 = 0

Limb == 0 .. Base - 1
U64 == [high : Limb, low : Limb]
Width == 2 * LimbBits
Pair(h, l) == [high |-> h, low |-> l]
Value(n) == n.high * Base + n.low

(* Operators of C on a uint32_t.                                           *)
Shl(x, k) == (x * 2 ^ k) % Base
Shr(x, k) == x \div 2 ^ k
Bits(x) == {i \in 0 .. LimbBits - 1 : (x \div 2 ^ i) % 2 = 1}
Or(x, y) == MapThenSumSet(LAMBDA i : 2 ^ i, Bits(x) \cup Bits(y))
Not(x) == Base - 1 - x
Negated(x) == (Base - x) % Base
SignBit(x) == x \div (Base \div 2)
AsInt(x) == IF SignBit(x) = 1 THEN x - Base ELSE x

Zero == Pair(0, 0)
FromLimb(x) == Pair(0, x)
FromInt(x) == Pair(IF SignBit(x) # 0 THEN Base - 1 ELSE 0, x)

Neg(n) == LET h == Not(n.high)  l == Not(n.low)
          IN  Pair(IF l = Base - 1 THEN (h + 1) % Base ELSE h, (l + 1) % Base)

LowSum(x, y) == (x.low + y.low) % Base
(* A mistaken variant: an unchanged low limb counts as a carry.            *)
BugCarryIn(x, y) == IF LowSum(x, y) <= x.low THEN 1 ELSE 0
CarryIn(x, y) == IF LowSum(x, y) < x.low THEN 1 ELSE 0
Add(x, y) == Pair((x.high + y.high + CarryIn(x, y)) % Base, LowSum(x, y))
AddCarry(x, y) ==
  LET h == (x.high + y.high) % Base
  IN  IF h < x.high THEN 1 ELSE IF h = Base - 1 THEN CarryIn(x, y) ELSE 0
AddLimb(x, y) == Add(x, FromLimb(y))
AddInt(x, y) == Add(x, FromInt(y))

LowDiff(x, y) == (x.low - y.low) % Base
(* The borrow that is returned is left out: no caller looks at it.         *)
BorrowIn(x, y) == IF LowDiff(x, y) > x.low THEN 1 ELSE 0
Sub(x, y) == Pair((x.high - y.high - BorrowIn(x, y)) % Base, LowDiff(x, y))
SubLimb(x, y) == Sub(x, FromLimb(y))
(* The high limb of low * low is taken from the high halves alone.         *)
Upper(x) == Shr(x, LimbBits \div 2)
Mul(x, y) == Pair((Upper(x.low) * Upper(y.low) + x.high * y.low + x.low * y.high) % Base,
                  (x.low * y.low) % Base)
MulLimb(x, y) == Pair((Upper(x.low) * Upper(y) + x.high * y) % Base, (x.low * y) % Base)

Lsh(n, by) ==
  LET c == by % Width
  IN  IF c = 0 THEN n
      ELSE IF c > LimbBits - 1 THEN Pair(Shl(n.low, c - LimbBits), 0)
      ELSE Pair(Or(Shl(n.high, c), Shr(n.low, LimbBits - c)), Shl(n.low, c))

Rsh(n, by) ==
  LET c == by % Width
  IN  IF c = 0 THEN n
      ELSE IF c > LimbBits - 1 THEN Pair(0, Shr(n.high, c - LimbBits))
      ELSE Pair(Shr(n.high, c), Or(Shr(n.low, c), Shl(n.high, LimbBits - c)))

(* From LimbBits on the low limb is not filled with the sign.              *)
Arsh(n, by) ==
  LET c == by % Width
      sign == Negated(SignBit(n.high))
  IN  IF c = 0 THEN n
      ELSE IF c > LimbBits - 1 THEN Pair(sign, Shr(n.high, c - LimbBits))
      ELSE Pair(Or(Shr(n.high, c), Shl(sign, LimbBits - c)),
                Or(Shr(n.low, c), Shl(n.high, LimbBits - c)))

Eq(x, y) == x.high = y.high /\ x.low = y.low
Ult(x, y) == x.high < y.high \/ (x.high = y.high /\ x.low < y.low)
Ugt(x, y) == x.high > y.high \/ (x.high = y.high /\ x.low > y.low)
Ule(x, y) == x.high < y.high \/ (x.high = y.high /\ x.low <= y.low)
Uge(x, y) == x.high > y.high \/ (x.high = y.high /\ x.low >= y.low)
Slt(x, y) == \/ AsInt(x.high) < AsInt(y.high)
             \/ AsInt(x.high) = AsInt(y.high) /\ x.low < y.low
Sgt(x, y) == \/ AsInt(x.high) > AsInt(y.high)
             \/ AsInt(x.high) = AsInt(y.high) /\ x.low > y.low
Sle(x, y) == \/ AsInt(x.high) < AsInt(y.high)
             \/ AsInt(x.high) = AsInt(y.high) /\ x.low <= y.low
Sge(x, y) == \/ AsInt(x.high) > AsInt(y.high)
             \/ AsInt(x.high) = AsInt(y.high) /\ x.low >= y.low
Sign(n) == SignBit(n.high) # 0

(* Leading zeroes of the limb the division looks at.                       *)
LimbClz(x) == IF x = 0 THEN LimbBits
              ELSE CHOOSE i \in 0 .. LimbBits - 1 : x \div 2 ^ (LimbBits - 1 - i) = 1
Clz(n) == IF n.high = 0 THEN LimbBits + LimbClz(n.low) ELSE LimbClz(n.high)

(* Shifted subtraction from the largest shift down to 1; the shift by 0    *)
(* that would decide the last bit of the quotient is not made.  The bit of *)
(* a shift by LimbBits is 1 << 32 in the low limb, undefined in C: bit is  *)
(* what the build makes of it, 0 or 1.                                     *)
QuotBit(q, s, bit) ==
  IF s > LimbBits THEN Pair(Or(q.high, Shl(1, s - LimbBits)), q.low)
  ELSE Pair(q.high, Or(q.low, IF s = LimbBits THEN bit ELSE Shl(1, s)))
Udiv(x, y, bit) ==
  LET div[s \in 0 .. Width] ==     \* the shifts above s are done
        IF s = Clz(y) THEN [rem |-> x, quot |-> Zero]
        ELSE LET d == div[s + 1]  part == Lsh(y, s + 1)
             IN  IF Uge(d.rem, part)
                 THEN [rem |-> Sub(d.rem, part), quot |-> QuotBit(d.quot, s + 1, bit)]
                 ELSE d
  IN  div[0]
Magnitude(n) == IF Sign(n) THEN Neg(n) ELSE n
Sdiv(x, y, bit) ==
  LET d == Udiv(Magnitude(x), Magnitude(y), bit)
  IN  IF Sign(x) # Sign(y) THEN [rem |-> Neg(d.rem), quot |-> Neg(d.quot)] ELSE d

(* The width counts the bits kept in the first shift and the bits dropped  *)
(* in the second.                                                          *)
Sext(n, width) == Arsh(Lsh(n, Width - width), width)
Zext(n, width) == Rsh(Lsh(n, Width - width), width)
=============================================================================
