----------------------------- MODULE Arithmetic -----------------------------
(***************************************************************************)
(* The arithmetic of the compiler at work: calculations that go on from    *)
(* the last result, in 64-bit integers or long doubles, the evaluation of  *)
(* constant expressions that grow, and the numbering of enumerators.  Each *)
(* value is kept next to the number it stands for.                         *)
(***************************************************************************)
EXTENDS ConstEval, SoftFloat

CONSTANTS Operands,     \* 64-bit operands, as numbers
          Floats,       \* operands in long double
          Literals,     \* leaves of expressions
          Garbage,      \* what an uninitialised local number may hold
          MaxSteps      \* bound on the operations in long double
CONSTANTS MaxLeaves,    \* bound on the leaves of an expression
          MaxEnumerators

VARIABLES unit,      \* what is calculated with
          acc,       \* the last result
          exact,     \* the number it should be
          steps,     \* operations done
          target

vars == <<unit, acc, exact, steps, target>>

Modulus == Base * Base
FromNumber(n) == Pair((n \div Base) % Base, n % Base)
SignedNumber(n) == IF n >= Modulus \div 2 THEN n - Modulus ELSE n

(* ------------------------- 64-bit integers ----------------------------- *)

(* What tacc_u64_mul leaves out: the carry of the two middle products.     *)
MiddleFits(x, y) ==
  LET h == 2 ^ (LimbBits \div 2)
      x0 == x.low % h  x1 == x.low \div h  y0 == y.low % h  y1 == y.low \div h
  IN  (x1 * y0 + x0 * y1) * h + x0 * y0 < Base
(* What tacc_u64_udiv gets right: even quotients without the bit of 1<<32. *)
QuotientFound(n, d) == (n \div d) % 2 = 0 /\ (n \div (d * Base)) % 2 = 0

IntegerStep(n, e) == unit = "integer" /\ acc' = n /\ exact' = e % Modulus
                     /\ UNCHANGED <<unit, steps, target>>

AddStep == \E y \in Operands : IntegerStep(Add(acc, FromNumber(y)), exact + y)
SubStep == \E y \in Operands : IntegerStep(Sub(acc, FromNumber(y)), exact - y)
NegStep == IntegerStep(Neg(acc), -exact)
MulStep == \E y \in Operands :
  /\ unit = "integer" /\ MiddleFits(acc, FromNumber(y))
  /\ IntegerStep(IF y < Base THEN MulLimb(acc, y) ELSE Mul(acc, FromNumber(y)), exact * y)
AddSmallStep == \E x \in Limb : IntegerStep(AddInt(acc, x), exact + AsInt(x))
SubSmallStep == \E x \in Limb : IntegerStep(SubLimb(acc, x), exact - x)
LshStep == \E k \in 0 .. Width - 1 : IntegerStep(Lsh(acc, k), exact * 2 ^ k)
RshStep == \E k \in 0 .. Width - 1 : IntegerStep(Rsh(acc, k), exact \div 2 ^ k)
(* Arithmetic shifts reach into the low limb only by less than a limb.     *)
ArshStep == \E k \in 0 .. LimbBits : IntegerStep(Arsh(acc, k), SignedNumber(exact) \div 2 ^ k)
DivStep == \E y \in Operands \ {0}, bit \in 0 .. 1, rem \in BOOLEAN :
  /\ unit = "integer" /\ QuotientFound(exact, y)
  /\ LET d == Udiv(acc, FromNumber(y), bit)
     IN  IntegerStep(IF rem THEN d.rem ELSE d.quot,
                     IF rem THEN exact % y ELSE exact \div y)
(* Of a signed division by a negative number the remainder has the wrong   *)
(* sign.                                                                   *)
SignedDivStep == \E y \in Operands \ {0}, bit \in 0 .. 1, rem \in BOOLEAN :
  LET n == SignedNumber(exact)  d == SignedNumber(y)
      size(i) == IF i < 0 THEN -i ELSE i
      signed(i, negative) == IF negative THEN -i ELSE i
      out == Sdiv(acc, FromNumber(y), bit)
  IN  /\ unit = "integer" /\ QuotientFound(size(n), size(d)) /\ (rem => d > 0)
      /\ IntegerStep(IF rem THEN out.rem ELSE out.quot,
                     IF rem THEN signed(size(n) % size(d), n < 0)
                     ELSE signed(size(n) \div size(d), (n < 0) # (d < 0)))
ExtendStep == \E signed \in BOOLEAN :     \* to the width of a limb
  IntegerStep(IF signed THEN Sext(acc, LimbBits) ELSE Zext(acc, LimbBits),
              IF signed THEN AsInt(exact % Base) ELSE exact % Base)

(* --------------------------- long doubles ------------------------------ *)

Precision == SignificantDigits + 1
LeadingOne == 2 ^ SignificantDigits
(* A finite normal float as significand * 2 ^ power.                       *)
IsNormal(f) == f.exponent \in 1 .. InfExponent - 1
WideValue(n) == ((n[1] * Base + n[2]) * Base + n[3]) * Base + n[4]
Number(f) == [sign |-> f.sign, sig |-> LeadingOne + WideValue(f.mant) \div 2 ^ Pad,
              power |-> f.exponent - Bias - SignificantDigits]
FloatOf(sign, sig, power) ==
  LET m == (sig - LeadingOne) * 2 ^ Pad
  IN  Float(sign, power + Bias + SignificantDigits,
            [i \in 1 .. 4 |-> (m \div Base ^ (4 - i)) % Base])

BitLength(n) == CHOOSE b \in 1 .. 31 : n >= 2 ^ (b - 1) /\ (b = 31 \/ n < 2 ^ b)

(* The float nearest to n * 2 ^ power, ties to even.                       *)
Nearest(sign, n, power) ==
  LET drop == BitLength(n) - Precision
      q == n \div 2 ^ drop
      r == n % 2 ^ drop
      half == 2 ^ (drop - 1)
      up == r > half \/ (r = half /\ q % 2 = 1)
      s == IF up THEN q + 1 ELSE q
  IN  IF drop <= 0 THEN FloatOf(sign, n * 2 ^ (-drop), power + drop)
      ELSE IF s = 2 * LeadingOne THEN FloatOf(sign, LeadingOne, power + drop + 1)
      ELSE FloatOf(sign, s, power + drop)

ExactSum(x, y) ==
  LET a == Number(x)  b == Number(y)
      far == IF a.power >= b.power THEN a ELSE b
      near == IF a.power >= b.power THEN b ELSE a
      n(v) == IF v.sign THEN -v.sig ELSE v.sig
      sum == n(far) * 2 ^ (far.power - near.power) + n(near)
  IN  IF sum = 0 THEN FloatZero(FALSE)
      ELSE Nearest(sum < 0, IF sum < 0 THEN -sum ELSE sum, near.power)
ExactProduct(x, y) ==
  Nearest(SignOf(x, y), Number(x).sig * Number(y).sig, Number(x).power + Number(y).power)
ExactQuotient(x, y) ==     \* the last bit says that the division leaves a remainder
  LET n == Number(x).sig * 2 ^ (Precision + 1)
      q == n \div Number(y).sig
  IN  Nearest(SignOf(x, y), 2 * q + IF n % Number(y).sig = 0 THEN 0 ELSE 1,
              Number(x).power - Number(y).power - Precision - 2)

(* Sums whose lost bits are looked for where the program has written them: *)
(* beyond a distance of one limb what the stack held is among them.        *)
Distance(x, y) == LET d == x.exponent - y.exponent IN IF d < 0 THEN -d ELSE d
SumDetermined(x, y) == Distance(x, y) <= LimbBits
MaxDistance == 16       \* of numbers whose exact sum is a number of TLC
InRange(f) == IsZero(f) \/ IsNormal(f)

FloatStep(f, e) == /\ unit = "float" /\ steps < MaxSteps
                   /\ acc' = f /\ exact' = e /\ steps' = steps + 1
                   /\ UNCHANGED <<unit, target>>
Normals == unit = "float" /\ IsNormal(acc)
AddFloatStep == \E y \in Floats, lost \in Garbage :
  /\ Normals /\ SumDetermined(acc, y) /\ InRange(ExactSum(acc, y))
  /\ FloatStep(AddFloat(acc, y, lost), ExactSum(acc, y))
SubFloatStep == \E y \in Floats, lost \in Garbage :
  LET negated == [y EXCEPT !.sign = ~@]
  IN  /\ Normals /\ SumDetermined(acc, y) /\ InRange(ExactSum(acc, negated))
      /\ FloatStep(SubFloat(acc, y, lost), ExactSum(acc, negated))
MulFloatStep == \E y \in Floats, lost \in Garbage :
  /\ Normals /\ InRange(ExactProduct(acc, y))
  /\ FloatStep(MulFloat(acc, y, lost), ExactProduct(acc, y))
DivFloatStep == \E y \in Floats, lost \in Garbage :
  /\ Normals /\ InRange(ExactQuotient(acc, y))
  /\ FloatStep(DivFloat(acc, y, lost), ExactQuotient(acc, y))
(* Operations with an integer, and a fraction of two.                      *)
SmallFloatStep == \E n \in 1 .. 3, lost \in Garbage :
  LET y == FromU32(n)  minus == FromS32(-n)
  IN  /\ Normals
      /\ \/ /\ SumDetermined(acc, y) /\ InRange(ExactSum(acc, y))
            /\ FloatStep(AddU32(acc, n, lost), ExactSum(acc, y))
         \/ /\ SumDetermined(acc, y) /\ InRange(ExactSum(acc, minus))
            /\ FloatStep(SubU32(acc, n, lost), ExactSum(acc, minus))
         \/ /\ InRange(ExactProduct(acc, y))
            /\ FloatStep(MulU32(acc, n, lost), ExactProduct(acc, y))
         \/ /\ InRange(ExactQuotient(acc, y))
            /\ FloatStep(DivU32(acc, n, lost), ExactQuotient(acc, y))
FractionStep == \E n \in {-3, -1, 2}, d \in {-3, 1, 5}, lost \in Garbage :
  FloatStep(FromFrac(n, d, lost), ExactQuotient(FromS32(n), FromS32(d)))
ScaleStep == \E k \in {-Bias - 2, -3, 5, Bias + 1}, lost \in Garbage :
  LET e == [acc EXCEPT !.exponent = @ + k]
  IN  Normals /\ IsNormal(e) /\ FloatStep(ScalbnL(acc, k, lost), e)

(* ----------------------- constant expressions -------------------------- *)

Grow(e) == /\ unit = "expression" /\ steps < MaxLeaves
           /\ acc' = e /\ steps' = steps + 1 /\ UNCHANGED <<unit, exact, target>>
GrowRight == \E op \in ArithmeticOps \cup CompareOps \cup LogicOps, e \in Literals :
               Grow([op |-> op, left |-> acc, right |-> e])
GrowLeft == \E op \in ArithmeticOps \cup CompareOps \cup LogicOps, e \in Literals :
               Grow([op |-> op, left |-> e, right |-> acc])
GrowNot == Grow([op |-> "not", of |-> acc])

(* What C says, as long as C calculates with the numbers themselves: no    *)
(* conversion changes a value and no result leaves its type.               *)
Undefined == [type |-> "undefined", n |-> 0]
Unknown == [type |-> "none", n |-> 0]
Const(type, n) == [type |-> type, n |-> n]
Meant(v) == v \notin {Undefined, Unknown}
Truth(b) == Const("sint", IF b THEN 1 ELSE 0)
LiteralTypeInC(e) ==     \* the table of 6.4.4.1
  LET list == CASE ~e.u /\ e.decimal -> <<"sint", "slong", "sllong">>
                [] ~e.u /\ ~e.decimal -> <<"sint", "uint", "slong", "ulong", "sllong", "ullong">>
                [] e.u -> <<"uint", "ulong", "ullong">>
      ok == {i \in DOMAIN list : /\ Rank(list[i]) >= Rank("sint") + e.l
                                 /\ Value(e.number) \in RangeOf(target, list[i])}
  IN  IF ok = {} THEN Undefined
      ELSE Const(list[CHOOSE i \in ok : \A j \in ok : i <= j], Value(e.number))
NumberOf(op, m, n) ==
  CASE op = "+" -> m + n [] op = "-" -> m - n [] op = "*" -> m * n
Holds(op, m, n) ==
  CASE op = "==" -> m = n [] op = "!=" -> m # n [] op = "<" -> m < n
    [] op = ">" -> m > n [] op = ">=" -> m >= n

RECURSIVE InC(_)
InC(e) ==
  IF e.op = "int" THEN LiteralTypeInC(e)
  ELSE IF e.op = "char" THEN Const(CharType(target, e), Value(e.number))
  ELSE IF e.op = "enumerator" THEN Const("sint", SignedNumber(Value(e.number)))
  ELSE IF e.op = "name" THEN Unknown
  ELSE IF e.op = "not" THEN LET v == InC(e.of) IN IF Meant(v) THEN Truth(v.n = 0) ELSE v
  ELSE LET l == InC(e.left)  r == InC(e.right)
       IN  IF ~Meant(l) THEN l
           ELSE IF e.op \in LogicOps
           THEN IF (l.n # 0) = (e.op = "||") THEN Truth(l.n # 0)
                ELSE IF Meant(r) THEN Truth(r.n # 0) ELSE r
           ELSE IF ~Meant(r) THEN r
           ELSE LET type == CommonTypes[target, l.type, r.type]
                IN  IF ~({l.n, r.n} \subseteq RangeOf(target, type)) THEN Undefined
                    ELSE IF e.op \in CompareOps THEN Truth(Holds(e.op, l.n, r.n))
                    ELSE IF NumberOf(e.op, l.n, r.n) \in RangeOf(target, type)
                    THEN Const(type, NumberOf(e.op, l.n, r.n))
                    ELSE Undefined

(* Where the evaluator is known to leave C: products with a carry in the   *)
(* middle, and operators whose left operand has another type than both     *)
(* are converted to, for the result keeps that type and a comparison is    *)
(* made by it.                                                             *)
RECURSIVE Sound(_)
Sound(e) ==
  IF e.op \in LeafOps THEN TRUE
  ELSE IF e.op = "not" THEN Sound(e.of)
  ELSE LET l == InC(e.left)  r == InC(e.right)
       IN  /\ Sound(e.left) /\ Sound(e.right)
           /\ e.op = "*" /\ Meant(l) /\ Meant(r)
                => MiddleFits(FromNumber(l.n), FromNumber(r.n))
           /\ e.op \notin LogicOps /\ Meant(l) /\ Meant(r)
                => CommonTypes[target, l.type, r.type] = l.type

(* ---------------------------- enumerators ------------------------------ *)

(* acc is the list of values given, exact the list of those C gives.       *)
(* A mistaken variant: the counter goes on past a value that is given.     *)
BugEnumCounter(values) == FromLimb(Len(values))
EnumCounter(values) == IF values = <<>> THEN Zero ELSE AddLimb(values[Len(values)], 1)
EnumRefused(counter) == counter = Pair(Base - 1, Base - 1)
NextInC(values) == IF values = <<>> THEN 0 ELSE values[Len(values)] + 1
Numbering == unit = "enumerators" /\ Len(acc) < MaxEnumerators

ImplicitEnumerator ==
  /\ Numbering /\ ~EnumRefused(EnumCounter(acc))
  /\ acc' = Append(acc, EnumCounter(acc))
  /\ exact' = Append(exact, NextInC(exact))
  /\ UNCHANGED <<unit, steps, target>>

ExplicitEnumerator == \E n \in Operands :
  /\ Numbering
  /\ Sge(FromNumber(n), MinVal(target, "sint")) /\ Sle(FromNumber(n), MaxVal(target, "sint"))
  /\ acc' = Append(acc, FromNumber(n))
  /\ exact' = Append(exact, SignedNumber(n))
  /\ UNCHANGED <<unit, steps, target>>

(* ----------------------------- the whole ------------------------------- *)

Init == /\ steps = 0
        /\ target \in TargetNames
        /\ \/ unit = "integer" /\ acc = Zero /\ exact = 0 /\ target = "x86_64"
           \/ unit = "float" /\ acc \in Floats /\ exact = acc /\ target = "x86_64"
           \/ unit = "expression" /\ acc \in Literals /\ exact = 0
              /\ target \in {"i686", "x86_64"}
           \/ unit = "enumerators" /\ acc = <<>> /\ exact = <<>> /\ target = "x86_64"

Next == \/ AddStep \/ SubStep \/ NegStep \/ MulStep \/ AddSmallStep \/ SubSmallStep
        \/ LshStep \/ RshStep \/ ArshStep \/ DivStep \/ SignedDivStep \/ ExtendStep
        \/ AddFloatStep \/ SubFloatStep \/ MulFloatStep \/ DivFloatStep
        \/ SmallFloatStep \/ FractionStep \/ ScaleStep
        \/ GrowRight \/ GrowLeft \/ GrowNot
        \/ ImplicitEnumerator \/ ExplicitEnumerator

Spec == Init /\ [][Next]_vars

(* -------------------------- the properties ----------------------------- *)

(* Every operation on the two limbs is the one on 64-bit numbers, carries, *)
(* shifts across the limbs and quotients included, and every comparison    *)
(* with a further number is that of the numbers (soft_u64.c).              *)
IntegersExact ==
  unit = "integer" =>
    /\ Value(acc) = exact
    /\ \A y \in Operands :
         LET n == FromNumber(y)  s == SignedNumber(exact)  t == SignedNumber(y)
         IN  /\ Ult(acc, n) = (exact < y) /\ Ule(acc, n) = (exact <= y)
             /\ Ugt(acc, n) = (exact > y) /\ Uge(acc, n) = (exact >= y)
             /\ Slt(acc, n) = (s < t) /\ Sle(acc, n) = (s <= t)
             /\ Sgt(acc, n) = (s > t) /\ Sge(acc, n) = (s >= t)
             /\ AddCarry(acc, n) = (exact + y) \div Modulus

(* Sums, differences, products, quotients and scalings of normal numbers   *)
(* whose result is normal are the exact ones rounded to nearest, ties to   *)
(* even, whatever the stack held; so is the 80-bit number written for a    *)
(* result, and results compare as the numbers do (soft_float.c,            *)
(* soft_u128.c).                                                           *)
FloatsRounded ==
  unit = "float" =>
    /\ acc = exact
    /\ IsNormal(acc) =>
         /\ \A y \in Floats : Distance(acc, y) <= MaxDistance =>
              Ge(acc, y) = ~ExactSum(acc, [y EXCEPT !.sign = ~@]).sign
         /\ \A n \in {-2, 1, 7} : Distance(acc, FromS32(-n)) <= MaxDistance =>
              GeS32(acc, n) = ~ExactSum(acc, FromS32(-n)).sign
    /\ IsNormal(acc) =>
         LET n == LeadingOne + WideValue(acc.mant) \div 2 ^ Pad
             keep == Width      \* bits of an 80-bit significand
             drop == Precision - keep
             q == n \div 2 ^ drop
             up == \/ 2 * (n % 2 ^ drop) > 2 ^ drop
                   \/ 2 * (n % 2 ^ drop) = 2 ^ drop /\ q % 2 = 1
             s == IF up THEN q + 1 ELSE q
             out == RoundF80(acc)
         IN  IF s = 2 ^ keep
             THEN Value(out.significand) = s \div 2 /\ out.exponent = acc.exponent + 1
             ELSE Value(out.significand) = s /\ out.exponent = acc.exponent

(* A constant expression in which C calculates with the numbers themselves *)
(* gets the value C gives it; it is constant when C says so.  For #if,     *)
(* case labels, array sizes (machine.c).                                   *)
ConstantIsC ==
  unit = "expression" =>
    LET Agree(c, v) ==
          c # Undefined => IF c = Unknown THEN v = NotConstant
                           ELSE v # NotConstant /\ Value(v.value) = c.n % Modulus
    IN  Agree(InC(acc), Eval(target, acc))

(* The same where the evaluator keeps to it.                               *)
SoundConstantIsC == unit = "expression" /\ Sound(acc) => ConstantIsC

(* An enumerator without a value is one more than the last (compile.c).    *)
EnumeratorsCount ==
  unit = "enumerators" =>
    /\ Len(acc) = Len(exact)
    /\ \A i \in DOMAIN acc : Value(acc[i]) = exact[i] % Modulus
=============================================================================
