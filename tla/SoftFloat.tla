------------------------------ MODULE SoftFloat ------------------------------
(***************************************************************************)
(* The long doubles the compiler computes floating literals with           *)
(* (soft_float.c), in the format of binary128: a sign, a biased exponent   *)
(* and a mantissa of four limbs whose last Pad bits are unused.  In the    *)
(* source Pad is 16 and Bias 16383; the least significand bit kept lies    *)
(* Pad - 1 above the bottom of a significand, for its top bit is the       *)
(* implicit one.                                                           *)
(*                                                                         *)
(* lost is what the stack holds where the source declares a local number   *)
(* without initialising it: the bits that a shift would lose are moved     *)
(* there, and LshWide reads it.                                            *)
(***************************************************************************)
EXTENDS SoftU128

CONSTANTS Pad, Bias

ASSUME FormatAssumption == /\ Pad \in 4 .. LimbBits
                           /\ Bias \in Nat /\ Bias > WideWidth

InfExponent == 2 * Bias + 1
SignificantDigits == WideWidth - Pad
MaxNormExp == Bias
MinNormExp == 1 - Bias

Float(sign, exponent, mant) == [sign |-> sign, exponent |-> exponent, mant |-> mant]
FloatZero(sign) == Float(sign, 0, WideZero)
Infinity(sign) == Float(sign, InfExponent, WideZero)
TopBit == <<Base \div 2, 0, 0, 0>>
DefaultNaN(sign) == Float(sign, InfExponent, TopBit)
IsZero(f) == f.exponent = 0 /\ IsZeroWide(f.mant)
IsNaN(f) == f.exponent = InfExponent /\ ~IsZeroWide(f.mant)
IsInf(f) == f.exponent = InfExponent
Absolute(f) == [f EXCEPT !.sign = FALSE]
SignOf(x, y) == x.sign # y.sign

Ge(x, y) ==
  /\ ~IsNaN(x) /\ ~IsNaN(y)
  /\ LET larger == \/ x.exponent > y.exponent
                   \/ x.exponent = y.exponent /\ UgeWide(x.mant, y.mant)
         same == x.exponent = y.exponent /\ x.mant = y.mant
     IN  \/ IsZero(x) /\ IsZero(y)
         \/ ~x.sign /\ y.sign
         \/ x.sign = y.sign /\ (same \/ larger = ~x.sign)

(* Conversion of a limb: its leading one becomes the implicit bit.         *)
FromU32(n) ==
  IF n = 0 THEN FloatZero(FALSE)
  ELSE Float(FALSE, Bias + LimbBits - 1 - LimbClz(n),
             <<IF LimbClz(n) < LimbBits - 1 THEN Shl(n, LimbClz(n) + 1) ELSE 0, 0, 0, 0>>)
FromS32(n) == IF n < 0 THEN [FromU32(-n) EXCEPT !.sign = TRUE] ELSE FromU32(n)
GeS32(f, n) == Ge(f, FromS32(n))

(* A subnormal is given the exponent minus its leading zeroes, as if its   *)
(* exponent field were Bias.                                               *)
Unpack(f) ==
  IF f.exponent = 0
  THEN [exponent |-> -ClzWide(f.mant), significand |-> LshHere(f.mant, ClzWide(f.mant))]
  ELSE [exponent |-> f.exponent - Bias,
        significand |-> [RshHere(f.mant, 1) EXCEPT ![1] = Or(@, Base \div 2)]]

Clear(n) == [n EXCEPT ![4] = Shl(Shr(@, Pad), Pad)]
Below(sig) == sig[4] % 2 ^ (Pad - 1)
Halfway == 2 ^ (Pad - 2)
(* A mistaken variant: ties always go up.                                  *)
BugRoundsUp(sig) == Below(sig) >= Halfway
RoundsUp(sig) == \/ Below(sig) > Halfway
                 \/ Below(sig) = Halfway /\ Shr(sig[4], Pad - 1) % 2 = 1

(* One more in the last place, with room made for the carry first.         *)
RoundedUp(sig) == AddWide(RshHere(sig, 1), Small(Halfway)).limbs

Denormal(sig, e, lost) ==
  LET gone == LshWide(lost, sig, LimbBits + e + Bias)
      down == RshHere(sig, -(e + Bias))
  IN  IF IsZeroWide(gone) THEN down ELSE OrSmall(down, 1)

Rounded(sig) ==
  LET Either(up) == IF SignBit(up[1]) # 0 THEN [carried |-> TRUE, sig |-> up]
                    ELSE [carried |-> FALSE, sig |-> LshHere(up, 1)]
  IN  IF RoundsUp(sig) THEN Either(RoundedUp(sig)) ELSE [carried |-> FALSE, sig |-> sig]

PackSubnormal(r, e, sign) ==
  IF e + WideWidth + Bias <= 0 THEN FloatZero(sign)
  ELSE IF r.carried THEN Float(sign, 1, WideZero)
  ELSE Float(sign, 0, Clear(r.sig))
PackNormal(r, e, sign) ==
  LET final == IF r.carried THEN e + 1 ELSE e
  IN  IF final > MaxNormExp THEN Infinity(sign)
      ELSE Float(sign, final + Bias, Clear(LshHere(r.sig, 1)))
Pack(sig, e, sign, lost) ==
  IF e + Bias < 0 THEN PackSubnormal(Rounded(Denormal(sig, e, lost)), e, sign)
  ELSE PackNormal(Rounded(sig), e, sign)
(* e is the exponent if the top bit of the result is set, else one less.   *)
PackShifted(sig, e, sign, lost) ==
  LET short == SignBit(sig[1]) = 0
  IN  Pack(IF short THEN LshHere(sig, 1) ELSE sig, IF short THEN e - 1 ELSE e, sign, lost)

(* The smaller number, moved to the exponent of the larger one, with a     *)
(* last bit that says whether anything was lost.                           *)
Aligned(sig, delta, lost) ==
  IF delta >= WideWidth THEN Small(1)
  ELSE IF delta = 0 \/ IsZeroWide(LshWide(lost, sig, WideWidth - delta)) THEN RshHere(sig, delta)
  ELSE OrSmall(RshHere(sig, delta), 1)

SumOf(far, near, sign, lost) ==
  PackShifted(AddWide(RshHere(far.significand, 1), OrSmall(RshHere(near, 1), near[4] % 2)).limbs,
              far.exponent + 1, sign, lost)

DifferenceOf(far, near, sign, lost) ==
  LET Packed(diff) ==
        IF IsZeroWide(diff) THEN FloatZero(FALSE)
        ELSE Pack(LshHere(diff, ClzWide(diff)), far.exponent - ClzWide(diff), sign, lost)
  IN  Packed(SubWide(far.significand, near))

AddAligned(f, n, subtract, sign, lost) ==
  LET moved == Aligned(n.significand, f.exponent - n.exponent, lost)
  IN  IF subtract THEN DifferenceOf(f, moved, sign, lost) ELSE SumOf(f, moved, sign, lost)
AddFinite(x, y, lost) ==
  LET first == Ge(Absolute(x), Absolute(y))
      far == IF first THEN x ELSE y
      near == IF first THEN y ELSE x
  IN  AddAligned(Unpack(far), Unpack(near), SignOf(x, y), far.sign, lost)

AddFloat(x, y, lost) ==
  IF IsNaN(x) THEN x
  ELSE IF IsNaN(y) THEN y
  ELSE IF IsInf(x) THEN IF IsInf(y) /\ SignOf(x, y) THEN DefaultNaN(x.sign) ELSE x
  ELSE IF IsInf(y) THEN y
  ELSE IF IsZero(x) /\ IsZero(y) THEN FloatZero(x.sign /\ y.sign)
  ELSE IF IsZero(x) THEN y
  ELSE IF IsZero(y) THEN x
  ELSE AddFinite(x, y, lost)

SubFloat(x, y, lost) == AddFloat(x, [y EXCEPT !.sign = ~@], lost)

MulFinite(x, y, lost) ==
  LET f == Unpack(x)  g == Unpack(y)
      High(product) == IF IsZeroWide(product.low) THEN product.high ELSE OrSmall(product.high, 1)
  IN  PackShifted(High(MulWidening(f.significand, g.significand)),
                  f.exponent + g.exponent + 1, SignOf(x, y), lost)

(* A zero times an infinity is a NaN whose sign depends on the order.      *)
MulFloat(x, y, lost) ==
  IF IsNaN(x) THEN x
  ELSE IF IsNaN(y) THEN y
  ELSE IF IsInf(x) THEN IF IsZero(y) THEN DefaultNaN(FALSE) ELSE Infinity(SignOf(x, y))
  ELSE IF IsInf(y) THEN IF IsZero(x) THEN DefaultNaN(SignOf(x, y)) ELSE Infinity(SignOf(x, y))
  ELSE IF IsZero(x) \/ IsZero(y) THEN FloatZero(SignOf(x, y))
  ELSE MulFinite(x, y, lost)

(* Long division, one bit of the quotient at a time.                       *)
Quotient(n, d) ==
  LET div[i \in 0 .. WideWidth] ==
        IF i = 0 THEN [rem |-> RshHere(n, 1), quot |-> WideZero]
        ELSE LET s == div[i - 1]
                 part == RshHere(d, 1)
             IN  IF UgeWide(s.rem, part)
                 THEN [rem |-> LshHere(SubWide(s.rem, part), 1),
                       quot |-> OrSmall(LshHere(s.quot, 1), 1)]
                 ELSE [rem |-> LshHere(s.rem, 1), quot |-> LshHere(s.quot, 1)]
      last == div[WideWidth]
  IN  IF IsZeroWide(last.rem) THEN last.quot ELSE OrSmall(last.quot, 1)

DivFinite(x, y, lost) ==
  LET f == Unpack(x)  g == Unpack(y)
  IN  PackShifted(Quotient(f.significand, g.significand), f.exponent - g.exponent, SignOf(x, y), lost)

DivFloat(x, y, lost) ==
  IF IsNaN(x) THEN x
  ELSE IF IsNaN(y) THEN y
  ELSE IF IsInf(x) THEN IF IsZero(y) THEN DefaultNaN(FALSE) ELSE Infinity(SignOf(x, y))
  ELSE IF IsInf(y) THEN FloatZero(SignOf(x, y))
  ELSE IF IsZero(y)
       THEN IF IsZero(x) THEN DefaultNaN(SignOf(x, y)) ELSE Infinity(SignOf(x, y))
  ELSE IF IsZero(x) THEN FloatZero(SignOf(x, y))
  ELSE DivFinite(x, y, lost)

FromFrac(dividend, divisor, lost) == DivFloat(FromS32(dividend), FromS32(divisor), lost)
AddU32(f, n, lost) == AddFloat(f, FromU32(n), lost)
SubU32(f, n, lost) == SubFloat(f, FromU32(n), lost)
MulU32(f, n, lost) == MulFloat(f, FromU32(n), lost)
DivU32(f, n, lost) == DivFloat(f, FromU32(n), lost)

(* Powers of two and the scaling by them, for exponents of normal numbers  *)
(* and for those beyond, in two or three multiplications.                  *)
PowerOfTwo(e) == Float(FALSE, Bias + e, WideZero)
Ldexp1(e) == IF e > Bias THEN Infinity(FALSE) ELSE PowerOfTwo(e)
AtMost(n, e) == IF e > n THEN n ELSE e
AtLeast(n, e) == IF e < n THEN n ELSE e
ScalbnL(f, e, lost) ==
  LET low == e + Bias < 0
      high == e + Bias >= InfExponent
      step == IF low THEN -MinNormExp - (SignificantDigits + 1) ELSE -MaxNormExp
      twice == IF low THEN e + step < MinNormExp ELSE e + step > MaxNormExp
      rest == CASE ~(low \/ high) -> e
                [] (low \/ high) /\ ~twice -> e + step
                [] low /\ twice -> AtLeast(MinNormExp, e + 2 * step)
                [] high /\ twice -> AtMost(MaxNormExp, e + 2 * step)
      by == IF low THEN MulFloat(Ldexp1(MinNormExp), Ldexp1(SignificantDigits + 1), lost)
            ELSE Ldexp1(MaxNormExp)
      Scaled(g, doIt) == IF doIt THEN MulFloat(g, by, lost) ELSE g
  IN  MulFloat(Scaled(Scaled(f, low \/ high), (low \/ high) /\ twice), PowerOfTwo(rest), lost)

(* The 80-bit format of x87: 64 bits of significand with the integer bit,  *)
(* rounded from the first two limbs of the mantissa, ties to even.         *)
RoundF80(f) ==
  LET m == f.mant
      low == Or(Shr(m[2], 1), Shl(m[1], LimbBits - 1))
      high == Or(Shr(m[1], 1), IF f.exponent # 0 THEN Base \div 2 ELSE 0)
      up == AddLimb(Pair(high, low), 1)
      round == m[2] % 2 = 1 /\ (low % 2 = 1 \/ m[3] # 0 \/ m[4] # 0)
      carried == low % 2 = 1 /\ up = Zero
      out(e, n) == [sign |-> f.sign, exponent |-> e, significand |-> n]
  IN  IF IsNaN(f) THEN [sign |-> FALSE, exponent |-> InfExponent,
                        significand |-> Pair(Or(Base \div 2, Base \div 4), 0)]
      ELSE IF IsZero(f) \/ IsInf(f) THEN out(f.exponent, Zero)
      ELSE IF ~round THEN out(f.exponent, Pair(high, low))
      ELSE IF carried THEN out(f.exponent + 1, Pair(Base \div 2, 0))
      ELSE out(f.exponent, up)
=============================================================================
