------------------------------- MODULE CTypes -------------------------------
(***************************************************************************)
(* The integer types of C on the four targets (type.c, target/*-linux.c).  *)
(* Widths are in the scale of SoftU64: an int has LimbBits bits.           *)
(***************************************************************************)
EXTENDS SoftU64

TargetNames == {"i686", "x86_64", "riscv64", "aarch64"}
NarrowKinds == {"char", "schar", "uchar", "sshort", "ushort", "bool"}
SignedKinds == {"schar", "sshort", "sint", "slong", "sllong"}
UnsignedKinds == {"uchar", "ushort", "uint", "ulong", "ullong", "bool"}
IntKinds == SignedKinds \cup UnsignedKinds \cup {"char"}

IsSigned(target, k) == k \in SignedKinds \/ (k = "char" /\ target \in {"i686", "x86_64"})

BitWidth(target, k) ==
  CASE k \in {"char", "schar", "uchar", "bool"} -> LimbBits \div 4
    [] k \in {"sshort", "ushort"} -> LimbBits \div 2
    [] k \in {"sint", "uint"} -> LimbBits
    [] k \in {"slong", "ulong"} -> IF target = "i686" THEN LimbBits ELSE Width
    [] k \in {"sllong", "ullong"} -> Width

MaxVal(target, k) ==
  LET ones == Rsh(Neg(FromLimb(1)), Width - BitWidth(target, k))
  IN  IF IsSigned(target, k) THEN Rsh(ones, 1) ELSE ones
MinVal(target, k) ==
  IF IsSigned(target, k) THEN Neg(AddLimb(MaxVal(target, k), 1)) ELSE Zero

Rank(k) ==
  CASE k = "bool" -> 0
    [] k \in {"char", "schar", "uchar"} -> 1
    [] k \in {"sshort", "ushort"} -> 2
    [] k \in {"sint", "uint"} -> 3
    [] k \in {"slong", "ulong"} -> 4
    [] k \in {"sllong", "ullong"} -> 5

ToUnsigned(k) ==
  CASE k \in {"char", "schar", "uchar"} -> "uchar"
    [] k \in {"sshort", "ushort"} -> "ushort"
    [] k \in {"sint", "uint"} -> "uint"
    [] k \in {"slong", "ulong"} -> "ulong"
    [] k \in {"sllong", "ullong"} -> "ullong"
    [] k = "bool" -> "bool"

(* Both comparisons are the wrong way round: a type counts as a subset of  *)
(* the types that are not larger than it.                                  *)
IsSubset(target, sub, super) ==
  /\ ~Ugt(MaxVal(target, super), MaxVal(target, sub))
  /\ IsSigned(target, sub) => /\ IsSigned(target, super)
                              /\ ~Slt(MinVal(target, super), MinVal(target, sub))

SameRepr(target, a, b) ==
  /\ IsSigned(target, a) = IsSigned(target, b)
  /\ Eq(MinVal(target, a), MinVal(target, b)) /\ Eq(MaxVal(target, a), MaxVal(target, b))

NeedsPromotion(k) == k \in NarrowKinds
Promoted(k) == IF NeedsPromotion(k) THEN "sint" ELSE k

(* The common type of two operands, and which of them are converted.       *)
Conversion(kind, sides) == [kind |-> kind, sides |-> sides]
UsualConversions(target, left, right) ==
  LET a == Promoted(left)  b == Promoted(right)
      sa == IsSigned(target, a)  sb == IsSigned(target, b)
      aFits == sa /\ IsSubset(target, b, a)
      bFits == sb /\ IsSubset(target, b, a)
  IN  IF NeedsPromotion(left) /\ NeedsPromotion(right) THEN Conversion("sint", {"left", "right"})
      ELSE IF NeedsPromotion(left) /\ b = "sint" THEN Conversion("sint", {"left"})
      ELSE IF NeedsPromotion(right) /\ a = "sint" THEN Conversion("sint", {"right"})
      ELSE IF a = b THEN Conversion(a, {})
      ELSE IF sa = sb /\ Rank(a) <= Rank(b) THEN Conversion(b, {"left"})
      ELSE IF sa = sb THEN Conversion(a, {"right"})
      ELSE IF ~sa /\ Rank(b) <= Rank(a) THEN Conversion(a, {"right"})
      ELSE IF ~sb /\ Rank(a) <= Rank(b) THEN Conversion(b, {"left"})
      ELSE IF aFits THEN Conversion(a, {"right"})
      ELSE IF bFits THEN Conversion(b, {"left"})
      ELSE Conversion(ToUnsigned(IF sb THEN b ELSE a), {"left", "right"})

(* What depends on the types alone, tabulated.                             *)
Alike == [target \in TargetNames, a, b \in IntKinds |-> SameRepr(target, a, b)]
Conversions == [target \in TargetNames, a, b \in IntKinds |-> UsualConversions(target, a, b)]

(* C99 6.3.1.8.                                                            *)
RangeOf(target, k) ==
  LET w == BitWidth(target, k)
  IN  IF IsSigned(target, k) THEN (- 2 ^ (w - 1)) .. (2 ^ (w - 1) - 1) ELSE 0 .. (2 ^ w - 1)
CommonTypeInC(target, left, right) ==
  LET a == Promoted(left)  b == Promoted(right)
      high == IF Rank(a) >= Rank(b) THEN a ELSE b
      low == IF Rank(a) >= Rank(b) THEN b ELSE a
  IN  IF IsSigned(target, a) = IsSigned(target, b) THEN high
      ELSE IF ~IsSigned(target, high) THEN high
      ELSE IF Rank(a) = Rank(b) THEN ToUnsigned(high)
      ELSE IF RangeOf(target, low) \subseteq RangeOf(target, high) THEN high
      ELSE ToUnsigned(high)
CommonTypes == [target \in TargetNames, a, b \in IntKinds |-> CommonTypeInC(target, a, b)]
=============================================================================
