------------------------------ MODULE ConstEval ------------------------------
(***************************************************************************)
(* The evaluation of constant expressions (machine.c), for #if, array      *)
(* sizes, case labels and enumerators.  An expression is a record          *)
(*   [op |-> "int", number, decimal, u, l]   a literal and its suffixes    *)
(*   [op |-> "char", number, wide]           a character                   *)
(*   [op |-> "enumerator", number]                                         *)
(*   [op |-> "name"]                         any other name                *)
(*   [op |-> "not", of]                                                    *)
(*   [op, left, right]                       with a binary operator        *)
(* A value keeps 64 bits whatever its type.  The other operators of C are  *)
(* refused ("consteval" assertions of machine.c).                          *)
(***************************************************************************)
EXTENDS CTypes, Sequences

NotConstant == [type |-> "none", value |-> Zero]
Val(type, value) == [type |-> type, value |-> value]
IntVal(b) == Val("sint", FromLimb(IF b THEN 1 ELSE 0))
Truthy(v) == v.value # Zero

(* The type of a literal; the program stops at a decimal number beyond     *)
(* long long.                                                              *)
Fits(target, n, k) == Ule(n, MaxVal(target, k))
Candidates(e) ==
  LET unsigned == e.u \/ ~e.decimal
      all == SubSeq(<<"sint", "uint", "slong", "ulong", "sllong", "ullong">>, 1 + 2 * e.l, 6)
      Allowed(k) == IF e.u THEN k \in UnsignedKinds
                    ELSE k \in SignedKinds \/ unsigned \/ k = "ullong"
  IN  SelectSeq(all, Allowed)
LiteralType(target, e) ==
  LET c == Candidates(e)
      fitting == {i \in DOMAIN c : Fits(target, e.number, c[i])}
  IN  c[CHOOSE i \in fitting : \A j \in fitting : i <= j]

CharType(target, e) == IF e.wide /\ IsSigned(target, "char") THEN "uint" ELSE "sint"

Leaf(target, e) ==
  CASE e.op = "int" -> Val(LiteralType(target, e), e.number)
    [] e.op = "char" -> Val(CharType(target, e), e.number)
    [] e.op = "enumerator" -> Val("sint", e.number)
    [] e.op = "name" -> NotConstant

(* The converted value keeps its old type.                                 *)
ConvertVal(target, v, into) ==
  IF IsSubset(target, v.type, into) THEN v
  ELSE IF IsSigned(target, into) THEN [v EXCEPT !.value = Sext(@, BitWidth(target, into))]
  ELSE [v EXCEPT !.value = Zext(@, BitWidth(target, into))]
Converted(target, l, r) ==
  LET Side(c, side, v) == IF side \in c.sides THEN ConvertVal(target, v, c.kind) ELSE v
      Both(c) == [left |-> Side(c, "left", l), right |-> Side(c, "right", r)]
  IN  Both(Conversions[target, l.type, r.type])

Arithmetic(op, l, r) ==
  Val(l.type, CASE op = "+" -> Add(l.value, r.value)
                [] op = "-" -> Sub(l.value, r.value)
                [] op = "*" -> Mul(l.value, r.value))

(* A mistaken variant: every comparison is a signed one.                   *)
BugCompare(target, op, l, r) ==
  IntVal(CASE op = "==" -> Eq(l.value, r.value)
           [] op = "!=" -> ~Eq(l.value, r.value)
           [] op = "<" -> Slt(l.value, r.value)
           [] op = ">" -> Sgt(l.value, r.value)
           [] op = ">=" -> Sge(l.value, r.value))

(* The left operand decides between a signed and an unsigned comparison.   *)
Compare(target, op, l, r) ==
  LET signed == IsSigned(target, l.type)
  IN  IntVal(CASE op = "==" -> Eq(l.value, r.value)
               [] op = "!=" -> ~Eq(l.value, r.value)
               [] op = "<" -> IF signed THEN Slt(l.value, r.value) ELSE Ult(l.value, r.value)
               [] op = ">" -> IF signed THEN Sgt(l.value, r.value) ELSE Ugt(l.value, r.value)
               [] op = ">=" -> IF signed THEN Sge(l.value, r.value) ELSE Uge(l.value, r.value))

LeafOps == {"int", "char", "enumerator", "name"}
ArithmeticOps == {"+", "-", "*"}
CompareOps == {"==", "!=", "<", ">", ">="}
LogicOps == {"&&", "||"}

RECURSIVE Eval(_, _)
TruthOf(v, if) == IF v = NotConstant THEN NotConstant ELSE IntVal(Truthy(v) = if)
Calculate(target, op, both) ==
  IF op \in ArithmeticOps THEN Arithmetic(op, both.left, both.right)
  ELSE Compare(target, op, both.left, both.right)
EvalBinary(target, op, l, r) ==
  IF NotConstant \in {l, r} THEN NotConstant ELSE Calculate(target, op, Converted(target, l, r))
EvalLogic(target, e, l) ==
  IF l = NotConstant THEN NotConstant
  ELSE IF Truthy(l) = (e.op = "||") THEN IntVal(e.op = "||")
  ELSE TruthOf(Eval(target, e.right), TRUE)
Eval(target, e) ==
  IF e.op \in LeafOps THEN Leaf(target, e)
  ELSE IF e.op = "not" THEN TruthOf(Eval(target, e.of), FALSE)
  ELSE IF e.op \in LogicOps THEN EvalLogic(target, e, Eval(target, e.left))
  ELSE EvalBinary(target, e.op, Eval(target, e.left), Eval(target, e.right))
=============================================================================
