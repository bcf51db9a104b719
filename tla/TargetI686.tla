---------------------------- MODULE TargetI686 ----------------------------
(***************************************************************************)
(* The integer instructions of target/i686-linux/codegen.c.  A 64-bit      *)
(* value is a pair of registers.  val is the ghost of what is pushed.      *)
(***************************************************************************)
EXTENDS TargetState

AnyReg == Volatile("i686")
EAX == 1
ECX == 3
EDX == 4
Wide(ty) == WidthOf("i686", ty) > LimbBits

(* A new slot in what was allocated for it, a register a or a pair b.      *)
Loaded(a, w, x, ty, val) == PushReg(WritePart(a.cg, a.reg, w, x), a.reg, ty, val)
LoadedPair(b, x, y, ty, val) ==
  PushPair(Write(Write(b.cg, b.low, x), b.high, y), b.low, b.high, ty, val)
Beside(a) == AllocNext(a, AnyReg \ {a.reg})
IntConst(c, ty, val) ==
  IF Wide(ty) THEN LoadedPair(Beside(AllocReg(c, AnyReg)), val, val \div Base, ty, val)
  ELSE Loaded(AllocReg(c, AnyReg), WidthOf("i686", ty), val, ty, val)
AddrOf(c, ty, val) == Loaded(AllocReg(c, AnyReg), LimbBits, val, ty, val)

(* The high register is forgotten.  The place of a spilled pair is taken   *)
(* for a register; the assembler finds no such name.                       *)
NarrowTop(c, to) ==
  LET s == c.stack[Top(c)]
      forgotten == Basic(IF SignedType("i686", s.type) THEN "sint" ELSE "uint")
  IN  IF ~(Wide(s.type) /\ ~Wide(to)) THEN c
      ELSE IF s.place # "pair" THEN Refuse(c, "spilled pair narrowed")
      ELSE PushReg(Pop(c), s.at, forgotten, s.val)

ExtendInPlace(c, w, sext) ==
  LET from == WidthOf("i686", TopType(c))
      Moved(t) == WritePart(t, TopReg(t), w, Num(t.regs[TopReg(t)], from, sext))
  IN  IF from = w THEN c ELSE Then(EnsureTop(c, AnyReg), Moved)
ExtTop(c, to, sext) ==
  LET High(a, r, x, val) == PushPair(Pop(Write(a.cg, a.reg, x)), r, a.reg, to, val)
      Widened(t) ==
        High(AllocReg(t, AnyReg), TopReg(t),
             IF sext /\ 2 * t.regs[TopReg(t)] >= Base THEN Base - 1 ELSE 0, t.stack[Top(t)].val)
  IN  IF Wide(to) /\ ~Wide(TopType(c))
      THEN Then(EnsureTop(ExtendInPlace(c, LimbBits, sext), AnyReg), Widened)
      ELSE ExtendInPlace(c, WidthOf("i686", to), sext)

DerefInt(c, k, val) ==
  LET Double(a, r, x) ==
        PushPair(Pop(Write(Write(a.cg, a.reg, x \div Base), r, x)), r, a.reg, Basic(k), val)
      Read(t) ==
        LET r == TopReg(t)  a == t.regs[r]  n == SizeOf("i686", k)
            x == IF InMemory(t, a, n) THEN Fetch(t.mem, a, n) ELSE Junk
        IN  IF Wide(Basic(k)) THEN Double(AllocReg(t, AnyReg \ {r}), r, x)
            ELSE PushReg(Pop(WritePart(t, r, BitWidth("i686", k), x)), r, Basic(k), val)
  IN  Then(EnsureTop(c, AnyReg), Read)

(* The address may be brought into any register, the value's included only *)
(* if that is spilled.                                                     *)
StoreInt(c, k) ==
  LET Stored(t) ==
        LET r == t.stack[Top(t)]  a == t.regs[OverReg(t)]  n == SizeOf("i686", k)
            x == IF Wide(Basic(k)) THEN t.regs[r.at2] * Base + t.regs[r.at] ELSE t.regs[r.at]
        IN  Pop2(IF InMemory(t, a, n) THEN [t EXCEPT !.mem = Put(@, a, n, x)] ELSE t)
  IN  Then(EnsureOver(IF Wide(Basic(k)) THEN EnsurePair(c, Top(c), AnyReg, AnyReg)
                      ELSE EnsureTop(c, AnyReg), AnyReg), Stored)

Dup(c) ==
  LET s == c.stack[Top(c)]
      One(a, from) == PushReg(MoveRegReg(a.cg, from, a.reg), a.reg, s.type, s.val)
      Single(t) == One(AllocReg(t, AnyReg \ {TopReg(t)}), TopReg(t))
      Two(b, p) == PushPair(MoveRegReg(MoveRegReg(b.cg, p.at, b.low), p.at2, b.high),
                            b.low, b.high, s.type, s.val)
      Next(a, p) == AllocNext(a, AnyReg \ {p.at, a.reg})
      Double(t) == Two(Next(AllocReg(t, AnyReg \ {TopReg(t)}), t.stack[Top(t)]), t.stack[Top(t)])
  IN  IF Wide(s.type) THEN Then(EnsurePair(c, Top(c), AnyReg, AnyReg), Double)
      ELSE Then(EnsureTop(c, AnyReg), Single)

-----------------------------------------------------------------------------
(* Binary operators.  Pairs l and r are taken from a state in which both   *)
(* operands are where the instruction wants them.                          *)
LowOf(c, k) == c.regs[c.stack[k].at]
HighOf(c, k) == c.regs[c.stack[k].at2]
PairOf(c, k) == HighOf(c, k) * Base + LowOf(c, k)
ResultPair(c, x, ty, val) ==
  LET l == c.stack[Over(c)]
  IN  PushPair(Pop2(Write(Write(c, l.at, x), l.at2, x \div Base)), l.at, l.at2, ty, val)
ResultReg(c, r, x, ty, val) == PushReg(Pop2(Write(c, r, x)), r, ty, val)

(* shld and shrd below 32 bits, a move and a shift from there on.          *)
WideShift(c, op, ty, val) ==
  LET signed == SignedType("i686", OverType(c))
      Shifted(t) ==
        LET l == LowOf(t, Over(t))  h == HighOf(t, Over(t))
            count == LowOf(t, Top(t))  n == count % LimbBits  big == Bit(count \div LimbBits, 0) = 1
            sh == Num(h, LimbBits, signed)
            low == CASE op = "shl" /\ big -> 0
                     [] op = "shl" /\ ~big -> l * 2 ^ n
                     [] op = "shr" /\ big -> sh \div 2 ^ n
                     [] op = "shr" /\ ~big -> (l \div 2 ^ n) + h * 2 ^ (LimbBits - n)
            high == CASE op = "shl" /\ big -> l * 2 ^ n
                      [] op = "shl" /\ ~big -> h * 2 ^ n + (l \div 2 ^ (LimbBits - n))
                      [] op = "shr" /\ big -> IF sh < 0 THEN Base - 1 ELSE 0
                      [] op = "shr" /\ ~big -> sh \div 2 ^ n
        IN  ResultPair(t, (high % Base) * Base + (low % Base), ty, val)
      WithPair(u) == EnsurePair(u, Over(u), AnyReg \ {ECX}, AnyReg \ {ECX})
  IN  Then(WithPair(EnsureTop(c, {ECX})), Shifted)

WideOperands(c) ==
  LET Free(u) == AnyReg \ RegsOf(u.stack[Over(u)])
      TopBeside(u) == EnsurePair(u, Top(u), Free(u), Free(u))
  IN  Then(EnsurePair(c, Over(c), AnyReg, AnyReg), TopBeside)

(* add, adc; sub, sbb.                                                     *)
WideAdd(t, ty, val) ==
  LET low == LowOf(t, Over(t)) + LowOf(t, Top(t))
      high == HighOf(t, Over(t)) + HighOf(t, Top(t)) + (low \div Base)
  IN  ResultPair(t, (high % Base) * Base + (low % Base), ty, val)
Borrow(t, j, k) == IF LowOf(t, j) < LowOf(t, k) THEN 1 ELSE 0
WideSub(t, ty, val) ==
  LET low == LowOf(t, Over(t)) - LowOf(t, Top(t))
      high == HighOf(t, Over(t)) - HighOf(t, Top(t)) - Borrow(t, Over(t), Top(t))
  IN  ResultPair(t, (high % Base) * Base + (low % Base), ty, val)
WideBitwise(t, op, ty, val) ==
  ResultPair(t, Alu(op, LimbBits, FALSE, HighOf(t, Over(t)), HighOf(t, Top(t))) * Base
                + Alu(op, LimbBits, FALSE, LowOf(t, Over(t)), LowOf(t, Top(t))), ty, val)

(* Two comparisons, joined.  The order is read off the flags of a          *)
(* subtraction of pairs, the smaller operand from the larger.              *)
WideEqual(t, op, ty, val) ==
  LET same == LowOf(t, Over(t)) = LowOf(t, Top(t)) /\ HighOf(t, Over(t)) = HighOf(t, Top(t))
  IN  ResultReg(t, t.stack[Over(t)].at, Flag(same = (op = "eq")), ty, val)
(* Mutation: the high words are subtracted without the borrow.             *)
BugBelow(t, j, k, signed) == Num(HighOf(t, j), LimbBits, signed) - Num(HighOf(t, k), LimbBits, signed) < 0
Below(t, j, k, signed) ==
  Num(HighOf(t, j), LimbBits, signed) - Num(HighOf(t, k), LimbBits, signed) - Borrow(t, j, k) < 0
WideOrder(t, op, signed, ty, val) ==
  LET holds == CASE op = "lt" -> Below(t, Over(t), Top(t), signed)
                 [] op = "ge" -> ~Below(t, Over(t), Top(t), signed)
                 [] op = "gt" -> Below(t, Top(t), Over(t), signed)
                 [] op = "le" -> ~Below(t, Top(t), Over(t), signed)
  IN  ResultReg(t, t.stack[Over(t)].at, Flag(holds), ty, val)

(* Multiplication and division call the runtime library: the address of    *)
(* the function goes below the operands, all slots are spilled, EAX, ECX   *)
(* and EDX do not survive.  What it returns has the type that the compiler *)
(* declares for the function: one multiplication, of long long, serves     *)
(* both kinds of operands.                                                 *)
Returned(op, ty) == IF op = "mul" THEN Basic("sllong") ELSE ty
RuntimeCall(t, op, signed, ty, val) ==
  LET Target(a) == PushReg(a.cg, a.reg, PtrTo("sint"), 0)
      Back(f, x) == [Pop(Pop2(f)) EXCEPT !.regs = [r \in DOMAIN @ |->
                       CASE r = EAX -> x % Base [] r = EDX -> x \div Base [] r = ECX -> Junk
                         [] OTHER -> @[r]]]
      Called(f) == Back(f, Alu(op, Width, signed, f.scratch[f.stack[Over(f)].at],
                               f.scratch[f.stack[Top(f)].at]))
      Typed(f) == [PushPair(f, EAX, EDX, Returned(op, ty), val)
                     EXCEPT !.mistyped = @ \/ Returned(op, ty) # ty]
  IN  Typed(Called(FlushStack(Rot(Rot(Target(AllocReg(t, AnyReg)))))))

WideBinop(c, op, ty, val) ==
  LET signed == SignedType("i686", OverType(c))
      Operated(t) ==
        CASE op = "add" -> WideAdd(t, ty, val)
          [] op = "sub" -> WideSub(t, ty, val)
          [] op \in {"band", "bor", "bxor"} -> WideBitwise(t, op, ty, val)
          [] op \in {"eq", "ne"} -> WideEqual(t, op, ty, val)
          [] op \in {"lt", "le", "gt", "ge"} -> WideOrder(t, op, signed, ty, val)
          [] OTHER -> RuntimeCall(t, op, signed, ty, val)
  IN  IF op \in {"shl", "shr"} THEN WideShift(c, op, ty, val) ELSE Then(WideOperands(c), Operated)

Divide(c, op, ty, val) ==
  LET signed == SignedType("i686", OverType(c))
      Quotient(u, by) ==
        Write(Write(u, EAX, Alu("div", LimbBits, signed, u.regs[EAX], by)),
              EDX, Alu("rem", LimbBits, signed, u.regs[EAX], by))
      By(u) == PushReg(Pop2(Quotient(u, u.regs[TopReg(u)])), IF op = "div" THEN EAX ELSE EDX, ty, val)
      Divided(t) == By(AllocReg(t, {EDX}).cg)
  IN  Then(EnsureTop(EnsureOver(c, {EAX}), AnyReg \ {EAX, EDX}), Divided)
Shift(c, op, ty, val) ==
  LET signed == SignedType("i686", OverType(c))
      Shifted(t) == ResultReg(t, OverReg(t),
                              Alu(op, LimbBits, signed, t.regs[OverReg(t)], t.regs[TopReg(t)]), ty, val)
  IN  Then(EnsureOver(EnsureTop(c, {ECX}), AnyReg \ {ECX}), Shifted)
NarrowBinop(c, op, ty, val) ==
  LET w == WidthOf("i686", OverType(c))  signed == SignedType("i686", OverType(c))
      TopBeside(u) == EnsureTop(u, AnyReg \ {OverReg(u)})
      Operated(t) ==
        ResultReg(t, OverReg(t), Alu(op, w, signed, t.regs[OverReg(t)], t.regs[TopReg(t)]), ty, val)
  IN  Then(TopBeside(EnsureOver(c, AnyReg)), Operated)

Binop(c, op, ty, val) ==
  IF Wide(OverType(c)) THEN WideBinop(c, op, ty, val)
  ELSE IF op \in {"div", "rem"} THEN Divide(c, op, ty, val)
  ELSE IF op \in {"shl", "shr"} THEN Shift(c, op, ty, val)
  ELSE NarrowBinop(c, op, ty, val)

(* test and jz: whether the jump is taken, and the state after it.         *)
BranchIfFalse(c) ==
  LET Tested(t) == [cg |-> Pop(t), taken |-> t.regs[TopReg(t)] = 0] IN Tested(EnsureTop(c, AnyReg))
=============================================================================
