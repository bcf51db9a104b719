--------------------------- MODULE TargetRiscv64 ---------------------------
(***************************************************************************)
(* The integer instructions of target/riscv64-linux/codegen.c.  Most work  *)
(* on whole registers: a 32-bit value, signed or not, is kept sign-        *)
(* extended, except that a constant is loaded as it is.                    *)
(***************************************************************************)
EXTENDS TargetState

AnyReg == Volatile("riscv64")
RegWidth(ty) == WidthOf("riscv64", ty)
(* What addiw and the other instructions that end in w leave.              *)
Word(x) == Num(x, LimbBits, TRUE)

Loaded(a, ty, val) == PushReg(Write(a.cg, a.reg, val), a.reg, ty, val)
IntConst(c, ty, val) == Loaded(AllocReg(c, AnyReg), ty, val)
AddrOf(c, ty, val) == Loaded(AllocReg(c, AnyReg), ty, val)

(* Two shifts keep the w low bits and what sext says above them.           *)
Shifted(c, w, to, sext) ==
  LET Kept(t) ==
        LET x == Num(t.regs[TopReg(t)], w, sext)
        IN  Write(t, TopReg(t), IF ~sext /\ RegWidth(to) <= LimbBits THEN Word(x) ELSE x)
  IN  Then(EnsureTop(c, AnyReg), Kept)
NarrowTop(c, to) == Shifted(c, RegWidth(to), to, SignedType("riscv64", to))
ExtTop(c, to, sext) == Shifted(c, RegWidth(TopType(c)), to, sext)

DerefInt(c, k, val) ==
  LET Read(t) ==
        LET a == t.regs[TopReg(t)]  n == SizeOf("riscv64", k)  w == BitWidth("riscv64", k)
            x == IF InMemory(t, a, n) THEN Fetch(t.mem, a, n) ELSE Junk
        IN  [Write(t, TopReg(t), Num(x, w, w = LimbBits \/ IsSigned("riscv64", k)))
               EXCEPT !.stack[Top(t)].type = Basic(k), !.stack[Top(t)].val = val]
  IN  Then(EnsureTop(c, AnyReg), Read)
StoreInt(c, k) ==
  LET OverBeside(t) == EnsureOver(t, AnyReg \ {TopReg(t)})
      Stored(u) ==
        LET a == u.regs[OverReg(u)]  n == SizeOf("riscv64", k)
        IN  Pop2(IF InMemory(u, a, n) THEN [u EXCEPT !.mem = Put(@, a, n, u.regs[TopReg(u)])] ELSE u)
  IN  Then(OverBeside(EnsureTop(c, AnyReg)), Stored)
Dup(c) ==
  LET s == c.stack[Top(c)]
      One(a, from) == PushReg(MoveRegReg(a.cg, from, a.reg), a.reg, s.type, s.val)
      Copied(t) == One(AllocReg(t, AnyReg \ {TopReg(t)}), TopReg(t))
  IN  Then(EnsureTop(c, AnyReg), Copied)

(* Mutation: the 64-bit form of the arithmetic instructions throughout.    *)
BugArithmetic(op, w, signed, x, y) == Alu(op, Width, signed, x, y)
Arithmetic(op, w, signed, x, y) ==
  IF w <= LimbBits THEN Word(Alu(op, LimbBits, signed, x, y)) ELSE Alu(op, Width, signed, x, y)
(* slt and sltu, then seqz, on whole registers, whatever the width.        *)
Compared(op, signed, x, y) ==
  LET Less(l, r) == Alu("lt", Width, signed, l, r) = 1
  IN  CASE op \in {"eq", "ne"} -> Flag((Alu("bxor", Width, FALSE, x, y) = 0) = (op = "eq"))
        [] op \in {"lt", "ge"} -> Flag(Less(x, y) = (op = "lt"))
        [] op \in {"gt", "le"} -> Flag(Less(y, x) = (op = "gt"))
Computed(op, w, signed, x, y) ==
  CASE op \in Comparisons -> Compared(op, signed, x, y)
    [] op \in {"band", "bor", "bxor"} -> Alu(op, Width, FALSE, x, y)
    [] OTHER -> Arithmetic(op, w, signed, x, y)
Binop(c, op, ty, val) ==
  LET w == RegWidth(OverType(c))  signed == SignedType("riscv64", OverType(c))
      TopBeside(u) == EnsureTop(u, AnyReg \ {OverReg(u)})
      Operated(t) ==
        LET l == OverReg(t)
        IN  PushReg(Pop2(Write(t, l, Computed(op, w, signed, t.regs[l], t.regs[TopReg(t)]))), l, ty, val)
  IN  Then(TopBeside(EnsureOver(c, AnyReg)), Operated)

(* beq against zero: the whole register.                                   *)
BranchIfFalse(c) ==
  LET Tested(t) == [cg |-> Pop(t), taken |-> t.regs[TopReg(t)] = 0] IN Tested(EnsureTop(c, AnyReg))
=============================================================================
