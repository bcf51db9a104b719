--------------------------- MODULE TargetAarch64 ---------------------------
(***************************************************************************)
(* The integer instructions of target/aarch64-linux/codegen.c.  Those on   *)
(* 32 bits clear the rest of the register.                                 *)
(***************************************************************************)
EXTENDS TargetState

AnyReg == Volatile("aarch64")
RegWidth(ty) == WidthOf("aarch64", ty)
WriteAs(c, r, w, x) == Write(c, r, x % 2 ^ (IF w <= LimbBits THEN LimbBits ELSE Width))

(* movz and a movk for each further quarter that is not 0.                 *)
Loaded(a, w, ty, val) == PushReg(WriteAs(a.cg, a.reg, w, val), a.reg, ty, val)
IntConst(c, ty, val) == Loaded(AllocReg(c, AnyReg), RegWidth(ty), ty, val)
AddrOf(c, ty, val) == Loaded(AllocReg(c, AnyReg), Width, ty, val)

(* A spilled value is not brought back: tacc_cg_move asserts.  A bit field *)
(* of the smaller width is moved; widths that agree need nothing.          *)
ExtTop(c, to, sext) ==
  LET from == RegWidth(TopType(c))  w == Min({from, RegWidth(to)})  r == TopReg(c)
  IN  IF c.stack[Top(c)].place # "reg" THEN Refuse(c, "move from stack to register")
      ELSE IF from = RegWidth(to) THEN c
      ELSE WriteAs(c, r, RegWidth(to), Num(c.regs[r], w, sext))
NarrowTop(c, to) == ExtTop(c, to, SignedType("aarch64", to))

DerefInt(c, k, val) ==
  LET Read(t) ==
        LET a == t.regs[TopReg(t)]  n == SizeOf("aarch64", k)  w == BitWidth("aarch64", k)
            x == IF InMemory(t, a, n) THEN Fetch(t.mem, a, n) ELSE Junk
        IN  [WriteAs(t, TopReg(t), w, Num(x, w, IsSigned("aarch64", k)))
               EXCEPT !.stack[Top(t)].type = Basic(k), !.stack[Top(t)].val = val]
  IN  Then(EnsureTop(c, AnyReg), Read)
StoreInt(c, k) ==
  LET OverBeside(t) == EnsureOver(t, AnyReg \ {TopReg(t)})
      Stored(u) ==
        LET a == u.regs[OverReg(u)]  n == SizeOf("aarch64", k)
        IN  Pop2(IF InMemory(u, a, n) THEN [u EXCEPT !.mem = Put(@, a, n, u.regs[TopReg(u)])] ELSE u)
  IN  Then(OverBeside(EnsureTop(c, AnyReg)), Stored)
Dup(c) ==
  LET s == c.stack[Top(c)]
      One(a, from) == PushReg(MoveRegReg(a.cg, from, a.reg), a.reg, s.type, s.val)
      Copied(t) == One(AllocReg(t, AnyReg \ {TopReg(t)}), TopReg(t))
  IN  Then(EnsureTop(c, AnyReg), Copied)

(* > and >= are < and <= with the operands exchanged; a remainder is the   *)
(* left operand less the product of quotient and right operand, the        *)
(* quotient in a third register.                                           *)
Reversed == [op \in BinaryOps |-> CASE op = "gt" -> "lt" [] op = "ge" -> "le" [] OTHER -> op]
Remainder(t, w, signed, ty, val) ==
  LET l == OverReg(t)  x == t.regs[l]  y == t.regs[TopReg(t)]
      Divided(a, quot) == WriteAs(WriteAs(a.cg, a.reg, w, quot), l, w, x - quot * y)
  IN  PushReg(Divided(AllocReg(Pop2(t), AnyReg \ {l, TopReg(t)}), Alu("div", w, signed, x, y)),
              l, ty, val)
Binop(c, op, ty, val) ==
  LET w == RegWidth(OverType(c))  signed == SignedType("aarch64", OverType(c))
      ordered == IF op \in {"gt", "ge"} THEN Swap(c) ELSE c
      TopBeside(u) == EnsureTop(u, AnyReg \ {OverReg(u)})
      Operated(t) ==
        LET l == OverReg(t)  x == Alu(Reversed[op], w, signed, t.regs[l], t.regs[TopReg(t)])
        IN  IF op = "rem" THEN Remainder(t, w, signed, ty, val)
            ELSE PushReg(Pop2(WriteAs(t, l, IF op \in Comparisons THEN LimbBits ELSE w, x)), l, ty, val)
  IN  Then(TopBeside(EnsureOver(ordered, AnyReg)), Operated)

(* tst of the 32-bit register.                                             *)
BranchIfFalse(c) ==
  LET Tested(t) == [cg |-> Pop(t), taken |-> t.regs[TopReg(t)] % Base = 0] IN Tested(EnsureTop(c, AnyReg))
=============================================================================
