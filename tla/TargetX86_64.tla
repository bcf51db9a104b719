--------------------------- MODULE TargetX86_64 ---------------------------
(***************************************************************************)
(* The integer instructions of target/x86_64-linux/codegen.c, with the     *)
(* widths that Slots leaves out.  The bits above a value's width are       *)
(* whatever was there.                                                     *)
(***************************************************************************)
EXTENDS TargetState

AnyReg == Volatile("x86_64")
RegWidth(ty) == WidthOf("x86_64", ty)

(* 64 bits that do not fit the immediate of a mov: the high half is        *)
(* shifted up and the low half added; or, as the immediates of xor and add *)
(* are sign-extended, both are complemented and the sum is turned over.    *)
WideImmediate(high, low) ==
  IF 2 * low >= Base
  THEN LET mask == Base - 1 - low  turned == ((Base - 1 - high) * Base) + mask
       IN  Base * Base - 1 - turned
  ELSE high * Base + low
Loaded(a, w, x, ty, val) == PushReg(WritePart(a.cg, a.reg, w, x), a.reg, ty, val)
IntConst(c, ty, val) ==
  LET x == val % 2 ^ RegWidth(ty)
      wide == RegWidth(ty) > LimbBits /\ x >= Base
  IN  Loaded(AllocReg(c, AnyReg), RegWidth(ty), IF wide THEN WideImmediate(x \div Base, x % Base) ELSE x, ty, val)
AddrOf(c, ty, val) == Loaded(AllocReg(c, AnyReg), Width, val, ty, val)

ExtTop(c, to, sext) ==
  LET from == RegWidth(TopType(c))
      Moved(t) == WritePart(t, TopReg(t), RegWidth(to), Num(t.regs[TopReg(t)], from, sext))
  IN  IF from = RegWidth(to) THEN c ELSE Then(EnsureTop(c, AnyReg), Moved)
NarrowTop(c, to) == c

DerefInt(c, k, val) ==
  LET Read(t) ==
        LET a == t.regs[TopReg(t)]  n == SizeOf("x86_64", k)
            x == IF InMemory(t, a, n) THEN Fetch(t.mem, a, n) ELSE Junk
        IN  [WritePart(t, TopReg(t), BitWidth("x86_64", k), x)
               EXCEPT !.stack[Top(t)].type = Basic(k), !.stack[Top(t)].val = val]
  IN  Then(EnsureTop(c, AnyReg), Read)
StoreInt(c, k) ==
  LET OverBeside(t) == EnsureOver(t, AnyReg \ {TopReg(t)})
      Stored(u) ==
        LET a == u.regs[OverReg(u)]  n == SizeOf("x86_64", k)
        IN  Pop2(IF InMemory(u, a, n) THEN [u EXCEPT !.mem = Put(@, a, n, u.regs[TopReg(u)])] ELSE u)
  IN  Then(OverBeside(EnsureTop(c, AnyReg)), Stored)

(* The copy of a spilled value is made and not used.                       *)
Dup(c) ==
  LET s == c.stack[Top(c)]
      One(a, from) == PushReg(MoveRegReg(a.cg, from, a.reg), a.reg, s.type, s.val)
      Single(t) == One(AllocReg(t, AnyReg \ {TopReg(t)}), TopReg(t))
      Through(a) == Push(Write(a.cg, a.reg, c.scratch[s.at]), s)
  IN  IF s.place = "scratch"
      THEN Through(AllocReg([c EXCEPT !.scratch = Append(@, c.scratch[s.at])], AnyReg))
      ELSE Then(EnsureTop(c, AnyReg), Single)

Divide(c, op, ty, val) ==
  LET w == RegWidth(OverType(c))  signed == SignedType("x86_64", OverType(c))
      Quotient(u, by) ==
        WritePart(WritePart(u, RAX, w, Alu("div", w, signed, u.regs[RAX], by)),
                  RDX, w, Alu("rem", w, signed, u.regs[RAX], by))
      By(u) == PushReg(Pop2(Quotient(u, u.regs[TopReg(u)])), IF op = "div" THEN RAX ELSE RDX, ty, val)
      Divided(t) == By(AllocReg(t, {RDX}).cg)
  IN  Then(EnsureTop(EnsureOver(c, {RAX}), AnyReg \ {RAX, RDX}), Divided)
Result(t, r, w, x, ty, val) == PushReg(Pop2(WritePart(t, r, w, x)), r, ty, val)
Shift(c, op, ty, val) ==
  LET w == RegWidth(OverType(c))  signed == SignedType("x86_64", OverType(c))
      Shifted(t) == Result(t, OverReg(t), w, Alu(op, w, signed, t.regs[OverReg(t)], t.regs[TopReg(t)]), ty, val)
  IN  Then(EnsureOver(EnsureTop(c, {RCX}), AnyReg \ {RCX}), Shifted)
(* Mutation: the comparison of 32 bits whatever the operands.              *)
BugOperandWidth(ty) == LimbBits
OperandWidth(ty) == RegWidth(ty)
(* A comparison leaves 0 or 1 in 32 bits.                                  *)
Binop(c, op, ty, val) ==
  LET w == OperandWidth(OverType(c))  signed == SignedType("x86_64", OverType(c))
      TopBeside(u) == EnsureTop(u, AnyReg \ {OverReg(u)})
      Operated(t) == Result(t, OverReg(t), IF op \in Comparisons THEN LimbBits ELSE w,
                            Alu(op, w, signed, t.regs[OverReg(t)], t.regs[TopReg(t)]), ty, val)
  IN  IF op \in {"div", "rem"} THEN Divide(c, op, ty, val)
      ELSE IF op \in {"shl", "shr"} THEN Shift(c, op, ty, val)
      ELSE Then(TopBeside(EnsureOver(c, AnyReg)), Operated)

(* testl: the low 32 bits.                                                 *)
BranchIfFalse(c) ==
  LET Tested(t) == [cg |-> Pop(t), taken |-> t.regs[TopReg(t)] % Base = 0] IN Tested(EnsureTop(c, AnyReg))
=============================================================================
