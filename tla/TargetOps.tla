----------------------------- MODULE TargetOps -----------------------------
(***************************************************************************)
(* The typed operations of the code generator (codegen.c) on the four back *)
(* ends: conversions, operators, assignment, tests and return.  A run      *)
(* starts with the operands that an expression has pending and continues   *)
(* with any operations C allows on them; the emitted code is executed on   *)
(* registers and bytes and compared with the numbers C speaks of.          *)
(***************************************************************************)
EXTENDS TargetState

CONSTANTS Targets,     \* the back ends of this instance
          Pending,     \* sequences of operands an expression may have pending
          Constants,   \* literals: records [kind, val]
          CastTypes,   \* types converted to
          Contents,    \* [object kinds -> values]: what the objects hold first
          MaxSteps     \* operations after those

ASSUME TargetAssumption == Targets \subseteq TargetNames /\ MaxSteps \in Nat

VARIABLES c,           \* the generator and the machine
          ref,         \* memory as the program means it
          outcome,     \* how the code ended: a test or a return
          steps
vars == <<c, ref, outcome, steps>>

I686 == INSTANCE TargetI686
X86_64 == INSTANCE TargetX86_64
Riscv64 == INSTANCE TargetRiscv64
Aarch64 == INSTANCE TargetAarch64

IntConst(g, ty, val) ==
  CASE g.target = "i686" -> I686!IntConst(g, ty, val)
    [] g.target = "x86_64" -> X86_64!IntConst(g, ty, val)
    [] g.target = "riscv64" -> Riscv64!IntConst(g, ty, val)
    [] g.target = "aarch64" -> Aarch64!IntConst(g, ty, val)
AddrOf(g, ty, val) ==
  CASE g.target = "i686" -> I686!AddrOf(g, ty, val)
    [] g.target = "x86_64" -> X86_64!AddrOf(g, ty, val)
    [] g.target = "riscv64" -> Riscv64!AddrOf(g, ty, val)
    [] g.target = "aarch64" -> Aarch64!AddrOf(g, ty, val)
NarrowTop(g, to) ==
  CASE g.target = "i686" -> I686!NarrowTop(g, to)
    [] g.target = "x86_64" -> X86_64!NarrowTop(g, to)
    [] g.target = "riscv64" -> Riscv64!NarrowTop(g, to)
    [] g.target = "aarch64" -> Aarch64!NarrowTop(g, to)
ExtTop(g, to, sext) ==
  CASE g.target = "i686" -> I686!ExtTop(g, to, sext)
    [] g.target = "x86_64" -> X86_64!ExtTop(g, to, sext)
    [] g.target = "riscv64" -> Riscv64!ExtTop(g, to, sext)
    [] g.target = "aarch64" -> Aarch64!ExtTop(g, to, sext)
DerefInt(g, k, val) ==
  CASE g.target = "i686" -> I686!DerefInt(g, k, val)
    [] g.target = "x86_64" -> X86_64!DerefInt(g, k, val)
    [] g.target = "riscv64" -> Riscv64!DerefInt(g, k, val)
    [] g.target = "aarch64" -> Aarch64!DerefInt(g, k, val)
StoreInt(g, k) ==
  CASE g.target = "i686" -> I686!StoreInt(g, k)
    [] g.target = "x86_64" -> X86_64!StoreInt(g, k)
    [] g.target = "riscv64" -> Riscv64!StoreInt(g, k)
    [] g.target = "aarch64" -> Aarch64!StoreInt(g, k)
Dup(g) ==
  CASE g.target = "i686" -> I686!Dup(g)
    [] g.target = "x86_64" -> X86_64!Dup(g)
    [] g.target = "riscv64" -> Riscv64!Dup(g)
    [] g.target = "aarch64" -> Aarch64!Dup(g)
TargetBinop(g, op, ty, val) ==
  CASE g.target = "i686" -> I686!Binop(g, op, ty, val)
    [] g.target = "x86_64" -> X86_64!Binop(g, op, ty, val)
    [] g.target = "riscv64" -> Riscv64!Binop(g, op, ty, val)
    [] g.target = "aarch64" -> Aarch64!Binop(g, op, ty, val)
BranchIfFalse(g) ==
  CASE g.target = "i686" -> I686!BranchIfFalse(g)
    [] g.target = "x86_64" -> X86_64!BranchIfFalse(g)
    [] g.target = "riscv64" -> Riscv64!BranchIfFalse(g)
    [] g.target = "aarch64" -> Aarch64!BranchIfFalse(g)

-----------------------------------------------------------------------------
(* Conversions between integer types.  The ghost is converted as C says;   *)
(* where the compiler sees nothing to convert it stays.                    *)
Retyped(g, ty) == [g EXCEPT !.stack[Top(g)].type = ty,
                            !.stack[Top(g)].val = Fit(g.target, ty, @)]
ConvertInt(g, to) ==
  LET from == TopType(g)
  IN  IF from = to THEN g
      ELSE IF Alike[g.target, to.kind, from.kind] THEN Retyped(g, to)
      ELSE IF WidthOf(g.target, from) > WidthOf(g.target, to) THEN Retyped(NarrowTop(g, to), to)
      ELSE Retyped(ExtTop(g, to, SignedType(g.target, from)), to)
(* The operand below the top: swapped up, converted and swapped down.      *)
ConvertOver(g, to) == Swap(ConvertInt(Swap(g), to))

(* The kinds the two operands get and that of the result: both converted   *)
(* to a common one where they differ from it, or each promoted.            *)
Kinds(left, right, result) == [left |-> left, right |-> right, result |-> result]
UsualKinds(target, l, r) ==
  LET conv == Conversions[target, l, r]
      Of(side, k) == IF side \in conv.sides THEN conv.kind ELSE k
  IN  Kinds(Of("left", l), Of("right", r), conv.kind)
PromotedKinds(l, r) == Kinds(Promoted(l), Promoted(r), Promoted(l))
KindsFor(op, target, l, r) ==
  IF op \in {"shl", "shr"} THEN PromotedKinds(l, r) ELSE UsualKinds(target, l, r)

Meant(g, op, ty) == Fit(g.target, ty, InC(op, g.stack[Over(g)].val, g.stack[Top(g)].val))
Operate(p, op) == TargetBinop(p.cg, op, p.type, Meant(p.cg, op, p.type))
(* The operands as the operator wants them, with the type of its result.   *)
As(g, ty) == [cg |-> g, type |-> ty]
Prepared(g, op) ==
  LET Converted(k) == As(ConvertInt(ConvertOver(g, Basic(k.left)), Basic(k.right)),
                         Basic(IF op \in Comparisons THEN "sint" ELSE k.result))
  IN  Converted(KindsFor(op, g.target, OverType(g).kind, TopType(g).kind))
Arith(g, op) == Operate(Prepared(g, op), op)

RECURSIVE Binop(_, _)
(* p + n and n + p: n times the size of what p points to, then the sum.    *)
PointerSum(g) ==
  LET Size(s) == ConvertInt(IntConst(s, Basic("sint"), SizeOf(s.target, OverType(s).kind)),
                            SizeType(s.target))
      Scaled(s) == As(Binop(Size(s), "mul"), OverType(s))
  IN  Scaled(IF TopType(g).ptr THEN Swap(g) ELSE g)
PointerEqual(g) ==
  LET u == SizeType(g.target)
  IN  As(IF ~TopType(g).ptr THEN ConvertInt(g, u)
         ELSE IF ~OverType(g).ptr THEN ConvertOver(g, u) ELSE g, Basic("sint"))
Binop(g, op) ==
  LET pointers == {k \in {Over(g), Top(g)} : g.stack[k].type.ptr}
  IN  Operate(CASE pointers = {} -> Prepared(g, op)
                [] pointers # {} /\ op = "add" -> PointerSum(g)
                [] pointers # {} /\ op = "sub" -> As(g, PtrdiffType(g.target))
                [] pointers # {} /\ op \in {"eq", "ne"} -> PointerEqual(g)
                [] OTHER -> As(g, Basic("sint")), op)

(* A pointer is an integer of its size first; a conversion to _Bool is a   *)
(* comparison and leaves an int.                                           *)
Convert(g, to) ==
  LET from == TopType(g)
      number == IF from.ptr THEN Retyped(g, SizeType(g.target)) ELSE g
  IN  IF from = to THEN g
      ELSE IF from.ptr /\ to.ptr THEN Retyped(g, to)
      ELSE IF to.ptr THEN Retyped(ConvertInt(g, SizeType(g.target)), to)
      ELSE IF to.kind = "bool" THEN Arith(IntConst(number, Basic("sint"), 0), "ne")
      ELSE ConvertInt(number, to)

(* EX_ASSI: a copy of the converted value stays on the stack.              *)
Assign(g) ==
  LET k == OverType(g).kind
      Stored(copied) == StoreInt(Swap(Rot(copied)), k)
      Fitting(h) == IF TopType(h).kind = k THEN Then(Dup(h), Stored)
                    ELSE Refuse(h, "store to incompatible pointer")
  IN  Then(Convert(g, Basic(k)), Fitting)

(* Mutation: the value is tested as it is.                                 *)
BugTest(g) == BranchIfFalse(g)
(* A test of a statement: compared with 0 and the jump taken if equal.     *)
Test(g) == BranchIfFalse(Binop(IntConst(g, Basic("sint"), 0), "ne"))

(* return: in EAX, or a0, x0; on i686 a wide one in EDX:EAX.               *)
ReturnReg == 1
(* Mutation: one register named for both halves.                           *)
BugReturnHigh == 1
ReturnHigh == 4
Return(g, ty) ==
  LET Placed(v) == IF WidthOf(g.target, ty) > RegBits(g.target)
                   THEN EnsurePair(v, Top(v), {ReturnReg}, {ReturnHigh})
                   ELSE EnsureTop(v, {ReturnReg})
  IN  Placed(Convert(g, ty))

-----------------------------------------------------------------------------
(* The operands pending at the start.                                      *)
Literal(k, v) == [op |-> "literal", kind |-> k, val |-> v]
Variable(k) == [op |-> "variable", kind |-> k, val |-> 0]
Address(k) == [op |-> "address", kind |-> k, val |-> 0]
(* A constant of 32 bits with the highest set is loaded zero-extended on   *)
(* riscv64, where other such values are sign-extended.                     *)
LoadsExtended(target, k, v) ==
  target = "riscv64" => ~(k = "uint" /\ 2 * (v % Base) >= Base)
Pushed(g, o) ==
  LET at == AddrOf(g, PtrTo(o.kind), Places[o.kind])
  IN  CASE o.op = "literal" -> IntConst(g, Basic(o.kind), o.val)
        [] o.op = "variable" -> DerefInt(at, o.kind, Contents[o.kind])
        [] o.op = "address" -> at
AllPushed(g, os) ==
  LET f[n \in 0 .. Len(os)] == IF n = 0 THEN g ELSE Pushed(f[n - 1], os[n]) IN f[Len(os)]

Bytes == [a \in 0 .. Base - 1 |-> 0]
FirstMemory(target) ==
  [a \in DOMAIN Bytes |->
     LET here == {k \in DOMAIN Places : a \in Places[k] .. Places[k] + SizeOf(target, k) - 1}
     IN  IF here = {} THEN 0
         ELSE LET k == CHOOSE k \in here : TRUE
              IN  (Contents[k] \div 2 ^ (ByteBits * (a - Places[k]))) % 2 ^ ByteBits]
Start(target) ==
  [target |-> target, stack |-> <<>>, scratch |-> <<>>, mem |-> FirstMemory(target),
   regs |-> [r \in Volatile(target) |-> Junk], refused |-> "",
   stolen |-> FALSE, mistyped |-> FALSE]
Nothing == [kind |-> "none", taken |-> FALSE, meant |-> FALSE]

Init ==
  \E target \in Targets, os \in Pending :
     /\ \A n \in DOMAIN os : os[n].op = "literal" => LoadsExtended(target, os[n].kind, os[n].val)
     /\ c = AllPushed(Start(target), os)
     /\ ref = FirstMemory(target)
     /\ outcome = Nothing
     /\ steps = 0

-----------------------------------------------------------------------------
(* Which operations C defines here.                                        *)
Runs(n) == /\ c.refused = ""
           /\ outcome.kind = "none"
           /\ Len(c.stack) >= n
           /\ steps < MaxSteps
TopVal == c.stack[Top(c)].val
OverVal == c.stack[Over(c)].val
Pointing(s) == /\ s.type.ptr
               /\ s.type.kind \in DOMAIN Places
               /\ s.val = Places[s.type.kind]
(* Of the sizes in this scale, those that an int holds, as all really are. *)
SizeIsAnInt(k) == 2 * SizeOf(c.target, k) < Base
OperandsAllow(op) ==
  LET p == TopType(c).ptr  q == OverType(c).ptr
  IN  CASE ~p /\ ~q -> TRUE
        [] p /\ q -> /\ TopType(c) = OverType(c)
                     /\ op \in Comparisons \cup {"sub"}
                     /\ op = "sub" => SizeOf(c.target, TopType(c).kind) = 1
        [] OTHER -> /\ op \in {"add", "eq", "ne"}
                    /\ op = "add" => SizeIsAnInt(IF p THEN TopType(c).kind ELSE OverType(c).kind)
DefinedInC(op) ==
  LET Defined(o, t, w) ==
        /\ op \in {"div", "rem"} => t # 0 /\ ~(t = - 1 /\ 2 * (o % 2 ^ w) = 2 ^ w)
        /\ op \in {"shl", "shr"} => t \in 0 .. w - 1
      Of(g) == Defined(g.stack[Over(g)].val, g.stack[Top(g)].val, WidthOf(g.target, OverType(g)))
  IN  op \in {"div", "rem", "shl", "shr"} => Of(Prepared(c, op).cg)

Literals == \E l \in Constants :
  /\ Runs(0)
  /\ LoadsExtended(c.target, l.kind, l.val)
  /\ c' = IntConst(c, Basic(l.kind), l.val)
  /\ steps' = steps + 1
  /\ UNCHANGED <<ref, outcome>>
Addresses == \E k \in DOMAIN Places :
  /\ Runs(0)
  /\ c' = AddrOf(c, PtrTo(k), Places[k])
  /\ steps' = steps + 1
  /\ UNCHANGED <<ref, outcome>>
Dereference ==
  /\ Runs(1)
  /\ Pointing(c.stack[Top(c)])
  /\ LET k == TopType(c).kind
     IN  c' = DerefInt(c, k, Fit(c.target, Basic(k), Fetch(ref, TopVal, SizeOf(c.target, k))))
  /\ steps' = steps + 1
  /\ UNCHANGED <<ref, outcome>>
Cast == \E ty \in CastTypes :
  /\ Runs(1)
  /\ c' = Convert(c, ty)
  /\ steps' = steps + 1
  /\ UNCHANGED <<ref, outcome>>
Operator == \E op \in BinaryOps :
  /\ Runs(2)
  /\ OperandsAllow(op)
  /\ ~TopType(c).ptr /\ ~OverType(c).ptr => DefinedInC(op)
  /\ c' = Binop(c, op)
  /\ steps' = steps + 1
  /\ UNCHANGED <<ref, outcome>>
Assignment ==
  /\ Runs(2)
  /\ Pointing(c.stack[Over(c)])
  /\ c' = Assign(c)
  /\ ref' = LET k == OverType(c).kind
                v == IF k = "bool" THEN Flag(TopVal # 0) ELSE TopVal
            IN  IF c'.refused # "" THEN ref ELSE Put(ref, OverVal, SizeOf(c.target, k), v)
  /\ steps' = steps + 1
  /\ UNCHANGED outcome
Discard ==
  /\ Runs(2)
  /\ c' = Pop(c)
  /\ steps' = steps + 1
  /\ UNCHANGED <<ref, outcome>>
(* A statement has no pending values but its own.                          *)
Branch ==
  /\ Runs(1)
  /\ Len(c.stack) = 1
  /\ \E b \in {Test(c)} :
       /\ c' = b.cg
       /\ outcome' = [kind |-> "branch", taken |-> b.taken, meant |-> TopVal = 0]
  /\ steps' = steps + 1
  /\ UNCHANGED ref
ReturnValue == \E ty \in CastTypes :
  /\ Runs(1)
  /\ Len(c.stack) = 1
  /\ c' = Return(c, ty)
  /\ outcome' = [Nothing EXCEPT !.kind = "return"]
  /\ steps' = steps + 1
  /\ UNCHANGED ref

Next == Literals \/ Addresses \/ Dereference \/ Cast \/ Operator \/ Assignment \/ Discard
        \/ Branch \/ ReturnValue
Spec == Init /\ [][Next]_vars

-----------------------------------------------------------------------------
(* What the properties speak of: the compiler has not given up and neither *)
(* of its known slips has happened.  After the product of two unsigned     *)
(* long longs on i686 (mistyped), which C99 6.3.1.8 makes unsigned, the    *)
(* compiler goes on with a long long: comparing, shifting or dividing it   *)
(* takes its highest bit for a sign; in eight bits 160 > 1 is then 0.      *)
Compiles == c.refused = "" /\ ~c.stolen /\ ~c.mistyped

(* How a value of type ty stands in a register: its low bits; a value of   *)
(* 32 bits on riscv64 sign-extended.                                       *)
InRegister(ty, x, val) ==
  LET w == WidthOf(c.target, ty)
  IN  IF c.target = "riscv64" /\ w = LimbBits THEN x = Num(val, w, TRUE) % 2 ^ Width
      ELSE x % 2 ^ w = val % 2 ^ w
Holds(s) ==
  LET w == WidthOf(c.target, s.type)
  IN  CASE s.place = "reg" -> InRegister(s.type, c.regs[s.at], s.val)
        [] s.place = "pair" -> (c.regs[s.at2] * Base + c.regs[s.at]) % 2 ^ w = s.val % 2 ^ w
        [] s.place = "scratch" -> c.scratch[s.at] % 2 ^ w = s.val % 2 ^ w
        [] OTHER -> TRUE

(* Whatever the target, the widths and the registers taken, the machine    *)
(* has, for each pending operand, the number that C gives it.              *)
ValuesRepresented == Compiles => \A k \in 1 .. Len(c.stack) : Holds(c.stack[k])

(* Each object keeps the bytes that the assignments gave it, and no store  *)
(* touches another.                                                        *)
StoresMeant == Compiles => c.mem = ref

(* A jump is taken exactly if the tested value, of any type, is 0; a       *)
(* returned value is in the registers where callers look.                  *)
ControlMeant ==
  Compiles =>
    /\ outcome.kind = "branch" => outcome.taken = outcome.meant
    /\ outcome.kind = "return" => /\ c.stack[Top(c)].at = ReturnReg
                                  /\ c.stack[Top(c)].place = "pair" => c.stack[Top(c)].at2 = ReturnHigh

(* The compiler gives up an expression that C allows, or lets the          *)
(* assembler reject it, only in the cases known for the target: a store to *)
(* _Bool everywhere; a widening of a spilled value on aarch64; a wide      *)
(* operand that was spilled, or stands where an int is expected, on i686.  *)
GivesUpOnlyWhereKnown ==
  c.refused \in {"", "store to incompatible pointer"}
     \cup (IF c.target = "aarch64" THEN {"move from stack to register"} ELSE {})
     \cup (IF c.target = "i686" THEN {"register pair expected", "spilled pair narrowed",
                                      "pair where one register is expected"} ELSE {})
=============================================================================
