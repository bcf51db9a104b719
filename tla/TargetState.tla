---------------------------- MODULE TargetState ----------------------------
(***************************************************************************)
(* What the four back ends share (codegen.c): the stack of typed slots,    *)
(* the register allocator with register pairs, spilling and loading.       *)
(* As in Slots an operator does what the compiler does and executes what   *)
(* it emits, here down to the bits: a register is a number, an instruction *)
(* has a width.  A state of the generator is a record:                     *)
(*   target    one of TargetNames                                          *)
(*   stack     the slots, oldest first: place "reg", "pair" (i686: at is   *)
(*             the low register, at2 the high one), "scratch" or "none"; a *)
(*             C union holds register and position, so at stands for both  *)
(*   regs      the contents of the registers                               *)
(*   scratch   the contents of the scratch positions handed out            *)
(*   mem       the bytes of the program's objects                          *)
(*   refused   "" or why the compiler stopped with an assertion            *)
(*   stolen    the allocator returned a register other than those asked for*)
(*   mistyped  an operator's result was pushed with another type than C's  *)
(* A slot's val is a ghost: the number the program gives it.  Widths are   *)
(* those of CTypes; an address is a number of bytes.                       *)
(***************************************************************************)
EXTENDS CTypes, Sequences

CONSTANTS Junk,       \* what registers hold before the function
          Places      \* [object kinds -> addresses]: the program's objects

(* A type: an integer kind, or a pointer to an object of that kind.        *)
Basic(k) == [ptr |-> FALSE, kind |-> k]
PtrTo(k) == [ptr |-> TRUE, kind |-> k]
RegBits(target) == IF target = "i686" THEN LimbBits ELSE Width
WidthOf(target, ty) == IF ty.ptr THEN RegBits(target) ELSE BitWidth(target, ty.kind)
SignedType(target, ty) == ~ty.ptr /\ IsSigned(target, ty.kind)
SizeType(target) == Basic(IF target = "i686" THEN "uint" ELSE "ulong")
PtrdiffType(target) == Basic(IF target = "i686" THEN "sint" ELSE "slong")
ByteBits == LimbBits \div 4
SizeOf(target, k) == BitWidth(target, k) \div ByteBits

(* The w low bits of x, as a number.                                       *)
Num(x, w, signed) ==
  LET n == x % 2 ^ w IN IF signed /\ 2 * n >= 2 ^ w THEN n - 2 ^ w ELSE n
Fit(target, ty, x) == Num(x, WidthOf(target, ty), SignedType(target, ty))

(* C's operators on numbers.  An instruction of w bits applies them to the *)
(* low w bits of its operands; a shift looks at as many bits of its count  *)
(* as name a bit of the operand.                                           *)
BinaryOps == {"add", "sub", "mul", "div", "rem", "band", "bor", "bxor", "shl", "shr",
              "eq", "ne", "lt", "le", "gt", "ge"}
Comparisons == {"eq", "ne", "lt", "le", "gt", "ge"}
Flag(b) == IF b THEN 1 ELSE 0
Abs(x) == IF x < 0 THEN - x ELSE x
Quot(x, y) == LET q == Abs(x) \div Abs(y)  \* no program divides by 0
              IN  IF y = 0 THEN 0 ELSE IF (x < 0) = (y < 0) THEN q ELSE - q
Bit(x, i) == (x \div 2 ^ i) % 2
BothBits == [x, y \in Limb |-> MapThenSumSet(LAMBDA i : 2 ^ i * Bit(x, i) * Bit(y, i), 0 .. LimbBits - 1)]
And(x, y) == BothBits[(x \div Base) % Base, (y \div Base) % Base] * Base + BothBits[x % Base, y % Base]
InC(op, x, y) ==
  CASE op = "add" -> x + y [] op = "sub" -> x - y  [] op = "mul" -> x * y
    [] op = "div" -> Quot(x, y)  [] op = "rem" -> x - y * Quot(x, y)
    [] op = "band" -> And(x, y)  [] op = "bor" -> x + y - And(x, y)
    [] op = "bxor" -> x + y - 2 * And(x, y)
    [] op = "shl" -> x * 2 ^ y  [] op = "shr" -> x \div 2 ^ y
    [] op = "eq" -> Flag(x = y)  [] op = "ne" -> Flag(x # y)
    [] op = "lt" -> Flag(x < y)  [] op = "le" -> Flag(x <= y)
    [] op = "gt" -> Flag(x > y)  [] op = "ge" -> Flag(x >= y)
Alu(op, w, signed, a, b) ==
  InC(op, Num(a, w, signed), IF op \in {"shl", "shr"} THEN b % w ELSE Num(b, w, signed)) % 2 ^ w

(* Memory: little-endian bytes.                                            *)
InMemory(c, a, n) == \A i \in 0 .. n - 1 : a + i \in DOMAIN c.mem
Fetch(mem, a, n) == MapThenSumSet(LAMBDA i : mem[a + i] * 2 ^ (ByteBits * i), 0 .. n - 1)
Put(mem, a, n, x) == [b \in DOMAIN mem |-> IF b \in a .. a + n - 1
                                           THEN (x \div 2 ^ (ByteBits * (b - a))) % 2 ^ ByteBits
                                           ELSE mem[b]]

(* Registers.  Only some of the volatile ones of the larger targets.       *)
RAX == 1
RCX == 3
RDX == 4
Volatile(target) == CASE target = "i686" -> 1 .. 4      \* eax, ebx, ecx, edx
                      [] target = "x86_64" -> {RAX, RCX, RDX}
                      [] OTHER -> 1 .. 3
Write(c, r, x) == [c EXCEPT !.regs[r] = x % 2 ^ RegBits(c.target)]
(* An x86 instruction that writes part of a register: 32 bits clear the    *)
(* rest, fewer leave it.                                                   *)
WritePart(c, r, w, x) ==
  Write(c, r, (x % 2 ^ w) + IF w >= LimbBits THEN 0 ELSE c.regs[r] - (c.regs[r] % 2 ^ w))

Top(c) == Len(c.stack)
Over(c) == Len(c.stack) - 1
TopType(c) == c.stack[Top(c)].type
OverType(c) == c.stack[Over(c)].type
Slot(place, at, at2, ty, val) == [place |-> place, at |-> at, at2 |-> at2, type |-> ty, val |-> val]
Push(c, s) == [c EXCEPT !.stack = Append(@, s)]
PushReg(c, r, ty, val) == Push(c, Slot("reg", r, 0, ty, val))
PushPair(c, r, r2, ty, val) == Push(c, Slot("pair", r, r2, ty, val))
Pop(c) == [c EXCEPT !.stack = SubSeq(@, 1, Len(@) - 1)]
Pop2(c) == Pop(Pop(c))
Swap(c) == [c EXCEPT !.stack[Top(c)] = c.stack[Over(c)], !.stack[Over(c)] = c.stack[Top(c)]]
(* Mutation: the rotation goes the other way.                              *)
BugRot(c) == [c EXCEPT !.stack[Top(c) - 2] = c.stack[Top(c)],
                       !.stack[Over(c)] = c.stack[Top(c) - 2],
                       !.stack[Top(c)] = c.stack[Over(c)]]
Rot(c) == [c EXCEPT !.stack[Top(c) - 2] = c.stack[Over(c)],
                    !.stack[Over(c)] = c.stack[Top(c)],
                    !.stack[Top(c)] = c.stack[Top(c) - 2]]

(* An assertion ends the compilation: nothing after it happens.            *)
Refuse(c, why) == [c EXCEPT !.refused = why]
Then(c, F(_)) == IF c.refused # "" THEN c ELSE F(c)

StoreRegToScratch(c, r, ty) == [c EXCEPT !.scratch = Append(@, c.regs[r] % 2 ^ WidthOf(c.target, ty))]
StoreRegPairToScratch(c, r, r2) == [c EXCEPT !.scratch = Append(@, c.regs[r2] * Base + c.regs[r])]
Spill(c, k) ==
  LET s == c.stack[k]
      spilled == [c EXCEPT !.stack[k].place = "scratch", !.stack[k].at = Len(c.scratch) + 1]
  IN  CASE s.place \in {"scratch", "none"} -> c
        [] s.place = "reg" -> StoreRegToScratch(spilled, s.at, s.type)
        [] s.place = "pair" -> StoreRegPairToScratch(spilled, s.at, s.at2)
FlushStack(c) ==
  LET f[k \in 0 .. Len(c.stack)] == IF k = 0 THEN c ELSE Spill(f[k - 1], k) IN f[Len(c.stack)]

(* The narrow load of a spilled value: into a part of the register, or     *)
(* with zeroes above, or with what the type says above.                    *)
LoadPartX86(c, x, r, w) == WritePart(c, r, w, x)
LoadPartAarch64(c, x, r, w) == Write(c, r, x % 2 ^ w)
LoadPartRiscv64(c, x, r, ty) ==
  LET w == WidthOf(c.target, ty) IN Write(c, r, Num(x, w, w = LimbBits \/ SignedType(c.target, ty)))
LoadScratchPart(c, at, r, ty) ==
  LET w == WidthOf(c.target, ty)  x == c.scratch[at]
  IN  CASE c.target = "riscv64" -> LoadPartRiscv64(c, x, r, ty)
        [] c.target = "aarch64" -> LoadPartAarch64(c, x, r, w)
        [] OTHER -> LoadPartX86(c, x, r, w)

(* The lowest free register of D; or the register of the oldest slot that  *)
(* uses one of D, which is spilled.  Of a pair that is its low register,   *)
(* even when it is the high one that is in D.                              *)
RegsOf(s) == CASE s.place = "reg" -> {s.at} [] s.place = "pair" -> {s.at, s.at2} [] OTHER -> {}
Occupied(c) == UNION {RegsOf(c.stack[k]) : k \in 1 .. Top(c)}
Oldest(c, D) == Min({k \in 1 .. Top(c) : RegsOf(c.stack[k]) \cap D # {}})
Evicted(c, D, k) == [reg |-> c.stack[k].at,
                     cg |-> [Spill(c, k) EXCEPT !.stolen = @ \/ c.stack[k].at \notin D]]
AllocReg(c, D) == IF D \subseteq Occupied(c) THEN Evicted(c, D, Oldest(c, D))
                  ELSE [reg |-> Min(D \ Occupied(c)), cg |-> c]
(* A second one, in the state that the first allocation a left.            *)
Both(low, high) == [low |-> low.reg, high |-> high.reg, cg |-> high.cg]
AllocNext(a, D) == Both(a, AllocReg(a.cg, D))

MoveRegReg(c, r, to) == Write(c, to, c.regs[r])
XchgRegReg(c, r, q) == [c EXCEPT !.regs[r] = c.regs[q], !.regs[q] = c.regs[r]]

PlacedIn(a, k) == [a.cg EXCEPT !.stack[k].place = "reg", !.stack[k].at = a.reg]
Brought(a, k, s) == IF s.place = "scratch" THEN LoadScratchPart(PlacedIn(a, k), s.at, a.reg, s.type)
                    ELSE MoveRegReg(PlacedIn(a, k), s.at, a.reg)
EnsureReg(c, k, D) ==
  LET s == c.stack[k]
  IN  CASE c.refused # "" \/ (s.place = "reg" /\ s.at \in D) -> c
        [] c.refused = "" /\ s.place \notin {"scratch", "reg"} ->
             Refuse(c, "pair where one register is expected")
        [] OTHER -> Brought(AllocReg(c, D), k, s)
EnsureTop(c, D) == EnsureReg(c, Top(c), D)
EnsureOver(c, D) == EnsureReg(c, Over(c), D)
TopReg(c) == c.stack[Top(c)].at
OverReg(c) == c.stack[Over(c)].at

(* A pair whose low register is in L and whose high one is in H.           *)
MovedLow(a, k, from) == [MoveRegReg(a.cg, from, a.reg) EXCEPT !.stack[k].at = a.reg]
MovedHigh(a, k, from) == [MoveRegReg(a.cg, from, a.reg) EXCEPT !.stack[k].at2 = a.reg]
Exchanged(c, k) ==
  LET s == c.stack[k]
  IN  [XchgRegReg(c, s.at, s.at2) EXCEPT !.stack[k].at = s.at2, !.stack[k].at2 = s.at]
SettledPair(c, k, L, H) ==       \* one of the two registers is already right
  LET s == c.stack[k]
  IN  IF s.at \in L /\ s.at2 \in H THEN c
      ELSE IF s.at2 \in L /\ s.at \in H THEN Exchanged(c, k)
      ELSE IF s.at \in L
           THEN IF H = {s.at} THEN Refuse(c, "allocation is too hard")
                ELSE MovedHigh(AllocReg(c, H \ {s.at}), k, s.at2)
      ELSE IF L = {s.at2} THEN Refuse(c, "allocation is too hard")
           ELSE MovedLow(AllocReg(c, L \ {s.at2}), k, s.at)
MovedPair(b, k, s) ==            \* b: both registers as allocated
  [MoveRegReg(MoveRegReg(b.cg, s.at, b.low), s.at2, b.high)
     EXCEPT !.stack[k].at = b.low, !.stack[k].at2 = b.high]
EnsurePair(c, k, L, H) ==
  LET s == c.stack[k]
  IN  IF c.refused # "" THEN c
      ELSE IF s.place # "pair" THEN Refuse(c, "register pair expected")
      ELSE IF s.at \in L \/ s.at2 \in H THEN SettledPair(c, k, L, H)
      ELSE IF s.at \in H \/ s.at2 \in L
           THEN SettledPair(Exchanged(c, k), k, IF s.at \in H THEN L ELSE {s.at2},
                            IF s.at \in H THEN {s.at} ELSE H)
      ELSE MovedPair(AllocNext(AllocReg(c, L), H), k, s)
=============================================================================
