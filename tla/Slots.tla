---- MODULE Slots ----
(***************************************************************************)
(* The code generator's slot stack and register allocator (codegen.c) and  *)
(* the x86_64 instructions it emits (target/x86_64-linux/codegen.c), for   *)
(* integers and pointers.  Each operator is one function of the source: it *)
(* maps a code generator state to the next one AND executes the emitted    *)
(* instructions, so that compile-time bookkeeping and run-time contents    *)
(* can be compared.  A generator state is a record with                    *)
(*   stack  the slots, oldest first: where each pending value lives        *)
(*   frame  the scratch positions handed out so far, with their contents   *)
(*   regs   the contents of the registers                                  *)
(*   skip   0 while the emitted code runs, or the label it jumped to       *)
(* A slot's val is a ghost: the value the source program gives it.  Scratch*)
(* positions are names here; their bytes are the subject of Frame.         *)
(***************************************************************************)
EXTENDS Naturals, Sequences

CONSTANTS Volatile,       \* bit numbers of REG_VOLATILE
          RAX, RCX, RDX,
          Val,            \* run-time values, addresses included
          Junk,           \* an indeterminate value
          Fn(_, _, _)     \* what an operator computes

BinOps == {"add", "sub", "mul", "and", "or", "xor", "eq", "ne", "lt", "le",
           "gt", "ge", "shl", "shr", "div", "rem"}

ASSUME SlotsAssumption ==
    /\ Volatile \subseteq Nat
    /\ {RAX, RCX, RDX} \subseteq Volatile
    /\ RAX # RCX /\ RAX # RDX /\ RCX # RDX
    /\ Junk \in Val
    /\ \A op \in BinOps, a, b \in Val : Fn(op, a, b) \in Val

Kinds == {"none", "reg", "scratch"}
Slot  == [kind : Kinds, at : Nat, val : Val]
State == [stack : Seq(Slot), frame : Seq(Val), regs : [Volatile -> Val],
          skip : Nat]

Start == [stack |-> <<>>, frame |-> <<>>,
          regs |-> [r \in Volatile |-> Junk], skip |-> 0]

InReg(r, v)     == [kind |-> "reg", at |-> r, val |-> v]
InScratch(o, v) == [kind |-> "scratch", at |-> o, val |-> v]
Void            == [kind |-> "none", at |-> 0, val |-> Junk]

Runs(c) == c.skip = 0
Top(c)  == Len(c.stack)
Over(c) == Len(c.stack) - 1

\* What the slot's place contains when the emitted code gets here.
Content(c, s) == CASE s.kind = "reg"     -> c.regs[s.at]
                   [] s.kind = "scratch" -> c.frame[s.at]
                   [] OTHER              -> Junk

\* An instruction that writes v to register r.
Write(c, r, v) == IF Runs(c) THEN [c EXCEPT !.regs[r] = v] ELSE c

-----------------------------------------------------------------------------
(* Stack shuffling: no code is emitted. *)

\* Code that is jumped over gives its value no meaning.
Push(c, s) ==
    [c EXCEPT !.stack =
        Append(@, IF Runs(c) THEN s ELSE [s EXCEPT !.val = Junk])]

Pop(c) == [c EXCEPT !.stack = SubSeq(@, 1, Len(@) - 1)]

Swap(c) == [c EXCEPT !.stack[Top(c)]  = c.stack[Over(c)],
                     !.stack[Over(c)] = c.stack[Top(c)]]

\* third over top  ->  over top third
Rot(c) == [c EXCEPT !.stack[Top(c) - 2] = c.stack[Over(c)],
                    !.stack[Over(c)]    = c.stack[Top(c)],
                    !.stack[Top(c)]     = c.stack[Top(c) - 2]]

-----------------------------------------------------------------------------
(* Places *)

\* tacc_cg_slot_spill: a fresh scratch position takes over from the register.
Spill(c, k) ==
    IF c.stack[k].kind # "reg" THEN c
    ELSE [c EXCEPT !.stack[k] = InScratch(Len(c.frame) + 1, @.val),
                   !.frame = Append(@, IF Runs(c) THEN c.regs[c.stack[k].at]
                                                  ELSE Junk)]

\* tacc_cg_flush_stack: every slot is spilled, the oldest first.  Slot k is
\* given position k past the end of the frame; the positions between are idle.
Flush(c) ==
    LET n == Len(c.frame) IN
    [c EXCEPT
        !.stack = [k \in 1 .. Len(c.stack) |->
                      IF c.stack[k].kind = "reg"
                      THEN InScratch(n + k, c.stack[k].val) ELSE c.stack[k]],
        !.frame = [o \in 1 .. n + Len(c.stack) |->
                      IF o <= n THEN c.frame[o]
                      ELSE IF Runs(c) /\ c.stack[o - n].kind = "reg"
                      THEN c.regs[c.stack[o - n].at] ELSE Junk]]

UsesReg(c, k, D) == c.stack[k].kind = "reg" /\ c.stack[k].at \in D

Occupied(c) == {c.stack[k].at : k \in {j \in 1 .. Len(c.stack) :
                                          c.stack[j].kind = "reg"}}

Oldest(c, D) == CHOOSE k \in 1 .. Len(c.stack) :
                   /\ UsesReg(c, k, D)
                   /\ \A j \in 1 .. k - 1 : ~UsesReg(c, j, D)

Lowest(D) == CHOOSE r \in D : \A q \in D : r <= q

\* Mutation: a register is taken without asking whether a slot uses it.
BugAllocInUse(c, D) == [reg |-> Lowest(D), cg |-> c]

\* tacc_target_cg_alloc_reg: the lowest free desired register, or the one of
\* the oldest slot that uses a desired register, which is spilled.
AllocReg(c, D) ==
    IF D \subseteq Occupied(c)
    THEN [reg |-> c.stack[Oldest(c, D)].at, cg |-> Spill(c, Oldest(c, D))]
    ELSE [reg |-> Lowest(D \ Occupied(c)), cg |-> c]

\* tacc_cg_ensure_reg: slot k ends up in a register of D.
EnsureReg(c, k, D) ==
    LET a == AllocReg(c, D)
        moved == [a.cg EXCEPT !.stack[k] = InReg(a.reg, @.val)]
    IN  IF UsesReg(c, k, D) THEN c
        ELSE Write(moved, a.reg, Content(c, c.stack[k]))

RegOf(c, k) == c.stack[k].at

-----------------------------------------------------------------------------
(* Operations of the x86_64 back end *)

\* tacc_target_cg_int, _addrof_var, _addrof_obj and _string: a constant or an
\* address is loaded into a fresh register.
Load(c, v) ==
    LET a == AllocReg(c, Volatile)
    IN  Push(Write(a.cg, a.reg, v), InReg(a.reg, v))

\* tacc_target_cg_ext_top (and the register half of _narrow_top's users): the
\* top is brought into a register and extended in place.
Extend(c) == EnsureReg(c, Top(c), Volatile)

\* tacc_target_cg_dup.  A scratch value is copied, through a register, to a
\* fresh position; it is the old position that is pushed.
Dup(c) ==
    LET t == EnsureReg(c, Top(c), Volatile)
        r == RegOf(t, Top(t))
        a == AllocReg(t, Volatile \ {r})
        s == c.stack[Top(c)]
        copied == IF Runs(c) THEN Content(c, s) ELSE Junk
        m == AllocReg([c EXCEPT !.frame = Append(@, copied)], Volatile)
    IN  CASE s.kind = "none" -> Push(c, Void)
          [] s.kind = "reg" ->
               Push(Write(a.cg, a.reg, t.regs[r]), InReg(a.reg, s.val))
          [] s.kind = "scratch" ->
               Push(Write(m.cg, m.reg, copied), InScratch(s.at, s.val))

\* The common end of the binary operators: the left operand's register, l,
\* receives the result and both operands are popped.
Result(c, l, r, out, op) ==
    LET v == Fn(op, c.stack[Over(c)].val, c.stack[Top(c)].val)
        w == Write(c, out, Fn(op, c.regs[l], c.regs[r]))
    IN  Push(Pop(Pop(w)), InReg(out, v))

\* tacc_target_cg_binop, two-operand instructions and comparisons.
Binop(c, op) ==
    LET c1 == EnsureReg(c, Over(c), Volatile)
        l  == RegOf(c1, Over(c1))
        c2 == EnsureReg(c1, Top(c1), Volatile \ {l})
    IN  Result(c2, l, RegOf(c2, Top(c2)), l, op)

\* tacc_target_cg_binop, EX_SHL and EX_SHR: the count must be in %cl.
Shift(c, op) ==
    LET c1 == EnsureReg(c, Top(c), {RCX})
        c2 == EnsureReg(c1, Over(c1), Volatile \ {RCX})
        l  == RegOf(c2, Over(c2))
    IN  Result(c2, l, RCX, l, op)

\* Mutation: %rdx is not vacated before the division overwrites it.
BugDivideKeepsRdx(c, op) ==
    LET c1 == EnsureReg(c, Over(c), {RAX})
        c2 == EnsureReg(c1, Top(c1), Volatile \ {RAX, RDX})
        r  == RegOf(c2, Top(c2))
        quot == Fn("div", c2.regs[RAX], c2.regs[r])
        rem  == Fn("rem", c2.regs[RAX], c2.regs[r])
        v    == Fn(op, c2.stack[Over(c2)].val, c2.stack[Top(c2)].val)
        done == Write(Write(c2, RAX, quot), RDX, rem)
    IN  Push(Pop(Pop(done)), InReg(IF op = "div" THEN RAX ELSE RDX, v))

\* tacc_target_cg_binop, EX_DIV and EX_REM: the dividend in %rdx:%rax; both are
\* overwritten.
Divide(c, op) ==
    LET c1 == EnsureReg(c, Over(c), {RAX})
        c2 == EnsureReg(c1, Top(c1), Volatile \ {RAX, RDX})
        c3 == AllocReg(c2, {RDX}).cg
        r  == RegOf(c3, Top(c3))
        quot == Fn("div", c3.regs[RAX], c3.regs[r])
        rem  == Fn("rem", c3.regs[RAX], c3.regs[r])
        v    == Fn(op, c3.stack[Over(c3)].val, c3.stack[Top(c3)].val)
        done == Write(Write(c3, RAX, quot), RDX, rem)
    IN  Push(Pop(Pop(done)), InReg(IF op = "div" THEN RAX ELSE RDX, v))

\* tacc_target_cg_deref_int: the pointer's register receives what it points to.
\* mem is what the machine finds in memory, ref what the program should.
Deref(c, mem, ref) ==
    LET t == EnsureReg(c, Top(c), Volatile)
        r == RegOf(t, Top(t))
        p == t.stack[Top(t)].val
        loaded == IF t.regs[r] \in DOMAIN mem THEN mem[t.regs[r]] ELSE Junk
        meant  == IF Runs(c) /\ p \in DOMAIN ref THEN ref[p] ELSE Junk
    IN  [Write(t, r, loaded) EXCEPT !.stack[Top(t)].val = meant]

\* tacc_target_cg_store_int: the operands in registers; both are popped.
StoreOperands(c) ==
    LET t == EnsureReg(c, Top(c), Volatile)
    IN  EnsureReg(t, Over(t), Volatile \ {RegOf(t, Top(t))})

\* Mutation: address and value trade places.
BugStoreSwapped(c, mem) ==
    LET a == c.regs[RegOf(c, Top(c))] IN
    IF Runs(c) /\ a \in DOMAIN mem
    THEN [mem EXCEPT ![a] = c.regs[RegOf(c, Over(c))]] ELSE mem

\* The store itself: a wild address changes no variable.
Stored(c, mem) ==
    LET a == c.regs[RegOf(c, Over(c))] IN
    IF Runs(c) /\ a \in DOMAIN mem
    THEN [mem EXCEPT ![a] = c.regs[RegOf(c, Top(c))]] ELSE mem

\* Mutation: the arguments are handed over last first.
BugPassedReversed(c, n) ==
    LET f == Flush(c) IN
    [j \in 0 .. n |-> Content(f, f.stack[IF j = 0 THEN Top(f) - n
                                         ELSE Top(f) - j + 1])]

\* tacc_cg_call with n arguments and tacc_target_cg_call_top: everything is
\* flushed, arguments and callee are taken from scratch, and the call leaves
\* only its result, in %rax.  A void function leaves nothing.
Passed(c, n) ==
    LET f == Flush(c) IN
    [j \in 0 .. n |-> Content(f, f.stack[Top(f) - n + j])]

Call(c, n, result, void) ==
    LET f == Flush(c)
        rest == [f EXCEPT !.stack = SubSeq(@, 1, Len(@) - n - 1)]
        back == IF Runs(c)
                THEN [rest EXCEPT !.regs = [r \in Volatile |->
                         IF r = RAX /\ ~void THEN result ELSE Junk]]
                ELSE rest
    IN  Push(back, IF void THEN Void ELSE InReg(RAX, result))

\* tacc_target_cg_branch_if_false_saving_reg / _true_saving_reg: the top is
\* tested and popped; the jump is taken when it is (not) zero.
BranchReg(c) == RegOf(EnsureReg(c, Top(c), Volatile), Top(c))

BranchSavingReg(c, onZero, zero, label) ==
    LET t == EnsureReg(c, Top(c), Volatile)
        taken == Runs(c) /\ (onZero <=> t.regs[RegOf(t, Top(t))] = zero)
    IN  [Pop(t) EXCEPT !.skip = IF taken THEN label ELSE @]

-----------------------------------------------------------------------------
(* What must be true of a generator state *)

\* No two pending values share a register.
RegistersDistinct(c) ==
    \A j, k \in 1 .. Len(c.stack) :
        /\ j # k
        /\ c.stack[j].kind = "reg"
        /\ c.stack[k].kind = "reg"
        => c.stack[j].at # c.stack[k].at

\* Every slot names a register or a scratch position that exists.
PlacesExist(c) ==
    \A k \in 1 .. Len(c.stack) :
        /\ c.stack[k].kind = "reg" => c.stack[k].at \in Volatile
        /\ c.stack[k].kind = "scratch" => c.stack[k].at \in 1 .. Len(c.frame)

\* Where the bookkeeping says a value is, the machine has it.
PlacesHold(c) ==
    Runs(c) =>
        \A k \in 1 .. Len(c.stack) :
            c.stack[k].val # Junk => Content(c, c.stack[k]) = c.stack[k].val
====
