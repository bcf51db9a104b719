---- MODULE Frame ----
(***************************************************************************)
(* The stack frame of one function: where codegen.c puts parameters, local *)
(* variables and scratch values, what each target's prologue saves, and    *)
(* where the caller leaves the arguments that do not fit in registers.     *)
(* Addresses are relative to the stack pointer on function entry; offsets, *)
(* as in the source, to the frame pointer.  Every declaration has a        *)
(* name_ref of its own (the parser interns each occurrence anew), so a     *)
(* variable is identified with the item made for it.                       *)
(***************************************************************************)
EXTENDS Integers, Sequences

CONSTANTS Targets,      \* the targets compiled for
          Objects,      \* types of local variables and scratch values
          Signatures,   \* parameter lists, as sequences of kinds
          MaxObjects    \* bound on locals and scratch values

Alignments == {1, 2, 4, 8, 16}
Classes    == {"int", "float", "ldouble", "other"}
Type       == [class : Classes, size : Nat, align : Alignments]

\* tacc_align_up, for alignments that are powers of two
AlignUp(x, a) == x + ((-x) % a)

-----------------------------------------------------------------------------
(* The targets: the call interface (target/*/call_itf.c) and the prologue   *)
(* (tacc_target_cg_finalize).                                              *)

X86_64 ==
    [name |-> "x86_64", up |-> FALSE, ints |-> 6, floats |-> 6, entry |-> 8,
     ret |-> 8, ldouble |-> [class |-> "ldouble", size |-> 10, align |-> 16]]
I686 ==
    [name |-> "i686", up |-> FALSE, ints |-> 0, floats |-> 0, entry |-> 12,
     ret |-> 4, ldouble |-> [class |-> "ldouble", size |-> 10, align |-> 4]]
Riscv64 ==
    [name |-> "riscv64", up |-> FALSE, ints |-> 8, floats |-> 8, entry |-> 0,
     ret |-> 0, ldouble |-> [class |-> "ldouble", size |-> 16, align |-> 16]]
Aarch64 ==
    [name |-> "aarch64", up |-> TRUE, ints |-> 8, floats |-> 8, entry |-> 0,
     ret |-> 0, ldouble |-> [class |-> "ldouble", size |-> 16, align |-> 16]]

ASSUME FrameAssumption ==
    /\ Targets \subseteq {X86_64, I686, Riscv64, Aarch64}
    /\ Objects \subseteq Type
    /\ Signatures \subseteq Seq({"char", "int", "double", "long double"})
    /\ MaxObjects \in Nat

VARIABLES target,
          vararg,   \* func_type->is_vararg
          sig,      \* the kinds of the parameters
          phase,    \* "params", "body", or "done" when finalised
          itf,      \* registers and incoming stack used so far
          bytes,    \* state->num_local_bytes
          incoming, \* the offsets of the parameters left on the stack
          items     \* the other objects, oldest first

vars == <<target, vararg, sig, phase, itf, bytes, incoming, items>>

\* Mutation: a variadic function's saved registers are not counted.
BugFrameOffset == CASE target = I686   -> 12
                    [] target = X86_64 -> 0
                    [] OTHER           -> 16

\* interface->frame_offset
FrameOffset == CASE target = X86_64  -> IF vararg THEN 176 ELSE 0
                 [] target = I686    -> 12
                 [] target = Riscv64 -> 16
                 [] target = Aarch64 -> IF vararg THEN 208 ELSE 16

\* Mutation: the saved frame pointer is not counted.
BugImplicitUse == 8

\* interface->implicit_stack_use, also where used_stack starts
ImplicitUse == CASE target = X86_64  -> 16
                 [] target = I686    -> 8
                 [] target = Riscv64 -> IF vararg THEN 80 ELSE 16
                 [] target = Aarch64 -> 0

\* Mutation: the size of the frame is rounded down.
BugRounded == bytes - (bytes % 16)

\* The prologue: where it leaves the frame and stack pointers ...
Rounded == AlignUp(bytes, 16)
FramePointer == CASE target = X86_64  -> -8
                  [] target = I686    -> -4
                  [] target = Riscv64 -> IF vararg THEN -64 ELSE 0
                  [] target = Aarch64 -> -Rounded
StackPointer == CASE target = X86_64  -> FramePointer - Rounded
                  [] target = I686    -> FramePointer - 12 - Rounded
                  [] target = Riscv64 -> FramePointer - Rounded
                  [] target = Aarch64 -> FramePointer

\* ... and the offsets of what it saves: the return address, the caller's
\* frame pointer and registers, and the arguments of a variadic function.
Saved == CASE target = X86_64  -> (IF vararg THEN -176 ELSE 0) .. 15
           [] target = I686    -> -12 .. 7
           [] target = Riscv64 -> -16 .. (IF vararg THEN 63 ELSE -1)
           [] target = Aarch64 -> 0 .. (IF vararg THEN 207 ELSE 15)

-----------------------------------------------------------------------------
(* tacc_target_callitf_part_from_arg: the place of the next parameter.      *)

LongDoubleInRegister(s) == CASE target = Riscv64 -> s.ints < 7
                             [] target = Aarch64 -> s.floats < 8
                             [] OTHER            -> FALSE

InRegister(ty, s) == CASE ty.class = "int"   -> s.ints < target.ints
                       [] ty.class = "float" -> s.floats < target.floats
                       [] OTHER              -> LongDoubleInRegister(s)

Larger(a, b) == IF a < b THEN b ELSE a

PartAlign(ty) == IF target = I686 THEN 4 ELSE IF ty.class = "ldouble" THEN 16 ELSE 8
PartSize(ty)  == IF target = I686 THEN Larger(ty.size, 4) ELSE PartAlign(ty)
PartAt(ty, s) == AlignUp(s.stack, PartAlign(ty))

\* What is used once the parameter has its place.
Used(ty, s) ==
    IF ~InRegister(ty, s)
    THEN [s EXCEPT !.stack = AlignUp(PartAt(ty, s) + PartSize(ty), PartAlign(ty))]
    ELSE CASE ty.class = "int" -> [s EXCEPT !.ints = @ + 1]
           [] ty.class = "ldouble" /\ target = Riscv64 -> [s EXCEPT !.ints = @ + 2]
           [] OTHER -> [s EXCEPT !.floats = @ + 1]

-----------------------------------------------------------------------------
(* tacc_cg_alloc_variable and tacc_cg_alloc_scratch *)

\* Mutation: the frame is not aligned before the object is placed.
BugPlaced(size, align) ==
    [at |-> IF target.up THEN bytes ELSE -(bytes + size),
     size |-> size, align |-> align]

\* The object of that size and alignment, and the bytes in use after it.
Placed(size, align) ==
    LET aligned == AlignUp(bytes, align)
    IN  [at |-> IF target.up THEN aligned ELSE -(aligned + size),
         size |-> size, align |-> align]

\* Mutation: the bytes skipped to align the object are not counted.
BugBytesAfter(size, align) == bytes + size

BytesAfter(size, align) == AlignUp(bytes, align) + size

Allocate(size, align) ==
    /\ bytes' = BytesAfter(size, align)
    /\ items' = Append(items, Placed(size, align))

-----------------------------------------------------------------------------
Init ==
    /\ target \in Targets
    /\ vararg \in BOOLEAN
    /\ sig \in Signatures
    /\ phase = "params"
    /\ itf = [ints |-> 0, floats |-> 0, stack |-> ImplicitUse]
    /\ bytes = FrameOffset
    /\ incoming = <<>>
    /\ items = <<>>

TypeFor(kind) ==
    CASE kind = "char"   -> [class |-> "int", size |-> 1, align |-> 1]
      [] kind = "int"    -> [class |-> "int", size |-> 4, align |-> 4]
      [] kind = "double" ->
             [class |-> "float", size |-> 8, align |-> IF target = I686 THEN 4 ELSE 8]
      [] OTHER           -> target.ldouble

\* While parameters are given places, how many have one.
ParamsPlaced == Len(incoming) + Len(items)

\* tacc_cg_compile_function, one parameter: it gets a variable of its own, or
\* stays where the caller put it.
AddParam ==
    /\ phase = "params"
    /\ ParamsPlaced < Len(sig)
    /\ LET ty == TypeFor(sig[ParamsPlaced + 1]) IN
         /\ itf' = Used(ty, itf)
         /\ IF InRegister(ty, itf)
            THEN Allocate(ty.size, ty.align) /\ UNCHANGED incoming
            ELSE /\ incoming' = Append(incoming, PartAt(ty, itf))
                 /\ UNCHANGED <<bytes, items>>
    /\ UNCHANGED <<target, vararg, sig, phase>>

\* The parameters are complete; the body's statements follow.
BeginBody ==
    /\ phase = "params" /\ ParamsPlaced = Len(sig)
    /\ phase' = "body"
    /\ UNCHANGED <<target, vararg, sig, itf, bytes, incoming, items>>

\* The parameters in registers have objects too.
Room == Len(items) < MaxObjects + Len(sig) - Len(incoming)

\* tacc_cg_decl, one declarator
Declare ==
    /\ phase = "body"
    /\ Room
    /\ \E ty \in Objects : Allocate(ty.size, ty.align)
    /\ UNCHANGED <<target, vararg, sig, phase, itf, incoming>>

\* tacc_cg_alloc_scratch: at least a register's size.
Scratch ==
    /\ phase = "body"
    /\ Room
    /\ \E ty \in Objects : Allocate(Larger(ty.size, 8), ty.align)
    /\ UNCHANGED <<target, vararg, sig, phase, itf, incoming>>

\* tacc_cg_finalize: the prologue is written, bytes is final.
Finalize ==
    /\ phase = "body"
    /\ phase' = "done"
    /\ UNCHANGED <<target, vararg, sig, itf, bytes, incoming, items>>

Next == AddParam \/ BeginBody \/ Declare \/ Scratch \/ Finalize

Spec == Init /\ [][Next]_vars

-----------------------------------------------------------------------------
(* Properties *)

Resident == [at : Int, size : Nat, align : Alignments]

TypeOK ==
    /\ target \in Targets
    /\ vararg \in BOOLEAN
    /\ phase \in {"params", "body", "done"}
    /\ bytes \in Nat
    /\ items \in Seq(Resident)

Before(i, j) == i.at + i.size <= j.at

\* No two objects of the function share a byte of its frame.
ObjectsDisjoint ==
    \A j, k \in 1 .. Len(items) :
        j # k => Before(items[j], items[k]) \/ Before(items[k], items[j])

\* Objects lie between the stack pointer, below which calls write, and the
\* stack pointer on entry, above which the caller's frame is.
InsideFrame ==
    phase = "done" =>
        \A k \in 1 .. Len(items) :
            /\ StackPointer <= FramePointer + items[k].at
            /\ FramePointer + items[k].at + items[k].size <= 0

\* What the prologue saves, the registers of a variadic function included, is
\* apart from every object, so that neither destroys the other.
SavedApart ==
    \A k \in 1 .. Len(items), b \in Saved :
        ~(items[k].at <= b /\ b < items[k].at + items[k].size)

\* An object whose size is a multiple of its alignment is aligned in memory,
\* given a stack aligned as the prologue's comments say it is.
ObjectsAligned ==
    phase = "done" =>
        \A k \in 1 .. Len(items) :
            /\ items[k].size % items[k].align = 0
            /\ target = I686 => items[k].align <= 4
            => (target.entry + FramePointer + items[k].at) % items[k].align = 0

\* The argument the caller stored at the bottom of its outgoing area (whose
\* address is ret on entry) is the one the parameter's variable denotes.
ArgumentsFound ==
    phase = "done" =>
        \A k \in DOMAIN incoming :
            FramePointer + incoming[k] = target.ret + incoming[k] - ImplicitUse

\* On the two x86 targets it is.
ArgumentsFoundOnX86 == target \in {X86_64, I686} => ArgumentsFound
====
