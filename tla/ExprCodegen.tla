---- MODULE ExprCodegen ----
(***************************************************************************)
(* The expression compiler (tacc_cg_compile_expr and the functions it      *)
(* drives in codegen.c) over the slot stack of Slots.  One expression is   *)
(* compiled; its instructions run as they are emitted.  todo is the        *)
(* compiler's recursion made explicit: what is still to be compiled, in    *)
(* order.  What the expression means is in ExprMeaning.                    *)
(***************************************************************************)
EXTENDS Slots, SequencesExt

CONSTANTS Data,             \* variables, by address
          Ints,             \* integer values
          Zero, One, Ones,  \* the integers 0, 1 and ~0
          Exprs,            \* the expressions compiled
          Operands,         \* the expressions in them
          Memories,         \* what the variables may hold at first
          Returns(_),       \* what a callee returns for its arguments
          Effect(_, _)      \* the memory a callee leaves behind

\* An expression: its kind, the constant, variable or operator it names, and
\* its operands.
Node(kind, of, ops) == [kind |-> kind, of |-> of, ops |-> ops]

LeafKinds  == {"const", "ident", "addrof"}
UnaryKinds == {"deref", "cast", "bool", "neg", "not", "bnot"}
PairKinds  == {"binary", "comma", "assign", "and", "or"}
CallKinds  == {"call", "voidcall"}  \* the callee, then the arguments

Uses == {"statement", "return", "condition"}

ASSUME ExprCodegenAssumption ==
    /\ Data \cup Ints \subseteq Val
    /\ {Zero, One, Ones} \subseteq Ints
    /\ Memories \subseteq [Data -> Val]

\* What the parser builds: operators have the operands they need.
ASSUME OperandsAssumption ==
    \A e \in Exprs \cup Operands :
        /\ e.ops \in Seq(Operands)
        /\ \/ e.kind \in LeafKinds
           \/ e.kind \in UnaryKinds /\ Len(e.ops) = 1
           \/ e.kind \in PairKinds /\ Len(e.ops) = 2
           \/ e.kind \in CallKinds /\ Len(e.ops) >= 1

VARIABLES expr,    \* the expression being compiled
          use,     \* the statement it stands in
          start,   \* the memory it starts from
          todo,    \* what is still to be compiled
          cg,      \* the generator state
          joins,   \* labels of the open && and ||, innermost last
          labels,  \* state->label_counter
          mem,     \* memory
          calls,   \* the calls made: callee and arguments of each
          out      \* what the statement saw: the value returned, or the branch

vars == <<expr, use, start, todo, cg, joins, labels, mem, calls, out>>

-----------------------------------------------------------------------------
(* tacc_cg_compile_expr: what each kind of expression is compiled to *)

Do(what, of) == [do |-> what, of |-> of]
Compile(e)   == Do("compile", e)
Const(v)       == Do("load", v)
Binary(op)   == Do("binary", op)

\* Leaves: a constant, the address of a variable, or what the variable holds
\* (tacc_cg_compile_lval and tacc_cg_lval_to_rval).
PlanLeaf(e) ==
    IF e.kind = "ident" THEN <<Const(e.of), Do("deref", 0)>> ELSE <<Const(e.of)>>

PlanUnary(e) ==
    LET op == Compile(e.ops[1]) IN
    CASE e.kind = "deref" -> <<op, Do("deref", 0)>>
      [] e.kind = "cast"  -> <<op, Do("convert", 0)>>
      [] e.kind = "bool"  -> <<op, Const(Zero), Binary("ne")>>
      [] e.kind = "neg"   -> <<Const(Zero), op, Binary("sub")>>
      [] e.kind = "not"   -> <<op, Const(Zero), Binary("eq")>>
      [] e.kind = "bnot"  -> <<op, Const(Ones), Binary("xor")>>

PlanBinary(e) ==
    <<Compile(e.ops[1]), Compile(e.ops[2]), Binary(e.of)>>

\* Mutation: the value of the left operand is not discarded.
BugPlanComma(e) == <<Compile(e.ops[1]), Compile(e.ops[2])>>

\* EX_COMMA
PlanComma(e) == <<Compile(e.ops[1]), Do("pop", 0), Compile(e.ops[2])>>

\* EX_ASSI: the value is stored through the address and also left behind.
PlanAssign(e) ==
    <<Compile(e.ops[1]), Compile(e.ops[2]), Do("convert", 0), Do("dup", 0),
      Do("rot", 0), Do("swap", 0), Do("store", 0)>>

\* EX_CALL and tacc_cg_function_params: the callee, then each argument, which
\* is converted when it has been compiled.
PlanCall(e) ==
    LET n == Len(e.ops) - 1 IN
    [k \in 1 .. 2 * n + 2 |->
        IF k = 2 * n + 2 THEN Do(e.kind, n)
        ELSE IF k % 2 = 1 /\ k > 1 THEN Do("convert", 0)
        ELSE Compile(e.ops[1 + k \div 2])]

\* EX_AND, EX_OR
PlanLogical(e) ==
    <<Compile(e.ops[1]), Const(Zero), Binary("ne"),
      Do("branch", e.kind = "and"),
      Compile(e.ops[2]), Const(Zero), Binary("ne"), Do("join", e.kind)>>

Plan(e) ==
    CASE e.kind \in LeafKinds  -> PlanLeaf(e)
      [] e.kind \in UnaryKinds -> PlanUnary(e)
      [] e.kind = "binary" -> PlanBinary(e)
      [] e.kind = "comma"  -> PlanComma(e)
      [] e.kind = "assign" -> PlanAssign(e)
      [] e.kind \in CallKinds -> PlanCall(e)
      [] e.kind \in {"and", "or"} -> PlanLogical(e)

\* The statement around the expression: an expression statement, a return
\* (tacc_cg_return), or an if or loop condition.
PlanUse(e, u) ==
    CASE u = "statement" -> <<Compile(e), Do("pop", 0), Do("end", u)>>
      [] u = "return"    -> <<Compile(e), Do("convert", 0), Do("end", u)>>
      [] u = "condition" -> <<Compile(e), Const(Zero), Binary("ne"), Do("end", u)>>

Init ==
    /\ expr \in Exprs
    /\ use \in Uses
    /\ start \in Memories
    /\ todo = PlanUse(expr, use)
    /\ cg = Start
    /\ joins = <<>>
    /\ labels = 0
    /\ mem = start
    /\ calls = <<>>
    /\ out = Junk

-----------------------------------------------------------------------------
(* One step of the compiler: the next item of todo *)

Now(what) == todo # <<>> /\ Head(todo).do = what
Arg  == Head(todo).of
Advance == todo' = Tail(todo)

Quiet == UNCHANGED <<expr, use, start, joins, labels, mem, calls, out>>

CompileStep ==
    /\ Now("compile")
    /\ todo' = Plan(Arg) \o Tail(todo)
    /\ UNCHANGED cg
    /\ Quiet

LoadStep ==
    /\ Now("load")
    /\ cg' = Load(cg, Arg)
    /\ Advance /\ Quiet

DerefStep ==
    /\ Now("deref")
    /\ cg' = Deref(cg, mem, mem)
    /\ Advance /\ Quiet

\* tacc_cg_convert_top between integers and pointers: what the types decide
\* is left open. Either nothing is emitted or the top is extended.
Converted(c) == {c, Extend(c)}

ConvertStep ==
    /\ Now("convert")
    /\ cg' \in Converted(cg)
    /\ Advance /\ Quiet

\* tacc_cg_usual_arithmetic_conversions and the promotions of the shifts: the
\* left operand, brought to the top and back, then the right one.
OperandsConverted(c) ==
    UNION {Converted(d) : d \in {c} \cup {Swap(Extend(Swap(c)))}}

\* tacc_cg_binop
BinaryStep ==
    /\ Now("binary")
    /\ \E c \in OperandsConverted(cg) :
          cg' = CASE Arg \in {"shl", "shr"} -> Shift(c, Arg)
                  [] Arg \in {"div", "rem"} -> Divide(c, Arg)
                  [] OTHER                  -> Binop(c, Arg)
    /\ Advance /\ Quiet

PopStep ==
    /\ Now("pop")
    /\ cg' = Pop(cg)
    /\ Advance /\ Quiet

\* tacc_cg_dup, tacc_cg_swap, tacc_cg_rot
ShuffleStep ==
    \/ /\ Now("dup")
       /\ cg' = Dup(cg)
       /\ Advance /\ Quiet
    \/ /\ Now("swap")
       /\ cg' = Swap(cg)
       /\ Advance /\ Quiet
    \/ /\ Now("rot")
       /\ cg' = Rot(cg)
       /\ Advance /\ Quiet

\* tacc_cg_compile_assign
StoreStep ==
    /\ Now("store")
    /\ LET c == StoreOperands(cg) IN
         /\ mem' = Stored(c, mem)
         /\ cg' = Pop(Pop(c))
    /\ Advance
    /\ UNCHANGED <<expr, use, start, joins, labels, calls, out>>

\* tacc_cg_call
CallStep ==
    /\ Now("call") \/ Now("voidcall")
    /\ LET p    == Passed(cg, Arg)
           args == [j \in 1 .. Arg |-> p[j]]
       IN  /\ cg' = Call(cg, Arg, Returns(args), Now("voidcall"))
           /\ IF Runs(cg)
              THEN /\ mem' = Effect(args, mem)
                   /\ calls' = Append(calls, <<p[0]>> \o args)
              ELSE UNCHANGED <<mem, calls>>
    /\ Advance
    /\ UNCHANGED <<expr, use, start, joins, labels, out>>

\* tacc_cg_new_label and the jump over the second operand
BranchStep ==
    /\ Now("branch")
    /\ labels' = labels + 1
    /\ cg' = BranchSavingReg(cg, Arg, Zero, labels')
    /\ joins' = Append(joins, [label |-> labels', reg |-> BranchReg(cg)])
    /\ Advance
    /\ UNCHANGED <<expr, use, start, mem, calls, out>>

\* Mutation: the second operand stays in whatever register it is in.
BugJoinStep ==
    /\ Now("join")
    /\ LET j == Last(joins)
           c == EnsureReg(cg, Top(cg), Volatile)
       IN  cg' = IF c.skip # j.label THEN c
                 ELSE [c EXCEPT !.skip = 0,
                           !.stack[Top(c)].val = IF Arg = "and" THEN Zero ELSE One]
    /\ joins' = Front(joins)
    /\ Advance
    /\ UNCHANGED <<expr, use, start, labels, mem, calls, out>>

\* The second operand is brought to the register the test left its value in,
\* then the label: code that jumped here runs again, with the tested value.
JoinStep ==
    /\ Now("join")
    /\ LET j == Last(joins)
           c == EnsureReg(cg, Top(cg), {j.reg})
       IN  cg' = IF c.skip # j.label THEN c
                 ELSE [c EXCEPT !.skip = 0,
                           !.stack[Top(c)].val = IF Arg = "and" THEN Zero ELSE One]
    /\ joins' = Front(joins)
    /\ Advance
    /\ UNCHANGED <<expr, use, start, labels, mem, calls, out>>

\* The end of the statement.
EndStep ==
    /\ Now("end")
    /\ \/ /\ use = "statement"
          /\ UNCHANGED <<cg, out>>
       \/ /\ use = "return"
          /\ LET c == EnsureReg(cg, Top(cg), {RAX}) IN
               /\ out' = c.regs[RAX]
               /\ cg' = Pop(c)
       \/ /\ use = "condition"
          /\ LET c == EnsureReg(cg, Top(cg), Volatile) IN
               /\ out' = c.regs[RegOf(c, Top(c))]
               /\ cg' = Pop(c)
    /\ Advance
    /\ UNCHANGED <<expr, use, start, joins, labels, mem, calls>>

Next ==
    \/ CompileStep \/ LoadStep \/ DerefStep \/ ConvertStep \/ BinaryStep
    \/ PopStep \/ ShuffleStep \/ StoreStep \/ CallStep \/ BranchStep
    \/ JoinStep \/ EndStep

Spec == Init /\ [][Next]_vars

-----------------------------------------------------------------------------
(* Properties *)

Finished == todo = <<>>

\* Nothing is left on the slot stack, as the assertion after every statement
\* demands, no operation finds too few slots, and every jump has landed.
StackBalanced ==
    /\ Finished => cg.stack = <<>> /\ joins = <<>> /\ cg.skip = 0
    /\ Now("binary") \/ Now("swap") \/ Now("store") => Top(cg) >= 2
    /\ Now("rot") => Top(cg) >= 3
====
