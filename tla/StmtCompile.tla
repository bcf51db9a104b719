---- MODULE StmtCompile ----
(***************************************************************************)
(* The jumps and labels tacc_cg_compile_stmt (codegen.c) makes of the      *)
(* statements of a function body.  Expressions are names.  Labels are      *)
(* allocated per statement, only their being distinct matters.             *)
(***************************************************************************)
EXTENDS Naturals, Sequences, SequencesExt

CONSTANTS Bodies,      \* the function bodies compiled, as the parser returns them
          Statements,  \* the statements in them
          Named(_),    \* of each statement, the labels of goto in it
          Jumped(_)    \* of each statement, the labels its gotos name

\* A statement: its kind, the expressions or label it names, its parts.
Node(kind, of, sub) == [kind |-> kind, of |-> of, sub |-> sub]

\* case and default are told apart by their kind, case by its value.
LabelKinds == {"label", "case", "default"}
Loops      == {"while", "do", "for"}
Simple     == {"null", "expr", "return", "break", "continue", "goto"} \cup LabelKinds

\* What the parser builds: statements have the parts they need.
ASSUME StatementsAssumption ==
    /\ Bodies \cup {s.sub : s \in Statements} \subseteq Seq(Statements)
    /\ \A s \in Statements :
          \/ s.kind \in Simple /\ s.sub = <<>>
          \/ s.kind = "compound"
          \/ s.kind \in Loops \cup {"switch"} /\ Len(s.sub) = 1
          \/ s.kind = "if" /\ Len(s.sub) \in {1, 2}

NamedIn(ss)  == UNION {Named(ss[k]) : k \in 1 .. Len(ss)}
JumpedIn(ss) == UNION {Jumped(ss[k]) : k \in 1 .. Len(ss)}
Unique(ss) ==
    \A j, k \in 1 .. Len(ss) : j # k => Named(ss[j]) \cap Named(ss[k]) = {}

\* C (6.8.1, 6.8.6.1): a function defines no label twice and each it goes to.
\* Written labels and those of the counter are spelled differently.
ASSUME LabelsAssumption ==
    /\ \A s \in Statements :
          /\ Named(s)  = IF s.kind = "label" THEN {s.of} ELSE NamedIn(s.sub)
          /\ Jumped(s) = IF s.kind = "goto" THEN {s.of} ELSE JumpedIn(s.sub)
          /\ Named(s) \cap Nat = {}
          /\ Unique(s.sub)
    /\ \A b \in Bodies : Unique(b) /\ JumpedIn(b) \subseteq NamedIn(b)

VARIABLES todo,       \* what is still to be compiled
          breaks,     \* state->break_stack, innermost last
          continues,  \* state->continue_stack
          switches,   \* state->switch_stack: the cases met and the default
          labels,     \* state->label_counter
          code        \* the instructions emitted

compiler == <<todo, breaks, continues, switches, labels, code>>

-----------------------------------------------------------------------------
(* tacc_cg_compile_stmt: what each statement is compiled to.  n is the      *)
(* label counter.                                                          *)

Instr(op, of, label) == [op |-> op, of |-> of, label |-> label]
Item(what, of)       == [do |-> what, of |-> of]

Emit(op, of, label) == Item("emit", Instr(op, of, label))
Label(l)   == Emit("label", 0, l)
Jump(l)    == Emit("jmp", 0, l)
Effect(e)  == Emit("do", e, 0)
Compile(s) == Item("compile", s)
CompileAll(ss) == [k \in 1 .. Len(ss) |-> Compile(ss[k])]
Enter(b, c) == Item("enter", [break |-> b, continue |-> c])
Leave(c)    == Item("leave", c)

\* An optional expression of a for statement.
Optional(e, items) == IF e = "none" THEN <<>> ELSE items

\* A loop body between its break and continue labels.
Body(s, b, c) == <<Enter(b, c), Compile(s.sub[1]), Leave(TRUE)>>

\* Mutation: without an else the end of the if gets no label.
BugPlanIf(s, n) ==
    <<Emit("jz", s.of, n + 1), Compile(s.sub[1]), Jump(n + 2), Label(n + 1)>>
    \o (IF Len(s.sub) = 2 THEN <<Compile(s.sub[2]), Label(n + 2)>> ELSE <<>>)

PlanIf(s, n) ==
    <<Emit("jz", s.of, n + 1), Compile(s.sub[1]), Jump(n + 2), Label(n + 1)>>
    \o (IF Len(s.sub) = 2 THEN <<Compile(s.sub[2])>> ELSE <<>>)
    \o <<Label(n + 2)>>

PlanWhile(s, n) ==
    <<Label(n + 1), Emit("jz", s.of, n + 2)>>
    \o Body(s, n + 2, n + 1)
    \o <<Jump(n + 1), Label(n + 2)>>

PlanDo(s, n) ==
    <<Label(n + 1)>> \o Body(s, n + 3, n + 2)
    \o <<Label(n + 2), Emit("jnz", s.of, n + 1), Label(n + 3)>>

\* Mutation: continue skips the expression after the body.
BugPlanFor(s, n) ==
    Optional(s.of.init, <<Effect(s.of.init)>>)
    \o <<Label(n + 1)>>
    \o Optional(s.of.cond, <<Emit("jz", s.of.cond, n + 2)>>)
    \o Body(s, n + 2, n + 3)
    \o Optional(s.of.after, <<Effect(s.of.after)>>)
    \o <<Label(n + 3), Jump(n + 1), Label(n + 2)>>

PlanFor(s, n) ==
    Optional(s.of.init, <<Effect(s.of.init)>>)
    \o <<Label(n + 1)>>
    \o Optional(s.of.cond, <<Emit("jz", s.of.cond, n + 2)>>)
    \o Body(s, n + 2, n + 3)
    \o <<Label(n + 3)>>
    \o Optional(s.of.after, <<Effect(s.of.after)>>)
    \o <<Jump(n + 1), Label(n + 2)>>

\* The controlling value is parked, the body follows, then the decision.
PlanSwitch(s, n) ==
    <<Emit("park", s.of, n + 1), Jump(n + 2)>>
    \o <<Item("switch", n + 1), Compile(s.sub[1]), Leave(FALSE)>>
    \o <<Jump(n + 1), Label(n + 2), Item("decide", n + 1), Label(n + 1)>>

\* break and continue go to the innermost label of their stack.
Plan(s, n) ==
    CASE s.kind = "null"     -> <<>>
      [] s.kind = "expr"     -> <<Effect(s.of)>>
      [] s.kind = "return"   -> <<Emit("ret", 0, 0)>>
      [] s.kind = "compound" -> CompileAll(s.sub)
      [] s.kind = "if"       -> PlanIf(s, n)
      [] s.kind = "while"    -> PlanWhile(s, n)
      [] s.kind = "do"       -> PlanDo(s, n)
      [] s.kind = "for"      -> PlanFor(s, n)
      [] s.kind = "switch"   -> PlanSwitch(s, n)
      [] s.kind = "break"    -> <<Jump(Last(breaks))>>
      [] s.kind = "continue" -> <<Jump(Last(continues))>>
      [] s.kind = "goto"     -> <<Emit("jmp", 0, s.of)>>
      [] s.kind = "label"    -> <<Emit("label", 0, s.of)>>
      [] s.kind \in {"case", "default"} ->
             <<Label(n + 1), Item(s.kind, [of |-> s.of, label |-> n + 1])>>

\* Labels a statement takes from the counter, at most.
Taken == 3

Begin(body) ==
    /\ todo = CompileAll(body)
    /\ breaks = <<>>
    /\ continues = <<>>
    /\ switches = <<>>
    /\ labels = 0
    /\ code = <<>>

Now(what) == todo # <<>> /\ Head(todo).do = what
Arg       == Head(todo).of
Advance   == todo' = Tail(todo)

\* The assertions that stop the compiler: a statement without its loop or switch.
Accepted(s) ==
    /\ s.kind = "break" => breaks # <<>>
    /\ s.kind = "continue" => continues # <<>>
    /\ s.kind \in {"case", "default"} => switches # <<>>

CompileStep ==
    /\ Now("compile") /\ Accepted(Arg)
    /\ todo' = Plan(Arg, labels) \o Tail(todo)
    /\ labels' = labels + Taken
    /\ UNCHANGED <<breaks, continues, switches, code>>

\* tacc_cg_output and the target's branches and labels
EmitStep ==
    /\ Now("emit")
    /\ code' = Append(code, Arg)
    /\ Advance
    /\ UNCHANGED <<breaks, continues, switches, labels>>

EnterLoop ==
    /\ Now("enter")
    /\ breaks' = Append(breaks, Arg.break)
    /\ continues' = Append(continues, Arg.continue)
    /\ Advance
    /\ UNCHANGED <<switches, labels, code>>

EnterSwitch ==
    /\ Now("switch")
    /\ breaks' = Append(breaks, Arg)
    /\ switches' = Append(switches, [cases |-> <<>>, default |-> 0])
    /\ Advance
    /\ UNCHANGED <<continues, labels, code>>

\* The end of a loop's (Arg) or a switch's body.
LeaveStep ==
    /\ Now("leave")
    /\ breaks' = Front(breaks)
    /\ continues' = IF Arg THEN Front(continues) ELSE continues
    /\ Advance
    /\ UNCHANGED <<switches, labels, code>>

CaseStep ==
    /\ \/ /\ Now("case")
          /\ switches' = [switches EXCEPT ![Len(switches)].cases = Append(@, Arg)]
       \/ /\ Now("default")
          /\ switches' = [switches EXCEPT ![Len(switches)].default = Arg.label]
    /\ Advance
    /\ UNCHANGED <<breaks, continues, labels, code>>

\* tacc_cg_end_switch: the parked value is compared with each case in turn,
\* then the default is taken.
DecideStep ==
    /\ Now("decide")
    /\ LET s == Last(switches) IN
         code' = code
             \o [k \in 1 .. Len(s.cases) |->
                    Instr("cmp", [at |-> Arg, is |-> s.cases[k].of],
                          s.cases[k].label)]
             \o (IF s.default = 0 THEN <<>> ELSE <<Instr("jmp", 0, s.default)>>)
    /\ switches' = Front(switches)
    /\ Advance
    /\ UNCHANGED <<breaks, continues, labels>>

CompileNext ==
    \/ CompileStep \/ EmitStep \/ EnterLoop \/ EnterSwitch \/ LeaveStep
    \/ CaseStep \/ DecideStep

CompileSpec == (\E b \in Bodies : Begin(b)) /\ [][CompileNext]_compiler

Compiled == todo = <<>>

-----------------------------------------------------------------------------
(* Properties *)

\* The assembler finds every label that is jumped to, once.
LabelsDefinedOnce ==
    Compiled =>
        \A p \in 1 .. Len(code) :
            code[p].op \in {"jmp", "jz", "jnz", "cmp"} =>
                \E q \in 1 .. Len(code) :
                    /\ code[q].op = "label" /\ code[q].label = code[p].label
                    /\ \A r \in 1 .. Len(code) :
                          code[r].op = "label" /\ code[r].label = code[p].label
                              => r = q
====
