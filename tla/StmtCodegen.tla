---- MODULE StmtCodegen ----
(***************************************************************************)
(* Statements: how parse.c splits a function body into statements, and     *)
(* what the code StmtCompile makes of them does.  A bounded program is     *)
(* parsed and compiled, then the code and the program run side by side:    *)
(* the code by jumping, the program by a continuation, the statements that *)
(* remain to be executed.  Tests and switches take any outcome, the same   *)
(* on both sides.                                                          *)
(***************************************************************************)
EXTENDS StmtCompile

CONSTANTS Programs,  \* the function bodies, lists of statements of C
          Values,    \* outcomes of a switch's controlling expression
          Fuel       \* bound on jumps between two effects

VARIABLES prog,       \* the program
          pc, saved,  \* the machine: where it is, parked switch values
          rest        \* the program: what remains to be executed

vars == <<prog, todo, breaks, continues, switches, labels, code, pc, saved, rest>>

-----------------------------------------------------------------------------
(* tacc_parse_statement: the statements it returns, call by call, for one   *)
(* statement of C.  A label, case or default is a statement by itself.      *)

RECURSIVE Parse(_)
ParseAll(ss) == FlattenSeq([k \in 1 .. Len(ss) |-> Parse(ss[k])])

\* A body is one statement; what the parser returns next is no part of it.
ParseBody(s) ==
    LET bodies == [k \in 1 .. Len(s.sub) |-> Parse(s.sub[k])]
    IN  <<Node(s.kind, s.of, [k \in 1 .. Len(s.sub) |-> Head(bodies[k])])>>
        \o Tail(Last(bodies))

Parse(s) ==
    CASE s.kind = "labelled" -> <<s.of>> \o Parse(s.sub[1])
      [] s.kind = "compound" -> <<Node("compound", s.of, ParseAll(s.sub))>>
      [] s.kind \in Loops \cup {"if", "switch"} -> ParseBody(s)
      [] OTHER               -> <<s>>

ASSUME ParsedAssumption == {ParseAll(p) : p \in Programs} \subseteq Bodies

Init ==
    /\ prog \in Programs
    /\ Begin(ParseAll(prog))
    /\ pc = 1
    /\ saved = [l \in {} |-> 0]
    /\ rest = prog

-----------------------------------------------------------------------------
(* The machine: jumps until the next effect.  An event is what the outside  *)
(* can tell: an expression evaluated, a test, a switch, a return, the end   *)
(* of the body, or nothing any more.                                        *)

Position(l) == CHOOSE p \in 1 .. Len(code) :
                  code[p].op = "label" /\ code[p].label = l

\* Where an instruction without effect leads.
Follow(p) ==
    CASE code[p].op = "label" -> p + 1
      [] code[p].op = "jmp"   -> Position(code[p].label)
      [] code[p].op = "cmp"   ->
             IF saved[code[p].of.at] = code[p].of.is
             THEN Position(code[p].label) ELSE p + 1

Silent(p) == p <= Len(code) /\ code[p].op \in {"label", "jmp", "cmp"}

RECURSIVE Settle(_, _)
Settle(p, fuel) ==
    IF Silent(p) /\ fuel > 0 THEN Settle(Follow(p), fuel - 1) ELSE p

At == Settle(pc, Fuel)

MachineEvent ==
    IF At > Len(code) THEN <<"end">>
    ELSE CASE Silent(At) -> <<"spin">>
           [] code[At].op = "do" -> <<"do", code[At].of>>
           [] code[At].op \in {"jz", "jnz"} -> <<"test", code[At].of>>
           [] code[At].op = "park" -> <<"switch", code[At].of>>
           [] code[At].op = "ret" -> <<"ret">>

-----------------------------------------------------------------------------
(* The program: C's meaning of statements, by continuations.  A loop or a   *)
(* switch being executed leaves a marker behind its body.                   *)

Again(s) == Node("again", s, <<>>)
Done     == Node("done", 0, <<>>)

\* What remains after a label: its place in the statement s, which is itself
\* followed by k.  A case belongs to the innermost switch.
RECURSIVE After(_, _, _)
AfterIn(ss, k, l) ==
    UNION {After(ss[j], SubSeq(ss, j + 1, Len(ss)) \o k, l) : j \in 1 .. Len(ss)}
After(s, k, l) ==
    CASE s.kind = "labelled" ->
             IF s.of = l THEN {s.sub \o k} ELSE After(s.sub[1], k, l)
      [] s.kind \in LabelKinds -> IF s = l THEN {k} ELSE {}
      [] s.kind = "compound"   -> AfterIn(s.sub, k, l)
      [] s.kind = "if"         -> UNION {After(t, k, l) : t \in ToSet(s.sub)}
      [] s.kind \in Loops      -> After(s.sub[1], <<Again(s)>> \o k, l)
      [] s.kind = "switch"     ->
             IF l.kind = "label" THEN After(s.sub[1], <<Done>> \o k, l) ELSE {}
      [] OTHER                 -> {}

\* Where a switch on v goes.
Selected(s, v, k) ==
    LET at(l) == After(s.sub[1], <<Done>> \o k, l)
        hit   == at(Node("case", v, <<>>))
        other == at(Node("default", 0, <<>>))
    IN  IF hit # {} THEN CHOOSE r \in hit : TRUE
        ELSE IF other # {} THEN CHOOSE r \in other : TRUE ELSE k

\* What remains from the first marker of one of the kinds on.
From(k, kinds) == SubSeq(k, SelectInSeq(k, LAMBDA s : s.kind \in kinds), Len(k))

\* The second half of a loop, and the test of a do or for.
Round(s) == Node("round", s, <<>>)

\* One statement that has no effect itself.
Unfold(k) ==
    LET s == Head(k)
        t == Tail(k)
    IN
    CASE s.kind \in LabelKinds \cup {"null", "done"} -> t
      [] s.kind = "labelled" -> s.sub \o t
      [] s.kind = "compound" -> s.sub \o t
      [] s.kind = "goto"     ->
             CHOOSE r \in AfterIn(prog, <<>>, Node("label", s.of, <<>>)) : TRUE
      [] s.kind = "break"    -> Tail(From(k, {"again", "done"}))
      [] s.kind = "continue" -> From(k, {"again"})
      [] s.kind = "while"    -> <<Round(s)>> \o t
      [] s.kind = "do"       -> s.sub \o <<Again(s)>> \o t
      [] s.kind = "for"      ->
             Optional(s.of.init, <<Node("expr", s.of.init, <<>>)>>)
             \o <<Round(s)>> \o t
      [] s.kind = "again"    ->
             (IF s.of.kind = "for"
              THEN Optional(s.of.of.after, <<Node("expr", s.of.of.after, <<>>)>>)
              ELSE <<>>)
             \o <<Round(s.of)>> \o t
      [] s.kind = "round"    -> \* of a for without a test
             s.of.sub \o <<Again(s.of)>> \o t

NoTest(s)  == s.kind = "round" /\ s.of.kind = "for" /\ s.of.of.cond = "none"
Effects    == {"expr", "if", "switch", "return", "round"}
Unobserved(k) == k # <<>> /\ (Head(k).kind \notin Effects \/ NoTest(Head(k)))

RECURSIVE Reduce(_, _)
Reduce(k, fuel) ==
    IF Unobserved(k) /\ fuel > 0 THEN Reduce(Unfold(k), fuel - 1) ELSE k

Reduced == Reduce(rest, Fuel)

TestOf(s) == IF s.kind = "if" THEN s.of
             ELSE IF s.of.kind = "for" THEN s.of.of.cond ELSE s.of.of

ProgramEvent ==
    IF Reduced = <<>> THEN <<"end">>
    ELSE IF Unobserved(Reduced) THEN <<"spin">>
    ELSE LET s == Head(Reduced) IN
         CASE s.kind = "expr"     -> <<"do", s.of>>
           [] s.kind \in {"if", "round"} -> <<"test", TestOf(s)>>
           [] s.kind = "switch"   -> <<"switch", s.of>>
           [] s.kind = "return"   -> <<"ret">>

\* What remains when the test of s came out as b.
Tested(s, b, k) ==
    IF s.kind = "if"
    THEN (IF b THEN <<s.sub[1]>> ELSE IF Len(s.sub) = 2 THEN <<s.sub[2]>> ELSE <<>>) \o k
    ELSE IF b THEN s.of.sub \o <<Again(s.of)>> \o k ELSE k

-----------------------------------------------------------------------------
(* Both run together *)

Static == UNCHANGED <<prog, compiler>>

Agree == MachineEvent = ProgramEvent

RunEffect ==
    /\ Compiled /\ Agree
    /\ MachineEvent[1] = "do"
    /\ pc' = At + 1
    /\ rest' = Tail(Reduced)
    /\ UNCHANGED saved
    /\ Static

RunTest ==
    /\ Compiled /\ Agree
    /\ MachineEvent[1] = "test"
    /\ \E b \in BOOLEAN :
        /\ pc' = IF b = (code[At].op = "jnz") THEN Position(code[At].label)
                                              ELSE At + 1
        /\ rest' = Tested(Head(Reduced), b, Tail(Reduced))
    /\ UNCHANGED saved
    /\ Static

RunSwitch ==
    /\ Compiled /\ Agree
    /\ MachineEvent[1] = "switch"
    /\ \E v \in Values :
        /\ saved' = [l \in DOMAIN saved \cup {code[At].label} |->
                        IF l = code[At].label THEN v ELSE saved[l]]
        /\ rest' = Selected(Head(Reduced), v, Tail(Reduced))
    /\ pc' = At + 1
    /\ Static

Next ==
    \/ CompileNext /\ UNCHANGED <<prog, pc, saved, rest>>
    \/ RunEffect \/ RunTest \/ RunSwitch

Spec == Init /\ [][Next]_vars

-----------------------------------------------------------------------------
(* Properties *)

\* After every history of effects, tests and switches the code does next what
\* the program does next: break, continue, goto, fallthrough and default reach
\* the right statement from inside any nesting of loops and switches.
CodeFollowsProgram == Compiled => Agree
====
