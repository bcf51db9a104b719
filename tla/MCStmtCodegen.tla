---- MODULE MCStmtCodegen ----
(***************************************************************************)
(* Function bodies for StmtCodegen: every loop around every jump, switches *)
(* in loops and loops in switches, case labels and goto targets inside a   *)
(* loop.                                                                   *)
(***************************************************************************)
EXTENDS StmtCodegen

CONSTANTS Out, In  \* names of labels

Expr(e)      == Node("expr", e, <<>>)
Block(ss)    == Node("compound", 0, ss)
Plain(k)     == Node(k, 0, <<>>)
If(c, t)     == Node("if", c, <<t>>)
IfElse(c, t, u) == Node("if", c, <<t, u>>)
Switch(e, b) == Node("switch", e, <<b>>)
Goto(l)      == Node("goto", l, <<>>)
Name(l)      == Node("label", l, <<>>)
CaseOf(v)    == Node("case", v, <<>>)
Default      == Node("default", 0, <<>>)
Labelled(l, s) == Node("labelled", l, <<s>>)

\* for (init; cond; after), each present or not
ForParts == [init : {"none", "i"}, cond : {"none", "c"}, after : {"none", "a"}]

\* The loops with test c around the body b.
LoopsOf(c, b) ==
    {Node("while", c, <<b>>), Node("do", c, <<b>>)}
    \cup {Node("for", [p EXCEPT !.cond = IF @ = "c" THEN c ELSE @], <<b>>) :
             p \in ForParts}

\* The same, one for each kind.
KindsOf(c, b) ==
    {Node("while", c, <<b>>), Node("do", c, <<b>>),
     Node("for", [init |-> "i", cond |-> c, after |-> "a"], <<b>>)}

Jumps == {Plain("break"), Plain("continue"), Plain("return"), Plain("null")}

\* A jump taken at once, on a condition, or on its negation.
Taking(j) == {j, If("t", j), IfElse("t", Expr("u"), j)}

LoopBodies == {Block(<<Expr("x"), t, Expr("y")>>) : t \in UNION {Taking(j) : j \in Jumps}}

OneLoop == UNION {LoopsOf("c", b) : b \in LoopBodies}

\* A jump in the inner loop and one behind it, in the outer.
NestedLoops ==
    UNION {KindsOf("c", Block(<<inner, Expr("x"), If("s", j)>>)) :
             inner \in UNION {KindsOf("d", Block(<<If("t", i), Expr("y")>>)) :
                                i \in {Plain("break"), Plain("continue")}},
             j \in {Plain("break"), Plain("continue")}}

\* The cases of a switch in either order, with and without a default, each
\* arm left by a break or falling through.  Outside a loop the compiler refuses
\* those with a continue.
Arm(l, e, j) == <<Labelled(l, Expr(e)), j>>
Switches ==
    {Switch("e", Block(a \o b)) :
        a \in {Arm(CaseOf(1), "x", j) : j \in {Plain("break"), Plain("null")}}
              \cup {Arm(Default, "x", j) : j \in {Plain("break"), Plain("null")}},
        b \in {Arm(CaseOf(2), "y", Plain("break")),
               Arm(CaseOf(2), "y", Plain("null")),
               Arm(CaseOf(2), "y", Plain("continue"))}}

SwitchInLoop ==
    UNION {KindsOf("c", Block(<<s, Expr("z")>>)) : s \in Switches}

\* The switch two loops deep, with a jump of the outer loop behind the inner.
SwitchInLoops ==
    UNION {KindsOf("c", Block(<<l, If("s", j)>>)) :
             l \in UNION {KindsOf("d", s) : s \in Switches},
             j \in {Plain("break"), Plain("continue")}}

\* A case label in the middle of a loop inside the switch, and two switches
\* one in the other with the same case values.
LoopInSwitch ==
    {Switch("e", Block(<<Labelled(CaseOf(1), Expr("x")), l, Expr("z"),
                         Labelled(Default, Expr("w"))>>)) :
       l \in KindsOf("c", Block(<<Expr("y"), Labelled(CaseOf(2), Expr("v")),
                                  If("t", Plain("break"))>>))}

SwitchInSwitch ==
    {Switch("e", Block(<<Labelled(CaseOf(1),
        Switch("f", Block(<<Labelled(CaseOf(1), Expr("x")), i,
                            Labelled(CaseOf(2), Expr("y"))>> \o d))), j,
        Labelled(CaseOf(2), Expr("z"))>>)) :
      i \in {Plain("break"), Plain("null")}, j \in {Plain("break"), Plain("null")},
      d \in {<<>>, <<Labelled(Default, Expr("w"))>>}}

\* goto out of two loops, into a loop, into a switch and back.
Gotos ==
    UNION {KindsOf("c", l) :
             l \in KindsOf("d", Block(<<If("t", Goto(Out)), Expr("x")>>))}
    \cup {Switch("e", Block(<<Labelled(CaseOf(1), Expr("x")),
                              Labelled(Name(In), Expr("y")), j,
                              Labelled(Default, Goto(In))>>)) :
             j \in {Plain("break"), Plain("null")}}
    \cup {Block(<<If("t", Goto(In)), l>>) :
             l \in KindsOf("c", Block(<<Expr("x"), Labelled(Name(In), Expr("y")),
                                        If("s", Plain("continue")), Expr("w")>>))}

MCPrograms ==
    {<<Expr("a"), s, Labelled(Name(Out), Expr("b"))>> :
        s \in OneLoop \cup NestedLoops \cup Switches \cup SwitchInLoop \cup SwitchInLoops
              \cup LoopInSwitch \cup SwitchInSwitch \cup Gotos}

MCBodies == {ParseAll(p) : p \in MCPrograms}

RECURSIVE Parts(_)
Parts(s) == {s} \cup UNION {Parts(t) : t \in ToSet(s.sub)}

MCStatements == UNION {Parts(s) : s \in UNION {ToSet(b) : b \in MCBodies}}

LabelsOf(s, kind) == {t.of : t \in {p \in Parts(s) : p.kind = kind}}

MCNamed(s)  == LabelsOf(s, "label")
MCJumped(s) == LabelsOf(s, "goto")
====
