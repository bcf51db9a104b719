---- MODULE MCExprCodegen ----
EXTENDS ExprMeaning

CONSTANTS x, ptr, fun, junk

MCData == {x, ptr}
MCInts == {0, 1, 2}
MCVal  == MCInts \cup {x, ptr, fun, junk}

\* Arithmetic modulo 3, division by zero included; junk in, junk out.  Only
\* equality is defined for addresses.
MCFn(op, a, b) ==
    IF junk \in {a, b} THEN junk
    ELSE IF op = "ne" THEN IF a # b THEN 1 ELSE 0
    ELSE IF op = "eq" THEN IF a = b THEN 1 ELSE 0
    ELSE IF ~({a, b} \subseteq MCInts) THEN junk
    ELSE CASE op = "sub" -> (a + 3 - b) % 3
           [] op = "shl" -> IF b = 0 THEN a ELSE 0
           [] op = "div" -> IF b = 0 THEN 2 ELSE a \div b
           [] op = "rem" -> IF b = 0 THEN 1 ELSE a % b
           [] OTHER      -> (a + b) % 3

\* The callee adds one to its first argument, also stores that in x.
Next3(v) == IF v \in MCInts THEN (v + 1) % 3 ELSE junk
MCReturns(args) == IF args = <<>> THEN 1 ELSE Next3(args[1])
MCEffect(args, m) == [m EXCEPT ![x] = MCReturns(args)]

MCMemories == {[d \in MCData |-> IF d = ptr THEN x ELSE v] : v \in {0, 2}}

-----------------------------------------------------------------------------
RECURSIVE MCDepth(_)
MCDepth(e) == 1 + FoldLeft(LAMBDA d, o : IF MCDepth(o) > d THEN MCDepth(o) ELSE d, 0, e.ops)

Lit(v) == Node("const", v, <<>>)
X     == Node("ident", x, <<>>)
P     == Node("ident", ptr, <<>>)
AddrX == Node("addrof", x, <<>>)
Fun   == Node("addrof", fun, <<>>)

Leaves == {Lit(2), X}
Some   == Leaves \cup {Node("deref", 0, <<P>>)}

Un(kinds, S)    == {Node(k, 0, <<a>>) : k \in kinds, a \in S}
Bin(ops, S, T)  == {Node("binary", o, <<a, b>>) : o \in ops, a \in S, b \in T}
Comma(S, T)     == {Node("comma", 0, <<a, b>>) : a \in S, b \in T}
Assign(L, S)    == {Node("assign", 0, <<a, b>>) : a \in L, b \in S}
Calls(kind, S)   == {Node(kind, 0, <<Fun>>)}
                   \cup {Node(kind, 0, <<Fun, a>>) : a \in S}
                   \cup {Node(kind, 0, <<Fun, a, b>>) : a \in S, b \in S}
Shortcut(S, T)   == {Node(k, 0, <<a, b>>) : k \in {"and", "or"}, a \in S, b \in T}

Ops == {"sub", "div", "rem", "shl"}

\* Expressions without && and ||, one and two operators deep.
Plain1 ==
    Some \cup Un({"neg", "not", "bnot", "bool", "cast"}, {X})
         \cup Bin(Ops, Leaves, Leaves) \cup Comma({Lit(2)}, {X})
         \cup Assign({AddrX, P}, Leaves) \cup Calls("call", Leaves)
Plain2 ==
    Plain1 \cup Bin(Ops, Plain1, Plain1)
           \cup Assign({AddrX, P}, Plain1)
           \cup Comma(Calls("voidcall", Leaves), Plain1)
           \cup Un({"neg", "not", "bool"}, Plain1)
           \cup {Node("call", 0, <<Fun, a, b>>) : a \in Plain1, b \in Some}
           \cup {Node("call", 0, <<Fun, b, a>>) : a \in Plain1, b \in Some}

\* && and || where no other value is pending: as the whole expression, as the
\* operand that is compiled first, or below another && or ||.
Logic1 == Shortcut(Plain1, Plain1)
Logic2 == Logic1 \cup Shortcut(Shortcut(Leaves, Some), Plain1)
                 \cup Shortcut(Some, Shortcut(Leaves, Calls("call", Leaves)))
                 \cup Un({"not", "bool", "cast"}, Shortcut(Leaves, Plain1))
                 \cup Bin(Ops, Shortcut(Leaves, Plain1), Leaves)
                 \cup Comma(Shortcut(Leaves, Plain1), {X})

MCExprs == Plain2 \cup Logic2

\* && and || while another value is pending.
MCExprsPending ==
    Assign({AddrX}, Shortcut(Leaves, Plain1)) \cup Bin({"sub"}, {X}, Logic1)

\* Every operand of these, and of those.
MCOperands ==
    Plain1 \cup {Fun, AddrX, P} \cup Calls("voidcall", Leaves)
           \cup Logic1 \cup Shortcut(Leaves, Calls("call", Leaves))

\* The runs tell these apart, and every expression of either is defined.
ASSUME AloneWhereExpected ==
    \A e \in Exprs : (e \in MCExprs => Alone(e)) /\ (e \in MCExprsPending => ~Alone(e))
ASSUME DefinedExpressions ==
    \A e \in Exprs, m \in Memories : Meaning[e][m].ok
====
