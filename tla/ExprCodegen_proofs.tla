-------------------------- MODULE ExprCodegen_proofs --------------------------
(***************************************************************************)
(* Proofs about ExprCodegen and ExprMeaning, for every expression, however *)
(* deep.  The slot stack and the open && and || are balanced: what is still*)
(* to be compiled is a walk from the slots and labels there are now to none*)
(* of either.  The compiled code does what the expression means: what is   *)
(* still to be compiled is a path from the values, the memory and the calls*)
(* there are now to those the expression means, and every step of the      *)
(* compiler follows the path.                                              *)
(***************************************************************************)
EXTENDS ExprMeaning, Slots_proofs, SequenceTheorems, TLAPS

-----------------------------------------------------------------------------
(* Walks: what is still to be compiled takes the slots and the open labels *)
(* from one number to another.                                             *)

\* Item i, in a statement of use u, takes n slots to m and p open labels to q.
Step(u, i, n, p, m, q) ==
    \/ i.do = "compile" /\ i.of \in Exprs \cup Operands /\ m = n + 1 /\ q = p
    \/ i.do = "load" /\ m = n + 1 /\ q = p
    \/ i.do = "dup" /\ n >= 1 /\ m = n + 1 /\ q = p
    \/ i.do \in {"deref", "convert"} /\ n >= 1 /\ m = n /\ q = p
    \/ i.do = "swap" /\ n >= 2 /\ m = n /\ q = p
    \/ i.do = "rot" /\ n >= 3 /\ m = n /\ q = p
    \/ i.do = "binary" /\ n >= 2 /\ m = n - 1 /\ q = p
    \/ i.do = "pop" /\ n >= 1 /\ m = n - 1 /\ q = p
    \/ i.do = "store" /\ n >= 2 /\ m = n - 2 /\ q = p
    \/ i.do \in CallKinds /\ i.of \in Nat /\ n >= i.of + 1 /\ m = n - i.of /\ q = p
    \/ i.do = "branch" /\ n >= 1 /\ m = n - 1 /\ q = p + 1
    \/ i.do = "join" /\ n >= 1 /\ m = n /\ p >= 1 /\ q = p - 1
    \/ i.do = "end" /\ i.of = u /\ u = "statement" /\ m = n /\ q = p
    \/ i.do = "end" /\ i.of = u /\ u # "statement" /\ n >= 1 /\ m = n - 1 /\ q = p

\* h slots and g open labels before each item of t, and behind the last.
Walk(u, t, h, g) ==
    /\ h \in [1 .. Len(t) + 1 -> Nat]
    /\ g \in [1 .. Len(t) + 1 -> Nat]
    /\ \A k \in 1 .. Len(t) : Step(u, t[k], h[k], g[k], h[k + 1], g[k + 1])

IsList(t) == \E S : t \in Seq(S)

Leads(u, t, n, p, m, q) ==
    /\ IsList(t)
    /\ \E h, g : /\ Walk(u, t, h, g)
                 /\ h[1] = n /\ g[1] = p
                 /\ h[Len(t) + 1] = m /\ g[Len(t) + 1] = q

\* A walk that has not ended takes a step.
LEMMA Onward ==
    ASSUME NEW u, NEW t, t # <<>>, NEW n, NEW p, NEW m, NEW q, Leads(u, t, n, p, m, q)
    PROVE  /\ n \in Nat /\ p \in Nat
           /\ \E k, l \in Nat : /\ Step(u, Head(t), n, p, k, l)
                                /\ Leads(u, Tail(t), k, l, m, q)
<1>1. PICK S : t \in Seq(S)
  BY DEF Leads, IsList
<1>2. Len(t) \in Nat \ {0} /\ Tail(t) \in Seq(S) /\ Len(Tail(t)) = Len(t) - 1
      /\ Head(t) = t[1] /\ \A k \in 1 .. Len(Tail(t)) : Tail(t)[k] = t[k + 1]
  BY <1>1
<1>3. PICK h, g : /\ Walk(u, t, h, g)
                  /\ h[1] = n /\ g[1] = p
                  /\ h[Len(t) + 1] = m /\ g[Len(t) + 1] = q
  BY DEF Leads
<1>4. n \in Nat /\ p \in Nat /\ h[2] \in Nat /\ g[2] \in Nat
  BY <1>2, <1>3, SMTT(30) DEF Walk
<1>5. Step(u, Head(t), n, p, h[2], g[2])
  BY <1>2, <1>3 DEF Walk
<1> DEFINE v == [k \in 1 .. Len(Tail(t)) + 1 |-> h[k + 1]]
           w == [k \in 1 .. Len(Tail(t)) + 1 |-> g[k + 1]]
<1>6. Walk(u, Tail(t), v, w)
  <2>1. v \in [1 .. Len(Tail(t)) + 1 -> Nat] /\ w \in [1 .. Len(Tail(t)) + 1 -> Nat]
    BY <1>2, <1>3 DEF Walk
  <2>2. ASSUME NEW k \in 1 .. Len(Tail(t))
        PROVE  Step(u, Tail(t)[k], v[k], w[k], v[k + 1], w[k + 1])
    <3>1. k + 1 \in 1 .. Len(t) /\ k \in 1 .. Len(Tail(t)) + 1 /\ k + 1 \in 1 .. Len(Tail(t)) + 1
      BY <1>2
    <3>2. v[k] = h[k + 1] /\ w[k] = g[k + 1] /\ v[k + 1] = h[k + 1 + 1] /\ w[k + 1] = g[k + 1 + 1]
      BY <3>1
    <3>3. Step(u, t[k + 1], h[k + 1], g[k + 1], h[k + 1 + 1], g[k + 1 + 1])
      BY <1>3, <3>1 DEF Walk
    <3> HIDE DEF v, w
    <3> QED BY <1>2, <3>2, <3>3
  <2> HIDE DEF v, w
  <2> QED BY <2>1, <2>2 DEF Walk
<1>7. /\ v[1] = h[2] /\ w[1] = g[2]
      /\ v[Len(Tail(t)) + 1] = m /\ w[Len(Tail(t)) + 1] = q
  BY <1>2, <1>3
<1>8. Leads(u, Tail(t), h[2], g[2], m, q)
  <2> HIDE DEF v, w
  <2> QED BY <1>2, <1>6, <1>7 DEF Leads, IsList
<1> QED BY <1>4, <1>5, <1>8

\* One walk after another.
LEMMA Further ==
    ASSUME NEW u, NEW s, NEW t, NEW n, NEW p, NEW k, NEW l, NEW m, NEW q,
           Leads(u, s, n, p, k, l), Leads(u, t, k, l, m, q)
    PROVE  Leads(u, s \o t, n, p, m, q)
<1>1. PICK S : s \in Seq(S)
  BY DEF Leads, IsList
<1>2. PICK T : t \in Seq(T)
  BY DEF Leads, IsList
<1>3. s \in Seq(S \cup T) /\ t \in Seq(S \cup T)
  BY <1>1, <1>2
<1>4. s \o t \in Seq(S \cup T)
  BY <1>3
<1> DEFINE a == Len(s)
           b == Len(t)
<1>5. /\ a \in Nat /\ b \in Nat /\ Len(s \o t) = a + b
      /\ \A j \in 1 .. a + b : (s \o t)[j] = IF j <= a THEN s[j] ELSE t[j - a]
  BY <1>3
<1>6. PICK h, g : /\ Walk(u, s, h, g)
                  /\ h[1] = n /\ g[1] = p /\ h[a + 1] = k /\ g[a + 1] = l
  BY DEF Leads
<1>7. PICK v, w : /\ Walk(u, t, v, w)
                  /\ v[1] = k /\ w[1] = l /\ v[b + 1] = m /\ w[b + 1] = q
  BY DEF Leads
<1> DEFINE x == [j \in 1 .. a + b + 1 |-> IF j <= a THEN h[j] ELSE v[j - a]]
           y == [j \in 1 .. a + b + 1 |-> IF j <= a THEN g[j] ELSE w[j - a]]
<1>8. /\ h \in [1 .. a + 1 -> Nat] /\ g \in [1 .. a + 1 -> Nat]
      /\ v \in [1 .. b + 1 -> Nat] /\ w \in [1 .. b + 1 -> Nat]
  BY <1>6, <1>7 DEF Walk
<1>9. x \in [1 .. a + b + 1 -> Nat] /\ y \in [1 .. a + b + 1 -> Nat]
  <2> HIDE DEF a, b
  <2> QED BY <1>5, <1>8
<1>10. ASSUME NEW j \in 1 .. a + b
       PROVE  Step(u, (s \o t)[j], x[j], y[j], x[j + 1], y[j + 1])
  <2>1. CASE j < a
    <3>1. j \in 1 .. a /\ j + 1 <= a /\ j \in 1 .. a + b + 1 /\ j + 1 \in 1 .. a + b + 1
      BY <1>5, <2>1
    <3>2. x[j] = h[j] /\ y[j] = g[j] /\ x[j + 1] = h[j + 1] /\ y[j + 1] = g[j + 1]
      BY <3>1
    <3>3. Step(u, s[j], h[j], g[j], h[j + 1], g[j + 1])
      BY <1>6, <3>1 DEF Walk
    <3>4. (s \o t)[j] = s[j]
      BY <1>5, <3>1
    <3> HIDE DEF x, y
    <3> QED BY <3>2, <3>3, <3>4
  <2>2. CASE j = a
    <3>1. j \in 1 .. a /\ ~(j + 1 <= a) /\ j \in 1 .. a + b + 1 /\ j + 1 \in 1 .. a + b + 1
          /\ (j + 1) - a = 1
      BY <1>5, <2>2
    <3>2. x[j] = h[j] /\ y[j] = g[j] /\ x[j + 1] = v[(j + 1) - a] /\ y[j + 1] = w[(j + 1) - a]
      BY <3>1
    <3>3. Step(u, s[j], h[j], g[j], h[j + 1], g[j + 1])
      BY <1>6, <3>1 DEF Walk
    <3>4. (s \o t)[j] = s[j]
      BY <1>5, <3>1
    <3>5. v[(j + 1) - a] = h[j + 1] /\ w[(j + 1) - a] = g[j + 1]
      BY <1>6, <1>7, <2>2, <3>1
    <3> HIDE DEF x, y
    <3> QED BY <3>2, <3>3, <3>4, <3>5
  <2>3. CASE j > a
    <3>1. j - a \in 1 .. b /\ ~(j <= a) /\ ~(j + 1 <= a) /\ (j + 1) - a = (j - a) + 1
          /\ j \in 1 .. a + b + 1 /\ j + 1 \in 1 .. a + b + 1
      BY <1>5, <2>3
    <3>2. /\ x[j] = v[j - a] /\ y[j] = w[j - a]
          /\ x[j + 1] = v[(j + 1) - a] /\ y[j + 1] = w[(j + 1) - a]
      BY <3>1
    <3>3. Step(u, t[j - a], v[j - a], w[j - a], v[(j - a) + 1], w[(j - a) + 1])
      BY <1>7, <3>1 DEF Walk
    <3>4. (s \o t)[j] = t[j - a]
      BY <1>5, <3>1
    <3> HIDE DEF x, y
    <3> QED BY <3>1, <3>2, <3>3, <3>4
  <2> QED BY <1>5, <2>1, <2>2, <2>3
<1>11. Walk(u, s \o t, x, y)
  <2> HIDE DEF x, y, a, b
  <2> QED BY <1>5, <1>9, <1>10 DEF Walk
<1>12. x[1] = n /\ y[1] = p /\ x[a + b + 1] = m /\ y[a + b + 1] = q
  <2>1. CASE a = 0
    BY <1>5, <1>6, <1>7, <2>1
  <2>2. CASE a > 0
    BY <1>5, <1>6, <1>7, <2>2
  <2> QED BY <1>5, <2>1, <2>2
<1> HIDE DEF x, y, a, b
<1> QED BY <1>4, <1>5, <1>11, <1>12 DEF Leads, IsList

\* A walk of one step.
LEMMA OneStep ==
    ASSUME NEW u, NEW i, NEW n \in Nat, NEW p \in Nat, NEW m \in Nat, NEW q \in Nat,
           Step(u, i, n, p, m, q)
    PROVE  Leads(u, <<i>>, n, p, m, q)
<1> DEFINE h == <<n, m>>
           g == <<p, q>>
<1>1. <<i>> \in Seq({i}) /\ Len(<<i>>) = 1 /\ <<i>>[1] = i
  OBVIOUS
<1>2. h \in [1 .. 2 -> Nat] /\ g \in [1 .. 2 -> Nat] /\ h[1] = n /\ h[2] = m /\ g[1] = p /\ g[2] = q
  OBVIOUS
<1> HIDE DEF h, g
<1>3. Walk(u, <<i>>, h, g)
  BY <1>1, <1>2 DEF Walk
<1>4. IsList(<<i>>) /\ Len(<<i>>) + 1 = 2
  <2>1. IsList(<<i>>)
    BY ONLY <1>1, Zenon DEF IsList
  <2> QED BY <1>1, <2>1
<1>5. \E v, w : Walk(u, <<i>>, v, w) /\ v[1] = n /\ w[1] = p /\ v[2] = m /\ w[2] = q
  BY <1>2, <1>3
<1> HIDE DEF h, g
<1> QED BY <1>4, <1>5 DEF Leads

\* One step more in front of a walk.
LEMMA Before ==
    ASSUME NEW u, NEW S, NEW t \in Seq(S), t # <<>>, NEW n \in Nat, NEW p \in Nat,
           NEW k \in Nat, NEW l \in Nat, NEW m, NEW q,
           Step(u, Head(t), n, p, k, l), Leads(u, Tail(t), k, l, m, q)
    PROVE  Leads(u, t, n, p, m, q)
<1> DEFINE s == <<Head(t)>> \o Tail(t)
<1>2. Head(t) \in S /\ Tail(t) \in Seq(S) /\ Head(t) = t[1]
      /\ Len(t) \in Nat /\ Len(Tail(t)) = Len(t) - 1
      /\ \A j \in 1 .. Len(t) - 1 : Tail(t)[j] = t[j + 1]
  OBVIOUS
<1>3. s \in Seq(S) /\ Len(s) = Len(t) /\ \A j \in 1 .. Len(t) : s[j] = t[j]
  BY <1>2
<1>4. s = t
  <2> HIDE DEF s
  <2> QED BY <1>3
<1>5. Leads(u, <<Head(t)>>, n, p, k, l)
  BY OneStep
<1>6. Leads(u, s, n, p, m, q)
  BY <1>5, Further
<1> HIDE DEF s
<1> QED BY <1>4, <1>6

\* Two, three steps
LEMMA TwoSteps ==
    ASSUME NEW u, NEW a, NEW b, NEW n \in Nat, NEW p \in Nat, NEW k \in Nat, NEW l \in Nat,
           NEW m \in Nat, NEW q \in Nat,
           Step(u, a, n, p, k, l), Step(u, b, k, l, m, q)
    PROVE  Leads(u, <<a, b>>, n, p, m, q)
<1>1. Leads(u, <<b>>, k, l, m, q)
  BY OneStep
<1> DEFINE t == <<a, b>>
           S == {a, b}
<1>2. t \in Seq(S) /\ t # <<>> /\ Head(t) = a /\ Tail(t) = <<b>>
  OBVIOUS
<1> HIDE DEF t, S
<1>3. Leads(u, Tail(t), k, l, m, q) /\ Step(u, Head(t), n, p, k, l)
  BY <1>1, <1>2
<1>4. Leads(u, t, n, p, m, q)
  BY <1>2, <1>3, Before
<1> QED BY <1>4 DEF t

LEMMA ThreeSteps ==
    ASSUME NEW u, NEW a, NEW b, NEW c, NEW n \in Nat, NEW p \in Nat, NEW k \in Nat,
           NEW l \in Nat, NEW i \in Nat, NEW j \in Nat, NEW m \in Nat, NEW q \in Nat,
           Step(u, a, n, p, k, l), Step(u, b, k, l, i, j), Step(u, c, i, j, m, q)
    PROVE  Leads(u, <<a, b, c>>, n, p, m, q)
<1>1. Leads(u, <<b, c>>, k, l, m, q)
  BY TwoSteps
<1> DEFINE t == <<a, b, c>>
           S == {a, b, c}
<1>2. t \in Seq(S) /\ t # <<>> /\ Head(t) = a /\ Tail(t) = <<b, c>>
  OBVIOUS
<1> HIDE DEF t, S
<1>3. Leads(u, Tail(t), k, l, m, q) /\ Step(u, Head(t), n, p, k, l)
  BY <1>1, <1>2
<1>4. Leads(u, t, n, p, m, q)
  BY <1>2, <1>3, Before
<1> QED BY <1>4 DEF t

-----------------------------------------------------------------------------
(* Plans: what an expression is compiled to leaves one slot more.          *)

Yields(u, t) == \A n, p \in Nat : Leads(u, t, n, p, n + 1, p)

LEMMA LeafYields ==
    ASSUME NEW u, NEW e PROVE Yields(u, PlanLeaf(e))
<1> SUFFICES ASSUME NEW n \in Nat, NEW p \in Nat
             PROVE  Leads(u, PlanLeaf(e), n, p, n + 1, p)
  BY DEF Yields
<1> DEFINE a == Const(e.of)
           b == Do("deref", 0)
<1>1. Step(u, a, n, p, n + 1, p) /\ Step(u, b, n + 1, p, n + 1, p)
  BY DEF Step, Const, Do, CallKinds
<1>2. PlanLeaf(e) \in {<<a, b>>, <<a>>}
  BY DEF PlanLeaf
<1> HIDE DEF a, b
<1>3. Leads(u, <<a>>, n, p, n + 1, p) /\ Leads(u, <<a, b>>, n, p, n + 1, p)
  BY <1>1, OneStep, TwoSteps
<1> QED BY <1>2, <1>3

LEMMA UnaryYields ==
    ASSUME NEW u, NEW e, e.ops[1] \in Exprs \cup Operands, e.kind \in UnaryKinds
    PROVE  Yields(u, PlanUnary(e))
<1> SUFFICES ASSUME NEW n \in Nat, NEW p \in Nat
             PROVE  Leads(u, PlanUnary(e), n, p, n + 1, p)
  BY DEF Yields
<1> DEFINE op == Compile(e.ops[1])
           Same1(i) == Step(u, i, n + 1, p, n + 1, p)
<1>1. Step(u, op, n, p, n + 1, p) /\ Step(u, op, n + 1, p, n + 2, p)
  BY DEF Step, Compile, Do, CallKinds
<1>2. ASSUME NEW v PROVE Step(u, Const(v), n, p, n + 1, p) /\ Step(u, Const(v), n + 1, p, n + 2, p)
  BY DEF Step, Const, Do, CallKinds
<1>3. ASSUME NEW o PROVE Step(u, Binary(o), n + 2, p, n + 1, p)
  BY DEF Step, Binary, Do, CallKinds
<1>4. Step(u, Do("deref", 0), n + 1, p, n + 1, p) /\ Step(u, Do("convert", 0), n + 1, p, n + 1, p)
  BY DEF Step, Do, CallKinds
<1> HIDE DEF op
<1>5. CASE e.kind = "deref"
  <2>1. PlanUnary(e) = <<op, Do("deref", 0)>>
    BY <1>5 DEF PlanUnary, op
  <2> QED BY <1>1, <1>4, <2>1, TwoSteps
<1>6. CASE e.kind = "cast"
  <2>1. PlanUnary(e) = <<op, Do("convert", 0)>>
    BY <1>6 DEF PlanUnary, op
  <2> QED BY <1>1, <1>4, <2>1, TwoSteps
<1>7. CASE e.kind = "bool"
  <2>1. PlanUnary(e) = <<op, Const(Zero), Binary("ne")>>
    BY <1>7 DEF PlanUnary, op
  <2> QED BY <1>1, <1>2, <1>3, <2>1, ThreeSteps
<1>8. CASE e.kind = "neg"
  <2>1. PlanUnary(e) = <<Const(Zero), op, Binary("sub")>>
    BY <1>8 DEF PlanUnary, op
  <2> QED BY <1>1, <1>2, <1>3, <2>1, ThreeSteps
<1>9. CASE e.kind = "not"
  <2>1. PlanUnary(e) = <<op, Const(Zero), Binary("eq")>>
    BY <1>9 DEF PlanUnary, op
  <2> QED BY <1>1, <1>2, <1>3, <2>1, ThreeSteps
<1>10. CASE e.kind = "bnot"
  <2>1. PlanUnary(e) = <<op, Const(Ones), Binary("xor")>>
    BY <1>10 DEF PlanUnary, op
  <2> QED BY <1>1, <1>2, <1>3, <2>1, ThreeSteps
<1> QED BY <1>5, <1>6, <1>7, <1>8, <1>9, <1>10 DEF UnaryKinds

LEMMA BinaryYields ==
    ASSUME NEW u, NEW e, e.ops[1] \in Exprs \cup Operands, e.ops[2] \in Exprs \cup Operands
    PROVE  Yields(u, PlanBinary(e)) /\ Yields(u, PlanComma(e))
<1> SUFFICES ASSUME NEW n \in Nat, NEW p \in Nat
             PROVE  /\ Leads(u, PlanBinary(e), n, p, n + 1, p)
                    /\ Leads(u, PlanComma(e), n, p, n + 1, p)
  BY DEF Yields
<1> DEFINE a == Compile(e.ops[1])
           b == Compile(e.ops[2])
           o == Binary(e.of)
           d == Do("pop", 0)
<1>1. /\ Step(u, a, n, p, n + 1, p) /\ Step(u, b, n + 1, p, n + 2, p)
      /\ Step(u, o, n + 2, p, n + 1, p)
      /\ Step(u, d, n + 1, p, n, p) /\ Step(u, b, n, p, n + 1, p)
  BY DEF Step, Compile, Binary, Do, CallKinds
<1>2. PlanBinary(e) = <<a, b, o>> /\ PlanComma(e) = <<a, d, b>>
  BY DEF PlanBinary, PlanComma
<1> HIDE DEF a, b, o, d
<1>3. Leads(u, <<a, b, o>>, n, p, n + 1, p) /\ Leads(u, <<a, d, b>>, n, p, n + 1, p)
  BY <1>1, ThreeSteps
<1> QED BY <1>2, <1>3

LEMMA AssignYields ==
    ASSUME NEW u, NEW e, e.ops[1] \in Exprs \cup Operands, e.ops[2] \in Exprs \cup Operands
    PROVE  Yields(u, PlanAssign(e))
<1> SUFFICES ASSUME NEW n \in Nat, NEW p \in Nat
             PROVE  Leads(u, PlanAssign(e), n, p, n + 1, p)
  BY DEF Yields
<1> DEFINE a == Compile(e.ops[1])
           b == Compile(e.ops[2])
           c == Do("convert", 0)
           d == Do("dup", 0)
           r == Do("rot", 0)
           s == Do("swap", 0)
           t == Do("store", 0)
<1>1. /\ Step(u, a, n, p, n + 1, p) /\ Step(u, b, n + 1, p, n + 2, p)
      /\ Step(u, c, n + 2, p, n + 2, p) /\ Step(u, d, n + 2, p, n + 3, p)
      /\ Step(u, r, n + 3, p, n + 3, p) /\ Step(u, s, n + 3, p, n + 3, p)
      /\ Step(u, t, n + 3, p, n + 1, p)
  BY DEF Step, Compile, Do, CallKinds
<1>2. PlanAssign(e) = <<a, b, c, d, r, s, t>>
  BY DEF PlanAssign
<1> HIDE DEF a, b, c, d, r, s, t
<1>3. Leads(u, <<r, s, t>>, n + 3, p, n + 1, p)
  BY <1>1, ThreeSteps
<1>4. Leads(u, <<d, r, s, t>>, n + 2, p, n + 1, p)
  <2> DEFINE w == <<d, r, s, t>>
             S == {d, r, s, t}
  <2>1. w \in Seq(S) /\ w # <<>> /\ Head(w) = d /\ Tail(w) = <<r, s, t>>
    OBVIOUS
  <2> HIDE DEF w, S
  <2>2. Leads(u, Tail(w), n + 3, p, n + 1, p) /\ Step(u, Head(w), n + 2, p, n + 3, p)
    BY <1>1, <1>3, <2>1
  <2>3. Leads(u, w, n + 2, p, n + 1, p)
    BY <2>1, <2>2, Before
  <2> QED BY <2>3 DEF w
<1>5. Leads(u, <<c, d, r, s, t>>, n + 2, p, n + 1, p)
  <2> DEFINE w == <<c, d, r, s, t>>
             S == {c, d, r, s, t}
  <2>1. w \in Seq(S) /\ w # <<>> /\ Head(w) = c /\ Tail(w) = <<d, r, s, t>>
    OBVIOUS
  <2> HIDE DEF w, S
  <2>2. Leads(u, Tail(w), n + 2, p, n + 1, p) /\ Step(u, Head(w), n + 2, p, n + 2, p)
    BY <1>1, <1>4, <2>1
  <2>3. Leads(u, w, n + 2, p, n + 1, p)
    BY <2>1, <2>2, Before
  <2> QED BY <2>3 DEF w
<1>6. Leads(u, <<b, c, d, r, s, t>>, n + 1, p, n + 1, p)
  <2> DEFINE w == <<b, c, d, r, s, t>>
             S == {b, c, d, r, s, t}
  <2>1. w \in Seq(S) /\ w # <<>> /\ Head(w) = b /\ Tail(w) = <<c, d, r, s, t>>
    OBVIOUS
  <2> HIDE DEF w, S
  <2>2. Leads(u, Tail(w), n + 2, p, n + 1, p) /\ Step(u, Head(w), n + 1, p, n + 2, p)
    BY <1>1, <1>5, <2>1
  <2>3. Leads(u, w, n + 1, p, n + 1, p)
    BY <2>1, <2>2, Before
  <2> QED BY <2>3 DEF w
<1>7. Leads(u, <<a, b, c, d, r, s, t>>, n, p, n + 1, p)
  <2> DEFINE w == <<a, b, c, d, r, s, t>>
             S == {a, b, c, d, r, s, t}
  <2>1. w \in Seq(S) /\ w # <<>> /\ Head(w) = a /\ Tail(w) = <<b, c, d, r, s, t>>
    OBVIOUS
  <2> HIDE DEF w, S
  <2>2. Leads(u, Tail(w), n + 1, p, n + 1, p) /\ Step(u, Head(w), n, p, n + 1, p)
    BY <1>1, <1>6, <2>1
  <2>3. Leads(u, w, n, p, n + 1, p)
    BY <2>1, <2>2, Before
  <2> QED BY <2>3 DEF w
<1> QED BY <1>2, <1>7

LEMMA LogicalYields ==
    ASSUME NEW u, NEW e, e.ops[1] \in Exprs \cup Operands, e.ops[2] \in Exprs \cup Operands
    PROVE  Yields(u, PlanLogical(e))
<1> SUFFICES ASSUME NEW n \in Nat, NEW p \in Nat
             PROVE  Leads(u, PlanLogical(e), n, p, n + 1, p)
  BY DEF Yields
<1> DEFINE a == Compile(e.ops[1])
           b == Compile(e.ops[2])
           z == Const(Zero)
           o == Binary("ne")
           j == Do("branch", e.kind = "and")
           i == Do("join", e.kind)
<1>1. /\ Step(u, a, n, p, n + 1, p) /\ Step(u, z, n + 1, p, n + 2, p)
      /\ Step(u, o, n + 2, p, n + 1, p) /\ Step(u, j, n + 1, p, n, p + 1)
      /\ Step(u, b, n, p + 1, n + 1, p + 1) /\ Step(u, z, n + 1, p + 1, n + 2, p + 1)
      /\ Step(u, o, n + 2, p + 1, n + 1, p + 1) /\ Step(u, i, n + 1, p + 1, n + 1, p)
  BY DEF Step, Compile, Const, Binary, Do, CallKinds
<1>2. PlanLogical(e) = <<a, z, o, j, b, z, o, i>>
  BY DEF PlanLogical
<1> HIDE DEF a, b, z, o, j, i
<1>3. Leads(u, <<z, o, i>>, n + 1, p + 1, n + 1, p)
  BY <1>1, ThreeSteps
<1>4. Leads(u, <<b, z, o, i>>, n, p + 1, n + 1, p)
  <2> DEFINE w == <<b, z, o, i>>
             S == {b, i, o, z}
  <2>1. w \in Seq(S) /\ w # <<>> /\ Head(w) = b /\ Tail(w) = <<z, o, i>>
    OBVIOUS
  <2> HIDE DEF w, S
  <2>2. Leads(u, Tail(w), n + 1, p + 1, n + 1, p) /\ Step(u, Head(w), n, p + 1, n + 1, p + 1)
    BY <1>1, <1>3, <2>1
  <2>3. Leads(u, w, n, p + 1, n + 1, p)
    BY <2>1, <2>2, Before
  <2> QED BY <2>3 DEF w
<1>5. Leads(u, <<j, b, z, o, i>>, n + 1, p, n + 1, p)
  <2> DEFINE w == <<j, b, z, o, i>>
             S == {b, i, j, o, z}
  <2>1. w \in Seq(S) /\ w # <<>> /\ Head(w) = j /\ Tail(w) = <<b, z, o, i>>
    OBVIOUS
  <2> HIDE DEF w, S
  <2>2. Leads(u, Tail(w), n, p + 1, n + 1, p) /\ Step(u, Head(w), n + 1, p, n, p + 1)
    BY <1>1, <1>4, <2>1
  <2>3. Leads(u, w, n + 1, p, n + 1, p)
    BY <2>1, <2>2, Before
  <2> QED BY <2>3 DEF w
<1>6. Leads(u, <<o, j, b, z, o, i>>, n + 2, p, n + 1, p)
  <2> DEFINE w == <<o, j, b, z, o, i>>
             S == {b, i, j, o, z}
  <2>1. w \in Seq(S) /\ w # <<>> /\ Head(w) = o /\ Tail(w) = <<j, b, z, o, i>>
    OBVIOUS
  <2> HIDE DEF w, S
  <2>2. Leads(u, Tail(w), n + 1, p, n + 1, p) /\ Step(u, Head(w), n + 2, p, n + 1, p)
    BY <1>1, <1>5, <2>1
  <2>3. Leads(u, w, n + 2, p, n + 1, p)
    BY <2>1, <2>2, Before
  <2> QED BY <2>3 DEF w
<1>7. Leads(u, <<z, o, j, b, z, o, i>>, n + 1, p, n + 1, p)
  <2> DEFINE w == <<z, o, j, b, z, o, i>>
             S == {b, i, j, o, z}
  <2>1. w \in Seq(S) /\ w # <<>> /\ Head(w) = z /\ Tail(w) = <<o, j, b, z, o, i>>
    OBVIOUS
  <2> HIDE DEF w, S
  <2>2. Leads(u, Tail(w), n + 2, p, n + 1, p) /\ Step(u, Head(w), n + 1, p, n + 2, p)
    BY <1>1, <1>6, <2>1
  <2>3. Leads(u, w, n + 1, p, n + 1, p)
    BY <2>1, <2>2, Before
  <2> QED BY <2>3 DEF w
<1>8. Leads(u, <<a, z, o, j, b, z, o, i>>, n, p, n + 1, p)
  <2> DEFINE w == <<a, z, o, j, b, z, o, i>>
             S == {a, b, i, j, o, z}
  <2>1. w \in Seq(S) /\ w # <<>> /\ Head(w) = a /\ Tail(w) = <<z, o, j, b, z, o, i>>
    OBVIOUS
  <2> HIDE DEF w, S
  <2>2. Leads(u, Tail(w), n + 1, p, n + 1, p) /\ Step(u, Head(w), n, p, n + 1, p)
    BY <1>1, <1>7, <2>1
  <2>3. Leads(u, w, n, p, n + 1, p)
    BY <2>1, <2>2, Before
  <2> QED BY <2>3 DEF w
<1> QED BY <1>2, <1>8

\* The callee and n arguments, each converted, become one result.
LEMMA CallYields ==
    ASSUME NEW u, NEW e, e.ops \in Seq(Operands), Len(e.ops) >= 1, e.kind \in CallKinds
    PROVE  Yields(u, PlanCall(e))
<1> SUFFICES ASSUME NEW n \in Nat, NEW p \in Nat
             PROVE  Leads(u, PlanCall(e), n, p, n + 1, p)
  BY DEF Yields
<1> DEFINE a == Len(e.ops) - 1
           z == 2 * a + 2
           t == PlanCall(e)
           S == {t[k] : k \in 1 .. z}
           h == [k \in 1 .. z + 1 |-> IF k = 1 THEN n ELSE IF k = z + 1 THEN n + 1
                                       ELSE n + (k + 1) \div 2]
           g == [k \in 1 .. z + 1 |-> p]
<1>1. a \in Nat /\ z \in Nat /\ z >= 2
  OBVIOUS
<1>2. t = [k \in 1 .. z |-> IF k = z THEN Do(e.kind, a)
                            ELSE IF k % 2 = 1 /\ k > 1 THEN Do("convert", 0)
                            ELSE Compile(e.ops[1 + k \div 2])]
  BY DEF PlanCall
<1>3. t \in Seq(S) /\ Len(t) = z
  <2>1. t \in [1 .. z -> S]
    <3> HIDE DEF t, z
    <3> QED BY <1>2
  <2> HIDE DEF S, t, z
  <2> QED BY <1>1, <2>1
<1> HIDE DEF t, S
<1>4. h \in [1 .. z + 1 -> Nat] /\ g \in [1 .. z + 1 -> Nat]
  OBVIOUS
<1>5. h[1] = n /\ g[1] = p /\ h[z + 1] = n + 1 /\ g[z + 1] = p
  BY <1>1
<1>6. ASSUME NEW k \in 1 .. z
      PROVE  Step(u, t[k], h[k], g[k], h[k + 1], g[k + 1])
  <2>0. k \in 1 .. z + 1 /\ k + 1 \in 1 .. z + 1 /\ k # z + 1 /\ k + 1 # 1 /\ g[k] = p /\ g[k + 1] = p
    BY <1>1
  <2>1. /\ h[k] = IF k = 1 THEN n ELSE n + (k + 1) \div 2
        /\ h[k + 1] = IF k = z THEN n + 1 ELSE n + (k + 2) \div 2
    <3>1. (k + 1) + 1 = k + 2 /\ (k + 1 = z + 1 <=> k = z)
      BY <1>1
    <3> HIDE DEF z
    <3> QED BY <2>0, <3>1
  <2>2. PICK b \in Nat : k = 2 * b \/ k = 2 * b + 1
    <3>1. k \div 2 \in Nat /\ (k = 2 * (k \div 2) \/ k = 2 * (k \div 2) + 1)
      BY <1>1
    <3> QED BY <3>1
  <2>3. CASE k = z
    <3>0. (k + 1) \div 2 = a + 1 /\ k # 1
      <4>1. \A c \in Nat : (2 * c + 2 + 1) \div 2 = c + 1 /\ 2 * c + 2 # 1
        OBVIOUS
      <4> HIDE DEF a
      <4> QED BY <1>1, <2>3, <4>1
    <3>1. t[k] = Do(e.kind, a) /\ (k + 1) \div 2 = a + 1 /\ k # 1
      <4> HIDE DEF z, a
      <4> QED BY <1>2, <2>3, <3>0
    <3>2. h[k] = n + (a + 1) /\ h[k + 1] = n + 1
      BY <2>1, <2>3, <3>1
    <3> HIDE DEF h, g, a, z
    <3> QED BY <1>1, <2>0, <3>1, <3>2, SMTT(30) DEF Step, Do, CallKinds
  <2>4. CASE k = 1
    <3>1. k # z /\ t[k] = Compile(e.ops[1]) /\ h[k] = n /\ h[k + 1] = n + 1
      BY <1>1, <1>2, <2>1, <2>4
    <3>2. e.ops[1] \in Operands
      OBVIOUS
    <3> HIDE DEF h, g, a, z
    <3> QED BY <2>0, <3>1, <3>2 DEF Step, Compile, Do, CallKinds
  <2>5. CASE k # z /\ k # 1 /\ k = 2 * b + 1
    <3>1. b >= 1 /\ k % 2 = 1 /\ k > 1 /\ (k + 1) \div 2 = b + 1 /\ (k + 2) \div 2 = b + 1
      BY <2>5
    <3>2. t[k] = Do("convert", 0) /\ h[k] = n + (b + 1) /\ h[k + 1] = n + (b + 1)
      BY <1>2, <2>1, <2>5, <3>1
    <3> HIDE DEF h, g, a, z
    <3> QED BY <2>0, <3>2 DEF Step, Do, CallKinds
  <2>6. CASE k # z /\ k # 1 /\ k = 2 * b
    <3>1. /\ b >= 1 /\ k % 2 = 0 /\ k \div 2 = b /\ (k + 1) \div 2 = b /\ (k + 2) \div 2 = b + 1
          /\ 1 + b \in 1 .. Len(e.ops)
      BY <2>6
    <3>2. t[k] = Compile(e.ops[1 + b]) /\ h[k] = n + b /\ h[k + 1] = n + (b + 1)
      <4>1. t[k] = Compile(e.ops[1 + k \div 2])
        <5> HIDE DEF z, a
        <5> QED BY <1>2, <2>6, <3>1
      <4> HIDE DEF h
      <4> QED BY <2>1, <2>6, <3>1, <4>1
    <3>3. e.ops[1 + b] \in Operands
      BY <3>1
    <3> HIDE DEF h, g, a, z
    <3> QED BY <2>0, <3>2, <3>3 DEF Step, Compile, Do, CallKinds
  <2> QED BY <2>2, <2>3, <2>4, <2>5, <2>6
<1> HIDE DEF h, g, z
<1>7. Walk(u, t, h, g)
  BY <1>3, <1>4, <1>6 DEF Walk
<1> QED BY <1>3, <1>5, <1>7 DEF Leads, IsList, t

\* Whatever the expression, its value is one slot.
LEMMA PlanYields ==
    ASSUME NEW u, NEW e \in Exprs \cup Operands PROVE Yields(u, Plan(e))
<1>1. /\ e.ops \in Seq(Operands)
      /\ \/ e.kind \in LeafKinds
         \/ e.kind \in UnaryKinds /\ Len(e.ops) = 1
         \/ e.kind \in PairKinds /\ Len(e.ops) = 2
         \/ e.kind \in CallKinds /\ Len(e.ops) >= 1
  BY OperandsAssumption
<1>2. CASE e.kind \in LeafKinds
  <2>1. Plan(e) = PlanLeaf(e)
    BY <1>2 DEF Plan, LeafKinds, UnaryKinds, CallKinds
  <2> QED BY <2>1, LeafYields
<1>3. CASE e.kind \in UnaryKinds /\ Len(e.ops) = 1
  <2>1. Plan(e) = PlanUnary(e) /\ e.ops[1] \in Operands
    BY <1>1, <1>3 DEF Plan, LeafKinds, UnaryKinds, CallKinds
  <2> QED BY <1>3, <2>1, UnaryYields
<1>4. CASE e.kind \in PairKinds /\ Len(e.ops) = 2
  <2>1. e.ops[1] \in Operands /\ e.ops[2] \in Operands
    BY <1>1, <1>4
  <2>2. Yields(u, PlanBinary(e)) /\ Yields(u, PlanComma(e)) /\ Yields(u, PlanAssign(e))
        /\ Yields(u, PlanLogical(e))
    BY <2>1, BinaryYields, AssignYields, LogicalYields
  <2>3. Plan(e) \in {PlanBinary(e), PlanComma(e), PlanAssign(e), PlanLogical(e)}
    BY <1>4 DEF Plan, LeafKinds, UnaryKinds, CallKinds, PairKinds
  <2> QED BY <2>2, <2>3
<1>5. CASE e.kind \in CallKinds /\ Len(e.ops) >= 1
  <2>1. Plan(e) = PlanCall(e)
    BY <1>5 DEF Plan, LeafKinds, UnaryKinds, CallKinds
  <2> QED BY <1>1, <1>5, <2>1, CallYields
<1> QED BY <1>1, <1>2, <1>3, <1>4, <1>5

\* The statement takes that slot.
LEMMA UseYields ==
    ASSUME NEW e \in Exprs, NEW u \in Uses PROVE Leads(u, PlanUse(e, u), 0, 0, 0, 0)
<1> DEFINE a == Compile(e)
           d == Do("pop", 0)
           c == Do("convert", 0)
           z == Const(Zero)
           o == Binary("ne")
           f == Do("end", u)
<1>1. /\ Step(u, a, 0, 0, 1, 0) /\ Step(u, d, 1, 0, 0, 0) /\ Step(u, c, 1, 0, 1, 0)
      /\ Step(u, z, 1, 0, 2, 0) /\ Step(u, o, 2, 0, 1, 0)
  BY DEF Step, Compile, Const, Binary, Do, CallKinds
<1>2. IF u = "statement" THEN Step(u, f, 0, 0, 0, 0) ELSE Step(u, f, 1, 0, 0, 0)
  BY DEF Step, Do, CallKinds
<1>3. /\ u = "statement" => PlanUse(e, u) = <<a, d, f>>
      /\ u = "return" => PlanUse(e, u) = <<a, c, f>>
      /\ u = "condition" => PlanUse(e, u) = <<a, z, o, f>>
  BY DEF PlanUse
<1> HIDE DEF a, d, c, z, o, f
<1>4. CASE u = "statement"
  BY <1>1, <1>2, <1>3, <1>4, ThreeSteps
<1>5. CASE u = "return"
  BY <1>1, <1>2, <1>3, <1>5, ThreeSteps
<1>6. CASE u = "condition"
  <2> DEFINE w == <<a, z, o, f>>
             S == {a, z, o, f}
  <2>1. w \in Seq(S) /\ w # <<>> /\ Head(w) = a /\ Tail(w) = <<z, o, f>>
    OBVIOUS
  <2>2. Leads(u, <<z, o, f>>, 1, 0, 0, 0)
    BY <1>1, <1>2, <1>6, ThreeSteps
  <2> HIDE DEF w, S
  <2>3. Leads(u, Tail(w), 1, 0, 0, 0) /\ Step(u, Head(w), 0, 0, 1, 0)
    BY <1>1, <2>1, <2>2
  <2>4. Leads(u, w, 0, 0, 0, 0)
    BY <2>1, <2>3, Before
  <2> QED BY <1>3, <1>6, <2>4 DEF w
<1> QED BY <1>4, <1>5, <1>6 DEF Uses

-----------------------------------------------------------------------------
(* The inductive invariant *)

\* Code that was jumped over ends at the label of an open && or ||.
Landing ==
    /\ IsList(joins)
    /\ cg.skip = 0 \/ \E k \in 1 .. Len(joins) : joins[k].label = cg.skip

IInv ==
    /\ use \in Uses
    /\ Whole(cg)
    /\ Landing
    /\ Leads(use, todo, Len(cg.stack), Len(joins), 0, 0)

LEMMA InitIInv == Init => IInv
<1> SUFFICES ASSUME Init PROVE IInv
  OBVIOUS
<1>1. cg = [stack |-> <<>>, frame |-> <<>>, regs |-> [r \in Volatile |-> Junk], skip |-> 0]
  BY DEF Init, Start
<1>2. Whole(cg) /\ Len(cg.stack) = 0 /\ cg.skip = 0
  <2> DEFINE S == {}
  <2>1. <<>> \in Seq(S) /\ \A x \in S : IsSlot(x)
    OBVIOUS
  <2> HIDE DEF S
  <2>2. IsStack(<<>>)
    BY ONLY <2>1, Zenon DEF IsStack
  <2> QED BY <1>1, <2>2 DEF Whole
<1>3. IsList(<<>>)
  <2>1. <<>> \in Seq({})
    OBVIOUS
  <2> QED BY ONLY <2>1, Zenon DEF IsList
<1>4. Landing /\ Len(joins) = 0
  BY <1>2, <1>3 DEF Init, Landing
<1>5. Leads(use, todo, 0, 0, 0, 0)
  BY UseYields DEF Init
<1> QED BY <1>2, <1>4, <1>5 DEF IInv, Init

\* The next item of todo: how many slots there are, and what will be left.
LEMMA NextItem ==
    ASSUME IInv, todo # <<>>
    PROVE  /\ Len(cg.stack) \in Nat /\ Len(joins) \in Nat
           /\ \E m, q \in Nat :
                 /\ Step(use, Head(todo), Len(cg.stack), Len(joins), m, q)
                 /\ Leads(use, Tail(todo), m, q, 0, 0)
BY Onward DEF IInv

\* The item makes of the slots what it is to make of them.
Resized ==
    \A m, q \in Nat : Step(use, Head(todo), Len(cg.stack), Len(joins), m, q) => Sized(cg, cg', m)

\* An item that opens no && or || and ends none keeps the invariant if its
\* operation makes of the slots what the item is to make of them.
LEMMA Keeps ==
    ASSUME IInv, todo # <<>>, NEW n,
           Sized(cg, cg', n), todo' = Tail(todo),
           Head(todo).do \notin {"branch", "join"},
           \A m, q \in Nat : Step(use, Head(todo), Len(cg.stack), Len(joins), m, q) => m = n,
           UNCHANGED <<use, joins>>
    PROVE  IInv' /\ Resized
<1>1. PICK m, q \in Nat : /\ Step(use, Head(todo), Len(cg.stack), Len(joins), m, q)
                          /\ Leads(use, Tail(todo), m, q, 0, 0)
  BY NextItem
<1>2. m = n /\ q = Len(joins)
  BY <1>1, NextItem DEF Step
<1>3. Leads(use', todo', Len(cg'.stack), Len(joins'), 0, 0)
  BY <1>1, <1>2 DEF Sized
<1>4. Landing'
  BY DEF IInv, Landing, Sized
<1>5. Resized
  BY DEF Resized
<1> QED BY <1>3, <1>4, <1>5 DEF IInv, Sized

LEMMA StepCompile == ASSUME IInv, CompileStep PROVE IInv'
<1> DEFINE e == Head(todo).of
           n == Len(cg.stack)
           p == Len(joins)
<1>1. todo # <<>> /\ Head(todo).do = "compile" /\ todo' = Plan(e) \o Tail(todo)
      /\ UNCHANGED <<use, cg, joins>>
  BY DEF CompileStep, Now, Arg, Quiet
<1>2. PICK m, q \in Nat : Step(use, Head(todo), n, p, m, q) /\ Leads(use, Tail(todo), m, q, 0, 0)
  BY <1>1, NextItem
<1>3. n \in Nat /\ p \in Nat
  BY <1>1, NextItem
<1>4. e \in Exprs \cup Operands /\ m = n + 1 /\ q = p
  BY <1>1, <1>2 DEF Step, CallKinds
<1>5. Leads(use, Plan(e), n, p, n + 1, p)
  BY <1>3, <1>4, PlanYields DEF Yields
<1> HIDE DEF e, n, p
<1>6. Leads(use, Plan(e) \o Tail(todo), n, p, 0, 0)
  BY <1>2, <1>4, <1>5, Further
<1>7. Leads(use', todo', Len(cg'.stack), Len(joins'), 0, 0)
  BY <1>1, <1>6 DEF n, p
<1>8. Landing'
  BY <1>1 DEF IInv, Landing
<1> QED BY <1>1, <1>7, <1>8 DEF IInv

LEMMA StepLoad == ASSUME IInv, LoadStep PROVE IInv' /\ Resized
<1>1. todo # <<>> /\ Head(todo).do = "load" /\ todo' = Tail(todo) /\ UNCHANGED <<use, joins>>
      /\ cg' = Load(cg, Arg)
  BY DEF LoadStep, Now, Advance, Quiet
<1>2. Sized(cg, cg', Len(cg.stack) + 1)
  BY <1>1, SizedLoad DEF IInv
<1>3. \A m, q \in Nat : Step(use, Head(todo), Len(cg.stack), Len(joins), m, q) => m = Len(cg.stack) + 1
  BY <1>1 DEF Step, CallKinds
<1> QED BY <1>1, <1>2, <1>3, Keeps

LEMMA StepDeref == ASSUME IInv, DerefStep PROVE IInv' /\ Resized
<1>1. todo # <<>> /\ Head(todo).do = "deref" /\ todo' = Tail(todo) /\ UNCHANGED <<use, joins>>
      /\ cg' = Deref(cg, mem, mem)
  BY DEF DerefStep, Now, Advance, Quiet
<1>2. \A m, q \in Nat : Step(use, Head(todo), Len(cg.stack), Len(joins), m, q)
                            => m = Len(cg.stack) /\ Len(cg.stack) >= 1
  BY <1>1 DEF Step, CallKinds
<1>3. Len(cg.stack) >= 1
  BY <1>1, <1>2, NextItem
<1>4. Sized(cg, cg', Len(cg.stack))
  BY <1>1, <1>3, SameDeref DEF IInv, Same
<1> QED BY <1>1, <1>2, <1>4, Keeps

\* Conversions change where a value is, not how many there are.
LEMMA SameConverted ==
    ASSUME NEW c, Whole(c), NEW d \in Converted(c) PROVE Same(c, d)
BY SameExtend DEF Converted, Same, Sized

LEMMA SameOperandsConverted ==
    ASSUME NEW c, Whole(c), Len(c.stack) >= 2, NEW e \in OperandsConverted(c) PROVE Same(c, e)
<1>1. PICK d \in {c} \cup {Swap(Extend(Swap(c)))} : e \in Converted(d)
  BY DEF OperandsConverted
<1>2. Same(c, d)
  <2>1. Same(c, Swap(c))
    BY SameSwap
  <2>2. Same(Swap(c), Extend(Swap(c)))
    BY <2>1, SameExtend DEF Same, Sized
  <2>3. Same(Extend(Swap(c)), Swap(Extend(Swap(c))))
    BY <2>1, <2>2, SameSwap DEF Same, Sized
  <2> QED BY <1>1, <2>1, <2>2, <2>3 DEF Same, Sized
<1> QED BY <1>1, <1>2, SameConverted DEF Same, Sized

LEMMA StepConvert == ASSUME IInv, ConvertStep PROVE IInv' /\ Resized
<1>1. todo # <<>> /\ Head(todo).do = "convert" /\ todo' = Tail(todo) /\ UNCHANGED <<use, joins>>
      /\ cg' \in Converted(cg)
  BY DEF ConvertStep, Now, Advance, Quiet
<1>2. \A m, q \in Nat : Step(use, Head(todo), Len(cg.stack), Len(joins), m, q) => m = Len(cg.stack)
  BY <1>1 DEF Step, CallKinds
<1>3. Sized(cg, cg', Len(cg.stack))
  BY <1>1, SameConverted DEF IInv, Same
<1> QED BY <1>1, <1>2, <1>3, Keeps

LEMMA StepBinary == ASSUME IInv, BinaryStep PROVE IInv' /\ Resized
<1>1. todo # <<>> /\ Head(todo).do = "binary" /\ todo' = Tail(todo) /\ UNCHANGED <<use, joins>>
  BY DEF BinaryStep, Now, Advance, Quiet
<1>2. \A m, q \in Nat : Step(use, Head(todo), Len(cg.stack), Len(joins), m, q)
                            => m = Len(cg.stack) - 1 /\ Len(cg.stack) >= 2
  BY <1>1 DEF Step, CallKinds
<1>3. Len(cg.stack) >= 2 /\ Whole(cg)
  BY <1>1, <1>2, NextItem DEF IInv
<1>4. PICK c \in OperandsConverted(cg) :
          \/ cg' = Shift(c, Arg) \/ cg' = Divide(c, Arg) \/ cg' = Binop(c, Arg)
  BY DEF BinaryStep
<1>5. Same(cg, c)
  BY <1>3, <1>4, SameOperandsConverted
<1>6. Whole(c) /\ Len(c.stack) >= 2
  BY <1>3, <1>5 DEF Same, Sized
<1>7. Sized(c, cg', Len(c.stack) - 1)
  BY <1>4, <1>6, SizedShift, SizedDivide, SizedBinop
<1>8. Sized(cg, cg', Len(cg.stack) - 1)
  BY <1>5, <1>7 DEF Same, Sized
<1> QED BY <1>1, <1>2, <1>8, Keeps

LEMMA StepPop == ASSUME IInv, PopStep PROVE IInv' /\ Resized
<1>1. todo # <<>> /\ Head(todo).do = "pop" /\ todo' = Tail(todo) /\ UNCHANGED <<use, joins>>
      /\ cg' = Pop(cg)
  BY DEF PopStep, Now, Advance, Quiet
<1>2. \A m, q \in Nat : Step(use, Head(todo), Len(cg.stack), Len(joins), m, q)
                            => m = Len(cg.stack) - 1 /\ Len(cg.stack) >= 1
  BY <1>1 DEF Step, CallKinds
<1>3. Len(cg.stack) >= 1
  BY <1>1, <1>2, NextItem
<1>4. Sized(cg, cg', Len(cg.stack) - 1)
  BY <1>1, <1>3, SizedPop DEF IInv
<1> QED BY <1>1, <1>2, <1>4, Keeps

LEMMA StepShuffle == ASSUME IInv, ShuffleStep PROVE IInv' /\ Resized
<1>0. todo # <<>> /\ todo' = Tail(todo) /\ UNCHANGED <<use, joins>> /\ Whole(cg)
  BY DEF ShuffleStep, Now, Advance, Quiet, IInv
<1>1. CASE Head(todo).do = "dup" /\ cg' = Dup(cg)
  <2>1. \A m, q \in Nat : Step(use, Head(todo), Len(cg.stack), Len(joins), m, q)
                              => m = Len(cg.stack) + 1 /\ Len(cg.stack) >= 1
    BY <1>1 DEF Step, CallKinds
  <2>2. Len(cg.stack) >= 1
    BY <1>0, <2>1, NextItem
  <2>3. Sized(cg, cg', Len(cg.stack) + 1)
    BY <1>0, <1>1, <2>2, SizedDup
  <2> QED BY <1>0, <1>1, <2>1, <2>3, Keeps
<1>2. CASE Head(todo).do = "swap" /\ cg' = Swap(cg)
  <2>1. \A m, q \in Nat : Step(use, Head(todo), Len(cg.stack), Len(joins), m, q)
                              => m = Len(cg.stack) /\ Len(cg.stack) >= 2
    BY <1>2 DEF Step, CallKinds
  <2>2. Len(cg.stack) >= 2
    BY <1>0, <2>1, NextItem
  <2>3. Sized(cg, cg', Len(cg.stack))
    BY <1>0, <1>2, <2>2, SameSwap DEF Same
  <2> QED BY <1>0, <1>2, <2>1, <2>3, Keeps
<1>3. CASE Head(todo).do = "rot" /\ cg' = Rot(cg)
  <2>1. \A m, q \in Nat : Step(use, Head(todo), Len(cg.stack), Len(joins), m, q)
                              => m = Len(cg.stack) /\ Len(cg.stack) >= 3
    BY <1>3 DEF Step, CallKinds
  <2>2. Len(cg.stack) >= 3
    BY <1>0, <2>1, NextItem
  <2>3. Sized(cg, cg', Len(cg.stack))
    BY <1>0, <1>3, <2>2, SameRot DEF Same
  <2> QED BY <1>0, <1>3, <2>1, <2>3, Keeps
<1> QED BY <1>1, <1>2, <1>3 DEF ShuffleStep, Now

LEMMA StepStore == ASSUME IInv, StoreStep PROVE IInv' /\ Resized
<1> DEFINE c == StoreOperands(cg)
<1>1. todo # <<>> /\ Head(todo).do = "store" /\ todo' = Tail(todo) /\ UNCHANGED <<use, joins>>
      /\ cg' = Pop(Pop(c))
  BY DEF StoreStep, Now, Advance
<1>2. \A m, q \in Nat : Step(use, Head(todo), Len(cg.stack), Len(joins), m, q)
                            => m = Len(cg.stack) - 2 /\ Len(cg.stack) >= 2
  BY <1>1 DEF Step, CallKinds
<1>3. Len(cg.stack) >= 2
  BY <1>1, <1>2, NextItem
<1>4. Same(cg, c)
  BY SameStoreOperands DEF IInv
<1> HIDE DEF c
<1>5. Sized(c, cg', Len(c.stack) - 2)
  BY <1>1, <1>3, <1>4, SizedPopTwo DEF Same, Sized
<1>6. Sized(cg, cg', Len(cg.stack) - 2)
  BY <1>4, <1>5 DEF Same, Sized
<1> QED BY <1>1, <1>2, <1>6, Keeps

LEMMA StepCall == ASSUME IInv, CallStep PROVE IInv' /\ Resized
<1>1. todo # <<>> /\ Head(todo).do \in CallKinds /\ todo' = Tail(todo)
      /\ UNCHANGED <<use, joins>> /\ \E r, v : cg' = Call(cg, Arg, r, v)
  BY DEF CallStep, Now, Advance, CallKinds
<1>2. \A m, q \in Nat : Step(use, Head(todo), Len(cg.stack), Len(joins), m, q)
                            => /\ m = Len(cg.stack) - Arg /\ Arg \in Nat
                               /\ Len(cg.stack) >= Arg + 1
  BY <1>1 DEF Step, CallKinds, Arg
<1>3. Arg \in Nat /\ Len(cg.stack) >= Arg + 1
  BY <1>1, <1>2, NextItem
<1>4. Sized(cg, cg', Len(cg.stack) - Arg)
  BY <1>1, <1>3, SizedCall DEF IInv
<1>5. Head(todo).do \notin {"branch", "join"}
  BY <1>1 DEF CallKinds
<1>6. \A m, q \in Nat : Step(use, Head(todo), Len(cg.stack), Len(joins), m, q)
                            => m = Len(cg.stack) - Arg
  BY <1>2
<1> QED BY ONLY IInv, <1>1, <1>4, <1>5, <1>6, Keeps

\* A list that grows or shrinks at its end
LEMMA ListEnds ==
    ASSUME NEW s, IsList(s), NEW x
    PROVE  /\ Len(s) \in Nat
           /\ IsList(Append(s, x)) /\ Len(Append(s, x)) = Len(s) + 1
           /\ \A k \in 1 .. Len(s) : Append(s, x)[k] = s[k]
           /\ Append(s, x)[Len(s) + 1] = x
           /\ Len(s) >= 1 => /\ IsList(Front(s)) /\ Len(Front(s)) = Len(s) - 1
                             /\ \A k \in 1 .. Len(s) - 1 : Front(s)[k] = s[k]
<1>1. PICK S : s \in Seq(S)
  BY DEF IsList
<1>2. s \in Seq(S \cup {x}) /\ Len(s) \in Nat
  BY <1>1
<1>3. Append(s, x) \in Seq(S \cup {x}) /\ Len(Append(s, x)) = Len(s) + 1
      /\ \A k \in 1 .. Len(s) : Append(s, x)[k] = s[k]
      /\ Append(s, x)[Len(s) + 1] = x
  BY <1>2
<1>4. Len(s) >= 1 => /\ Front(s) \in Seq(S) /\ Len(Front(s)) = Len(s) - 1
                     /\ \A k \in 1 .. Len(s) - 1 : Front(s)[k] = s[k]
  <2>1. SUFFICES ASSUME Len(s) >= 1
                 PROVE  /\ Front(s) \in Seq(S) /\ Len(Front(s)) = Len(s) - 1
                        /\ \A k \in 1 .. Len(s) - 1 : Front(s)[k] = s[k]
    OBVIOUS
  <2> DEFINE n == Len(s) - 1
  <2>2. n \in Nat /\ n <= Len(s) /\ 1 .. n \subseteq 1 .. Len(s)
    BY <1>2, <2>1
  <2>3. Front(s) = SubSeq(s, 1, n)
    BY DEF Front
  <2> HIDE DEF n
  <2>4. SubSeq(s, 1, n) \in Seq(S) /\ Len(SubSeq(s, 1, n)) = n
        /\ \A k \in 1 .. n : SubSeq(s, 1, n)[k] = s[k]
    BY <1>1, <2>2
  <2> QED BY <2>3, <2>4 DEF n
<1>5. IsList(Append(s, x))
  BY ONLY <1>3, Zenon DEF IsList
<1>6. Front(s) \in Seq(S) => IsList(Front(s))
  BY ONLY Zenon DEF IsList
<1> QED BY <1>2, <1>3, <1>4, <1>5, <1>6

LEMMA StepBranch == ASSUME IInv, BranchStep PROVE IInv'
<1>1. PICK r : /\ todo # <<>> /\ Head(todo).do = "branch" /\ todo' = Tail(todo) /\ use' = use
               /\ cg' = BranchSavingReg(cg, Arg, Zero, labels')
               /\ joins' = Append(joins, [label |-> labels', reg |-> r])
  BY DEF BranchStep, Now, Advance
<1>2. PICK m, q \in Nat : /\ Step(use, Head(todo), Len(cg.stack), Len(joins), m, q)
                          /\ Leads(use, Tail(todo), m, q, 0, 0)
  BY <1>1, NextItem
<1>3. Len(cg.stack) >= 1 /\ m = Len(cg.stack) - 1 /\ q = Len(joins) + 1
  BY <1>1, <1>2 DEF Step, CallKinds
<1>4. Whole(cg') /\ Len(cg'.stack) = Len(cg.stack) - 1 /\ cg'.skip \in {cg.skip, labels'}
  BY <1>1, <1>3, SizedBranch DEF IInv
<1> DEFINE x == [label |-> labels', reg |-> r]
<1>5. joins' = Append(joins, x) /\ x.label = labels'
  BY <1>1
<1> HIDE DEF x
<1>6. /\ Len(joins) \in Nat /\ IsList(joins') /\ Len(joins') = Len(joins) + 1
      /\ \A k \in 1 .. Len(joins) : joins'[k] = joins[k]
      /\ joins'[Len(joins) + 1] = x
  BY <1>5, ListEnds DEF IInv, Landing
<1>7. Landing'
  <2>1. CASE cg'.skip = labels'
    <3>1. Len(joins) + 1 \in 1 .. Len(joins')
      BY <1>6
    <3> QED BY <1>5, <1>6, <2>1, <3>1 DEF Landing
  <2>2. CASE cg'.skip = cg.skip
    <3>1. \A k \in 1 .. Len(joins) : k \in 1 .. Len(joins')
      BY <1>6
    <3> QED BY <1>6, <2>2, <3>1 DEF Landing, IInv
  <2> QED BY <1>4, <2>1, <2>2
<1>8. Leads(use', todo', Len(cg'.stack), Len(joins'), 0, 0)
  BY <1>1, <1>2, <1>3, <1>4, <1>6
<1> QED BY <1>1, <1>4, <1>7, <1>8 DEF IInv

LEMMA StepJoin == ASSUME IInv, JoinStep PROVE IInv'
<1> DEFINE j == Last(joins)
           c == EnsureReg(cg, Top(cg), {j.reg})
           v == IF Arg = "and" THEN Zero ELSE One
<1>1. /\ todo # <<>> /\ Head(todo).do = "join" /\ todo' = Tail(todo) /\ use' = use
      /\ cg' = IF c.skip # j.label THEN c
               ELSE [c EXCEPT !.skip = 0, !.stack[Top(c)].val = v]
      /\ joins' = Front(joins)
  BY DEF JoinStep, Now, Advance
<1>2. PICK m, q \in Nat : /\ Step(use, Head(todo), Len(cg.stack), Len(joins), m, q)
                          /\ Leads(use, Tail(todo), m, q, 0, 0)
  BY <1>1, NextItem
<1>3. Len(cg.stack) >= 1 /\ m = Len(cg.stack) /\ Len(joins) >= 1 /\ q = Len(joins) - 1
  BY <1>1, <1>2 DEF Step, CallKinds
<1>4. Same(cg, c)
  BY SameEnsure DEF IInv
<1>5. /\ Len(joins) \in Nat /\ IsList(joins') /\ Len(joins') = Len(joins) - 1
      /\ \A k \in 1 .. Len(joins) - 1 : joins'[k] = joins[k]
  BY <1>1, <1>3, ListEnds DEF IInv, Landing
<1> HIDE DEF c, v
<1>6. CASE c.skip # j.label
  <2>1. Whole(cg') /\ Len(cg'.stack) = Len(cg.stack) /\ cg'.skip = cg.skip
    BY <1>1, <1>4, <1>6 DEF Same, Sized
  <2>2. Landing'
    <3>1. \A k \in 1 .. Len(joins) : k = Len(joins) \/ k \in 1 .. Len(joins) - 1
      BY <1>5
    <3>2. \A k \in 1 .. Len(joins) - 1 : k \in 1 .. Len(joins')
      BY <1>5
    <3>3. cg'.skip # joins[Len(joins)].label
      BY <1>4, <1>6, <2>1 DEF Same, Sized, Last
    <3> QED BY <1>5, <2>1, <3>1, <3>2, <3>3 DEF Landing, IInv
  <2>3. Leads(use', todo', Len(cg'.stack), Len(joins'), 0, 0)
    BY <1>1, <1>2, <1>3, <1>5, <2>1
  <2> QED BY <1>1, <2>1, <2>2, <2>3 DEF IInv
<1>7. CASE c.skip = j.label
  <2> DEFINE s == [c.stack[Top(c)] EXCEPT !.val = v]
             d == [c EXCEPT !.stack[Top(c)] = s]
  <2>1. IsSlot(c.stack[Top(c)])
    BY <1>3, <1>4, LenNat DEF Same, Sized, Top
  <2>2. IsSlot(s)
    <3>1. PICK k, a, w : k \in Kinds /\ c.stack[Top(c)] = [kind |-> k, at |-> a, val |-> w]
      BY <2>1 DEF IsSlot
    <3>2. s = [kind |-> k, at |-> a, val |-> v]
      BY <3>1
    <3> HIDE DEF s
    <3> QED BY <3>1, <3>2, SlotMade
  <2>3. Same(c, d)
    <3> HIDE DEF s
    <3> QED BY <1>4, <2>2, SameSet DEF Same, Sized
  <2>4. cg' = [d EXCEPT !.skip = 0]
    BY <1>1, <1>4, <1>7 DEF Same, Sized, Whole
  <2> HIDE DEF d, s
  <2>5. Whole(cg') /\ Len(cg'.stack) = Len(cg.stack) /\ cg'.skip = 0
    BY <1>4, <2>3, <2>4 DEF Same, Sized, Whole
  <2>6. Landing'
    BY <1>5, <2>5 DEF Landing
  <2>7. Leads(use', todo', Len(cg'.stack), Len(joins'), 0, 0)
    BY <1>1, <1>2, <1>3, <1>5, <2>5
  <2> QED BY <1>1, <2>5, <2>6, <2>7 DEF IInv
<1> QED BY <1>6, <1>7

LEMMA StepEnd == ASSUME IInv, EndStep PROVE IInv' /\ Resized
<1>1. todo # <<>> /\ Head(todo).do = "end" /\ todo' = Tail(todo) /\ UNCHANGED <<use, joins>>
  BY DEF EndStep, Now, Advance
<1>2. CASE use = "statement" /\ UNCHANGED cg
  <2>1. \A m, q \in Nat : Step(use, Head(todo), Len(cg.stack), Len(joins), m, q) => m = Len(cg.stack)
    BY <1>1, <1>2 DEF Step, CallKinds
  <2>2. Sized(cg, cg', Len(cg.stack))
    BY <1>2 DEF IInv, Sized
  <2> QED BY <1>1, <2>1, <2>2, Keeps
<1>3. CASE use # "statement" /\ \E D : cg' = Pop(EnsureReg(cg, Top(cg), D))
  <2>1. \A m, q \in Nat : Step(use, Head(todo), Len(cg.stack), Len(joins), m, q)
                              => m = Len(cg.stack) - 1 /\ Len(cg.stack) >= 1
    BY <1>1, <1>3 DEF Step, CallKinds
  <2>2. Len(cg.stack) >= 1 /\ Whole(cg)
    BY <1>1, <2>1, NextItem DEF IInv
  <2>3. PICK D : cg' = Pop(EnsureReg(cg, Top(cg), D))
    BY <1>3
  <2>4. Same(cg, EnsureReg(cg, Top(cg), D))
    BY <2>2, SameEnsure
  <2>5. Sized(cg, cg', Len(cg.stack) - 1)
    BY <2>2, <2>3, <2>4, SizedPop DEF Same, Sized
  <2> QED BY <1>1, <2>1, <2>5, Keeps
<1> QED BY <1>2, <1>3 DEF EndStep

LEMMA StepIInv == IInv /\ [Next]_vars => IInv'
<1> SUFFICES ASSUME IInv, [Next]_vars PROVE IInv'
  OBVIOUS
<1>1. CASE UNCHANGED vars
  BY <1>1 DEF vars, IInv, Landing
<1>2. CASE Next
  BY <1>2, StepCompile, StepLoad, StepDeref, StepConvert, StepBinary, StepPop,
     StepShuffle, StepStore, StepCall, StepBranch, StepJoin, StepEnd DEF Next
<1> QED BY <1>1, <1>2

-----------------------------------------------------------------------------
(* The theorems *)

\* What is still to be compiled always leads from the slots and the open
\* labels there are to none: the inductive invariant of the expression
\* compiler (tacc_cg_compile_expr).
THEOREM Invariance == Spec => []IInv
<1> QED BY InitIInv, StepIInv, PTL DEF Spec

\* After every statement nothing is left on the slot stack, no operation finds
\* fewer slots than it takes, and every jump of && and || has landed: the
\* assertions of tacc_cg_compile_stmt and of the stack operations hold for
\* expressions of any depth.
THEOREM Balanced == Spec => []StackBalanced
<1>1. IInv => StackBalanced
  <2> SUFFICES ASSUME IInv PROVE StackBalanced
    OBVIOUS
  <2>1. ASSUME Finished PROVE cg.stack = <<>> /\ joins = <<>> /\ cg.skip = 0
    <3>1. PICK h, g : /\ Walk(use, todo, h, g)
                      /\ h[1] = Len(cg.stack) /\ g[1] = Len(joins)
                      /\ h[Len(todo) + 1] = 0 /\ g[Len(todo) + 1] = 0
      BY DEF IInv, Leads
    <3>2. Len(todo) + 1 = 1
      BY <2>1 DEF Finished
    <3>3. Len(cg.stack) = 0 /\ Len(joins) = 0
      BY <3>1, <3>2
    <3>4. cg.stack = <<>>
      BY <3>3 DEF IInv, Whole, IsStack
    <3>5. joins = <<>>
      BY <3>3 DEF IInv, Landing, IsList
    <3> QED BY <3>3, <3>4, <3>5 DEF IInv, Landing
  <2>2. ASSUME Now("binary") \/ Now("swap") \/ Now("store") PROVE Top(cg) >= 2
    <3>1. todo # <<>> /\ Head(todo).do \in {"binary", "swap", "store"}
      BY <2>2 DEF Now
    <3>2. \A m, q \in Nat : Step(use, Head(todo), Len(cg.stack), Len(joins), m, q) => Len(cg.stack) >= 2
      BY <3>1 DEF Step, CallKinds
    <3> QED BY <3>1, <3>2, NextItem DEF Top
  <2>3. ASSUME Now("rot") PROVE Top(cg) >= 3
    <3>1. todo # <<>> /\ Head(todo).do = "rot"
      BY <2>3 DEF Now
    <3>2. \A m, q \in Nat : Step(use, Head(todo), Len(cg.stack), Len(joins), m, q) => Len(cg.stack) >= 3
      BY <3>1 DEF Step, CallKinds
    <3> QED BY <3>1, <3>2, NextItem DEF Top
  <2> QED BY <2>1, <2>2, <2>3 DEF StackBalanced
<1> QED BY <1>1, Invariance, PTL

-----------------------------------------------------------------------------
(* Recursive functions exist *)

\* Induction, for a set of numbers
LEMMA Induct ==
    ASSUME NEW G, 0 \in G, \A k \in Nat : k \in G => k + 1 \in G
    PROVE  \A k \in Nat : k \in G
<1> SUFFICES ASSUME NEW b \in Nat, b \notin G PROVE FALSE
  OBVIOUS
<1> DEFINE D == {k \in Nat : k \notin G}
<1>1. D \in SUBSET Nat /\ D # {}
  OBVIOUS
<1> HIDE DEF D
<1>2. PICK n \in D : \A q \in D : n <= q
  BY <1>1, Least
<1>3. n \in Nat /\ n \notin G /\ n # 0
  BY <1>2 DEF D
<1>4. n - 1 \in Nat /\ n - 1 \notin D
  BY <1>2, <1>3
<1>5. n - 1 \in G
  BY <1>4 DEF D
<1> QED BY <1>3, <1>4, <1>5

\* f is what step makes of it below rank n.
Solves(f, S, R, rank, step, n) ==
    f \in [S -> R] /\ \A x \in S : rank[x] < n => f[x] = step[x][f]

\* What step makes of x depends on values of smaller rank only.
Descends(S, R, rank, step) ==
    /\ rank \in [S -> Nat] /\ step \in [S -> [[S -> R] -> R]]
    /\ \A x \in S : \A f, g \in [S -> R] :
          (\A y \in S : rank[y] < rank[x] => f[y] = g[y]) => step[x][f] = step[x][g]

\* Solutions of a recursive definition agree as far as they go; there are
\* solutions up to every rank, and so one of all.
LEMMA SolutionsAgree ==
    ASSUME NEW S, NEW R, NEW rank, NEW step, Descends(S, R, rank, step),
           NEW n \in Nat, NEW f, NEW g, NEW k \in Nat, n <= k,
           Solves(f, S, R, rank, step, n), Solves(g, S, R, rank, step, k)
    PROVE  \A x \in S : rank[x] < n => f[x] = g[x]
<1> DEFINE G == {j \in Nat : \A x \in S : rank[x] < j /\ rank[x] < n => f[x] = g[x]}
<1>0. rank \in [S -> Nat] /\ f \in [S -> R] /\ g \in [S -> R]
  BY DEF Descends, Solves
<1>1. 0 \in G
  BY <1>0
<1>2. ASSUME NEW j \in Nat, j \in G PROVE j + 1 \in G
  <2>1. ASSUME NEW x \in S, rank[x] < j + 1, rank[x] < n PROVE f[x] = g[x]
    <3>1. rank[x] \in Nat /\ rank[x] <= j /\ rank[x] < k
      BY <1>0, <2>1
    <3>2. ASSUME NEW y \in S, rank[y] < rank[x] PROVE f[y] = g[y]
      <4>1. rank[y] < j /\ rank[y] < n
        BY <1>0, <2>1, <3>1, <3>2
      <4> QED BY <1>2, <4>1
    <3>3. step[x][f] = step[x][g]
      BY <1>0, <3>2 DEF Descends
    <3>4. f[x] = step[x][f] /\ g[x] = step[x][g]
      BY <2>1, <3>1 DEF Solves
    <3> QED BY <3>3, <3>4
  <2> QED BY <2>1
<1> HIDE DEF G
<1>3. \A j \in Nat : j \in G
  BY <1>1, <1>2, Induct
<1>4. n \in G
  BY <1>3
<1> QED BY <1>4 DEF G

LEMMA SolutionsExist ==
    ASSUME NEW S, NEW R, NEW r \in R, NEW rank, NEW step, Descends(S, R, rank, step)
    PROVE  \A n \in Nat : \E f : Solves(f, S, R, rank, step, n)
<1> DEFINE G == {n \in Nat : \E f : Solves(f, S, R, rank, step, n)}
<1>0. rank \in [S -> Nat] /\ step \in [S -> [[S -> R] -> R]]
  BY DEF Descends
<1>1. 0 \in G
  <2>1. Solves([x \in S |-> r], S, R, rank, step, 0)
    BY <1>0 DEF Solves
  <2>2. \E f : Solves(f, S, R, rank, step, 0)
    BY ONLY <2>1, Zenon
  <2> QED BY <2>2
<1>2. ASSUME NEW n \in Nat, n \in G PROVE n + 1 \in G
  <2>1. PICK f : Solves(f, S, R, rank, step, n)
    BY <1>2
  <2> DEFINE g == [x \in S |-> IF rank[x] < n THEN f[x] ELSE step[x][f]]
  <2>2. f \in [S -> R] /\ \A x \in S : step[x][f] \in R
    BY <1>0, <2>1 DEF Solves
  <2>3. g \in [S -> R]
    BY <2>2
  <2>4. ASSUME NEW x \in S, rank[x] < n + 1 PROVE g[x] = step[x][g]
    <3>1. \A y \in S : rank[y] < rank[x] => g[y] = f[y]
      BY <1>0, <2>4
    <3>2. step[x][g] = step[x][f]
      <4> HIDE DEF g
      <4> QED BY <2>2, <2>3, <3>1 DEF Descends
    <3>3. g[x] = step[x][f]
      BY <2>1, <2>4 DEF Solves
    <3> HIDE DEF g
    <3> QED BY <3>2, <3>3
  <2> HIDE DEF g
  <2>5. Solves(g, S, R, rank, step, n + 1)
    BY <2>3, <2>4 DEF Solves
  <2>6. \E h : Solves(h, S, R, rank, step, n + 1)
    BY ONLY <2>5, Zenon
  <2> QED BY <2>6
<1> HIDE DEF G
<1>3. \A n \in Nat : n \in G
  BY <1>1, <1>2, Induct
<1> QED BY <1>3 DEF G

LEMMA Recursion ==
    ASSUME NEW S, NEW R, NEW r \in R, NEW rank, NEW step, Descends(S, R, rank, step)
    PROVE  \E f \in [S -> R] : \A x \in S : f[x] = step[x][f]
<1> DEFINE pick[n \in Nat] == CHOOSE f : Solves(f, S, R, rank, step, n)
           f == [x \in S |-> pick[rank[x] + 1][x]]
<1>0. rank \in [S -> Nat] /\ step \in [S -> [[S -> R] -> R]]
  BY DEF Descends
<1>1. ASSUME NEW n \in Nat PROVE Solves(pick[n], S, R, rank, step, n)
  <2>1. \E g : Solves(g, S, R, rank, step, n)
    BY SolutionsExist
  <2>2. pick[n] = CHOOSE g : Solves(g, S, R, rank, step, n)
    OBVIOUS
  <2> QED BY <2>1, <2>2
<1> HIDE DEF pick
<1>2. ASSUME NEW x \in S PROVE pick[rank[x] + 1] \in [S -> R] /\ rank[x] + 1 \in Nat /\ rank[x] \in Nat
  BY <1>0, <1>1 DEF Solves
<1>3. f \in [S -> R]
  BY <1>2
<1>4. ASSUME NEW x \in S PROVE f[x] = step[x][f]
  <2> DEFINE g == pick[rank[x] + 1]
  <2>1. Solves(g, S, R, rank, step, rank[x] + 1)
    BY <1>1, <1>2
  <2>2. ASSUME NEW y \in S, rank[y] < rank[x] PROVE f[y] = g[y]
    <3> DEFINE h == pick[rank[y] + 1]
    <3>1. Solves(h, S, R, rank, step, rank[y] + 1) /\ rank[y] + 1 <= rank[x] + 1
          /\ rank[y] < rank[y] + 1
      BY <1>1, <1>2, <2>2
    <3> HIDE DEF g, h
    <3>2. h[y] = g[y]
      BY <1>2, <2>1, <3>1, SolutionsAgree
    <3> QED BY <3>2 DEF h
  <2>3. f[x] = g[x] /\ g[x] = step[x][g]
    BY <1>2, <2>1 DEF Solves
  <2>4. g \in [S -> R]
    BY <1>2
  <2> HIDE DEF f, g
  <2>5. step[x][f] = step[x][g]
    BY <1>3, <2>2, <2>4 DEF Descends
  <2> QED BY <2>3, <2>5
<1> HIDE DEF f
<1> QED BY <1>3, <1>4

-----------------------------------------------------------------------------
(* Meaning is defined for every expression *)

Outcome == [ok : BOOLEAN, val : Val, mem : Memory, calls : Seq(Seq(Val))]
Run    == [ok : BOOLEAN, vals : Seq(Val), mem : Memory, calls : Seq(Seq(Val))]
Meanings == [Syntax -> [Memory -> Outcome]]

\* u goes through the operands, one after another.
Chain(u, meaning, ops, m) ==
    /\ u \in [0 .. Len(ops) -> Run]
    /\ u[0] = Nothing(m)
    /\ \A k \in 1 .. Len(ops) : u[k] = Then(u[k - 1], meaning[ops[k]][u[k - 1].mem])

\* Operands one after another
LEMMA ThenIs ==
    ASSUME NEW o, NEW r
    PROVE  /\ Then(o, r).vals = Append(o.vals, r.val) /\ Then(o, r).mem = r.mem
           /\ Then(o, r).calls = o.calls \o r.calls /\ Then(o, r).ok = (o.ok /\ r.ok)
BY DEF Then

LEMMA ThenRun ==
    ASSUME NEW o \in Run, NEW r \in Outcome PROVE Then(o, r) \in Run
BY DEF Then, Run, Outcome

LEMMA NothingRun == ASSUME NEW m \in Memory PROVE Nothing(m) \in Run
BY DEF Nothing, Run

LEMMA RunRecursion ==
    ASSUME NEW T, NEW rank, NEW step, NEW q \in Run, Descends(T, Run, rank, step)
    PROVE  \E u \in [T -> Run] : \A k \in T : u[k] = step[k][u]
BY Recursion

\* InOrder is the last member of a chain, and there is only one.
LEMMA InOrderChain ==
    ASSUME NEW meaning \in Meanings, NEW ops \in Seq(Syntax), NEW m \in Memory,
           NEW other, \A k \in 1 .. Len(ops) : meaning[ops[k]] = other[ops[k]]
    PROVE  \E u : Chain(u, meaning, ops, m) /\ InOrder(other, ops, m) = u[Len(ops)]
<1> DEFINE N == Len(ops)
           S == 0 .. N
           rank == [k \in S |-> k]
           next(k, u) == IF k = 0 THEN Nothing(m)
                         ELSE Then(u[k - 1], meaning[ops[k]][u[k - 1].mem])
           step == [k \in S |-> [u \in [S -> Run] |-> next(k, u)]]
           Is(u) == u = [k \in 0 .. Len(ops) |-> IF k = 0 THEN Nothing(m)
                              ELSE Then(u[k - 1], other[ops[k]][u[k - 1].mem])]
           upto == CHOOSE u : Is(u)
<1>1. N \in Nat /\ \A k \in S : k # 0 => k - 1 \in S /\ k \in 1 .. N /\ k - 1 < k
  OBVIOUS
<1>2. ASSUME NEW u \in [S -> Run], NEW k \in S PROVE next(k, u) \in Run
  <2>1. CASE k = 0
    BY <2>1, NothingRun
  <2>2. CASE k # 0
    <3>1. u[k - 1] \in Run /\ ops[k] \in Syntax
      BY <1>1, <2>2
    <3>2. u[k - 1].mem \in Memory
      BY <3>1 DEF Run
    <3>3. meaning[ops[k]][u[k - 1].mem] \in Outcome
      BY <3>1, <3>2 DEF Meanings
    <3> QED BY <2>2, <3>1, <3>3, ThenRun
  <2> QED BY <2>1, <2>2
<1>3. Descends(S, Run, rank, step)
  <2>1. rank \in [S -> Nat] /\ step \in [S -> [[S -> Run] -> Run]]
    <3> HIDE DEF next, N
    <3>1. \A k \in S : k \in Nat
      BY <1>1
    <3> HIDE DEF S
    <3> QED BY <1>2, <3>1
  <2>2. ASSUME NEW k \in S, NEW f \in [S -> Run], NEW g \in [S -> Run],
               \A y \in S : rank[y] < rank[k] => f[y] = g[y]
        PROVE  step[k][f] = step[k][g]
    <3>1. k # 0 => f[k - 1] = g[k - 1]
      BY <1>1, <2>2
    <3>2. next(k, f) = next(k, g)
      BY <3>1
    <3> HIDE DEF next, S, N
    <3> QED BY <3>2
  <2> HIDE DEF rank, step, S
  <2> QED BY <2>1, <2>2 DEF Descends
<1>4. PICK u \in [S -> Run] : \A k \in S : u[k] = step[k][u]
  <2> DEFINE r == Nothing(m)
  <2>1. r \in Run
    BY NothingRun
  <2> HIDE DEF rank, step, S, r
  <2> QED BY <1>3, <2>1, RunRecursion
<1>5. \A k \in S : u[k] = next(k, u)
  <2> HIDE DEF next, S
  <2> QED BY <1>4
<1>6. Is(u)
  <2>1. u = [k \in 0 .. Len(ops) |-> u[k]]
    BY <1>4
  <2>2. \A k \in S : u[k] = IF k = 0 THEN Nothing(m) ELSE Then(u[k - 1], other[ops[k]][u[k - 1].mem])
    BY <1>1, <1>5
  <2> QED BY <2>1, <2>2
<1>7. Is(upto)
  <2> HIDE DEF Is
  <2> QED BY <1>6
<1>8. InOrder(other, ops, m) = upto[N]
  BY DEF InOrder
<1> HIDE DEF upto
<1>9. \A v : Is(v) => \A k \in S : v[k] = next(k, v)
  BY <1>1
<1>10. \A k \in S : upto[k] = next(k, upto)
  BY <1>7, <1>9
<1>11. DOMAIN upto = S /\ upto = [k \in S |-> upto[k]]
  BY <1>7
<1>12. ASSUME NEW j \in Nat PROVE j \in S => upto[j] = u[j]
  <2> DEFINE G == {k \in Nat : k \in S => upto[k] = u[k]}
  <2>1. 0 \in G
    BY <1>5, <1>10
  <2>2. ASSUME NEW k \in Nat, k \in G PROVE k + 1 \in G
    <3>1. SUFFICES ASSUME k + 1 \in S PROVE upto[k + 1] = u[k + 1]
      OBVIOUS
    <3>2. k \in S /\ k + 1 # 0 /\ (k + 1) - 1 = k
      BY <3>1
    <3>3. upto[k] = u[k]
      BY <2>2, <3>2
    <3>4. next(k + 1, upto) = next(k + 1, u)
      BY <3>2, <3>3
    <3> HIDE DEF next
    <3> QED BY <1>5, <1>10, <3>1, <3>4
  <2> HIDE DEF G
  <2>3. \A k \in Nat : k \in G
    BY <2>1, <2>2, Induct
  <2> QED BY <2>3 DEF G
<1>13. upto[N] = u[N]
  BY <1>1, <1>12
<1>14. Chain(u, meaning, ops, m)
  <2>1. u[0] = Nothing(m)
    BY <1>5
  <2>2. \A k \in 1 .. N : u[k] = Then(u[k - 1], meaning[ops[k]][u[k - 1].mem])
    BY <1>5
  <2> QED BY <1>4, <2>1, <2>2 DEF Chain
<1> QED BY <1>8, <1>13, <1>14

LEMMA ChainsAgree ==
    ASSUME NEW meaning, NEW other, NEW ops \in Seq(Syntax), NEW m,
           \A k \in 1 .. Len(ops) : meaning[ops[k]] = other[ops[k]],
           NEW u, NEW v, Chain(u, meaning, ops, m), Chain(v, other, ops, m)
    PROVE  u[Len(ops)] = v[Len(ops)]
<1> DEFINE G == {k \in Nat : k <= Len(ops) => u[k] = v[k]}
<1>1. 0 \in G
  BY DEF Chain
<1>2. ASSUME NEW k \in Nat, k \in G PROVE k + 1 \in G
  <2>1. SUFFICES ASSUME k + 1 <= Len(ops) PROVE u[k + 1] = v[k + 1]
    OBVIOUS
  <2>2. k <= Len(ops) /\ k + 1 \in 1 .. Len(ops) /\ (k + 1) - 1 = k
    BY <2>1
  <2>3. u[k] = v[k]
    BY <1>2, <2>2
  <2>4. u[k + 1] = Then(u[k], meaning[ops[k + 1]][u[k].mem])
        /\ v[k + 1] = Then(v[k], other[ops[k + 1]][v[k].mem])
    BY <2>2 DEF Chain
  <2> QED BY <2>2, <2>3, <2>4
<1> HIDE DEF G
<1>3. \A k \in Nat : k \in G
  BY <1>1, <1>2, Induct
<1> QED BY <1>3 DEF G

LEMMA ChainLen ==
    ASSUME NEW meaning, NEW ops \in Seq(Syntax), NEW m, NEW u, Chain(u, meaning, ops, m)
    PROVE  \A k \in 0 .. Len(ops) : Len(u[k].vals) = k
<1> DEFINE G == {k \in Nat : k <= Len(ops) => Len(u[k].vals) = k}
<1>1. 0 \in G
  BY DEF Chain, Nothing
<1>2. ASSUME NEW k \in Nat, k \in G PROVE k + 1 \in G
  <2>1. SUFFICES ASSUME k + 1 <= Len(ops) PROVE Len(u[k + 1].vals) = k + 1
    OBVIOUS
  <2>2. k <= Len(ops) /\ k + 1 \in 1 .. Len(ops) /\ (k + 1) - 1 = k /\ k \in 0 .. Len(ops)
    BY <2>1
  <2>3. u[k + 1] = Then(u[k], meaning[ops[k + 1]][u[k].mem]) /\ u[k] \in Run
    BY <2>2 DEF Chain
  <2>4. u[k].vals \in Seq(Val) /\ Len(u[k].vals) = k
    BY <1>2, <2>2, <2>3 DEF Run
  <2> DEFINE r == meaning[ops[k + 1]][u[k].mem]
  <2>5. u[k + 1].vals = Append(u[k].vals, r.val)
    <3>1. u[k + 1] = Then(u[k], r)
      BY <2>3
    <3> HIDE DEF r
    <3>2. Then(u[k], r).vals = Append(u[k].vals, r.val)
      BY ONLY ThenIs, Zenon
    <3> QED BY ONLY <3>1, <3>2, Zenon
  <2> HIDE DEF r
  <2>6. IsList(u[k].vals)
    BY ONLY <2>4, Zenon DEF IsList
  <2> QED BY <2>4, <2>5, <2>6, ListEnds
<1> HIDE DEF G
<1>3. \A k \in Nat : k \in G
  BY <1>1, <1>2, Induct
<1> QED BY <1>3 DEF G

\* The operands, evaluated: as many values.
LEMMA InOrderType ==
    ASSUME NEW meaning \in Meanings, NEW ops \in Seq(Syntax), NEW m \in Memory
    PROVE  InOrder(meaning, ops, m) \in Run /\ Len(InOrder(meaning, ops, m).vals) = Len(ops)
<1>1. PICK u : Chain(u, meaning, ops, m) /\ InOrder(meaning, ops, m) = u[Len(ops)]
  BY InOrderChain
<1>2. Len(ops) \in 0 .. Len(ops)
  OBVIOUS
<1>3. u \in [0 .. Len(ops) -> Run]
  BY <1>1 DEF Chain
<1>4. u[Len(ops)] \in Run
  BY <1>2, <1>3
<1>5. Len(u[Len(ops)].vals) = Len(ops)
  BY <1>1, <1>2, ChainLen
<1> QED BY <1>1, <1>4, <1>5

LEMMA InOrderLocal ==
    ASSUME NEW meaning \in Meanings, NEW other, NEW ops \in Seq(Syntax),
           NEW m \in Memory, \A k \in 1 .. Len(ops) : meaning[ops[k]] = other[ops[k]]
    PROVE  InOrder(meaning, ops, m) = InOrder(other, ops, m)
<1>1. PICK u : Chain(u, meaning, ops, m) /\ InOrder(meaning, ops, m) = u[Len(ops)]
  BY InOrderChain
<1>2. PICK v : Chain(v, meaning, ops, m) /\ InOrder(other, ops, m) = v[Len(ops)]
  BY InOrderChain
<1> QED BY <1>1, <1>2, ChainsAgree

\* What the parser builds
LEMMA Parsed ==
    ASSUME NEW e \in Syntax
    PROVE  /\ e.ops \in Seq(Syntax) /\ e.ops \in Seq(Operands)
           /\ \A k \in 1 .. Len(e.ops) : e.ops[k] \in Syntax /\ Depth(e.ops[k]) < Depth(e)
           /\ Depth(e) \in Nat
           /\ \/ e.kind \in LeafKinds
              \/ e.kind \in UnaryKinds /\ Len(e.ops) = 1
              \/ e.kind \in PairKinds /\ Len(e.ops) = 2
              \/ e.kind \in CallKinds /\ Len(e.ops) >= 1
           /\ e.kind \in UnaryKinds => Len(e.ops) = 1
           /\ e.kind \in PairKinds => Len(e.ops) = 2
           /\ e.kind \in CallKinds => Len(e.ops) >= 1
<1>1. e.ops \in Seq(Operands) /\ Operands \subseteq Syntax
  BY OperandsAssumption DEF Syntax
<1>2. e.ops \in Seq(Syntax)
  BY <1>1
<1>3. \A k \in 1 .. Len(e.ops) : e.ops[k] \in Syntax /\ Depth(e.ops[k]) < Depth(e)
  BY <1>2, MeaningAssumption
<1>4. \/ e.kind \in LeafKinds
      \/ e.kind \in UnaryKinds /\ Len(e.ops) = 1
      \/ e.kind \in PairKinds /\ Len(e.ops) = 2
      \/ e.kind \in CallKinds /\ Len(e.ops) >= 1
  BY OperandsAssumption DEF Syntax
<1>5. /\ e.kind \in UnaryKinds => Len(e.ops) = 1
      /\ e.kind \in PairKinds => Len(e.ops) = 2
      /\ e.kind \in CallKinds => Len(e.ops) >= 1
  BY <1>4 DEF LeafKinds, UnaryKinds, PairKinds, CallKinds
<1> QED BY <1>1, <1>2, <1>3, <1>4, <1>5, MeaningAssumption

\* Constants and operators are values.
LEMMA ThreeIntegers == /\ Zero \in Val \ {Junk} /\ One \in Val \ {Junk} /\ Ones \in Val \ {Junk}
                   /\ Zero # One /\ Junk \notin Data /\ Data \subseteq Val /\ Junk \in Val
BY ExprCodegenAssumption, MeaningAssumption, SlotsAssumption

LEMMA FnVal ==
    ASSUME NEW a \in Val, NEW b \in Val
    PROVE  /\ \A op \in BinOps : Fn(op, a, b) \in Val
           /\ Fn("ne", a, b) \in Val /\ Fn("eq", a, b) \in Val
           /\ Fn("sub", a, b) \in Val /\ Fn("xor", a, b) \in Val
BY SlotsAssumption DEF BinOps

LEMMA TruthVal ==
    ASSUME NEW v \in Val
    PROVE  Truth(v) \in Val /\ (v # Junk => Truth(v) \in {Zero, One})
BY MeaningAssumption, ThreeIntegers, FnVal DEF Truth

\* Every way to be evaluated yields an outcome.
LEMMA DoesType ==
    ASSUME NEW v \in Val, NEW m \in Memory, NEW cs \in Seq(Seq(Val))
    PROVE  Does(v, m, cs) \in Outcome
BY DEF Does, Outcome

LEMMA UndefinedType == ASSUME NEW m \in Memory PROVE Undefined(m) \in Outcome
BY ThreeIntegers DEF Undefined, Outcome

LEMMA LogicalType ==
    ASSUME NEW meaning \in Meanings, NEW e \in Syntax, NEW m \in Memory,
           e.kind \in {"and", "or"}
    PROVE  Logical(meaning, e, m) \in Outcome
<1> DEFINE lhs == meaning[e.ops[1]][m]
           rhs == meaning[e.ops[2]][lhs.mem]
           decides == IF e.kind = "and" THEN Zero ELSE One
<1>1. e.ops[1] \in Syntax /\ e.ops[2] \in Syntax
  BY Parsed DEF LeafKinds, UnaryKinds, PairKinds, CallKinds
<1>2. lhs \in Outcome
  BY <1>1 DEF Meanings
<1>3. lhs.mem \in Memory /\ lhs.calls \in Seq(Seq(Val)) /\ lhs.val \in Val
  BY <1>2 DEF Outcome
<1>4. rhs \in Outcome
  BY <1>1, <1>3 DEF Meanings
<1>5. rhs.mem \in Memory /\ rhs.calls \in Seq(Seq(Val)) /\ rhs.val \in Val
  BY <1>4 DEF Outcome
<1>6. Logical(meaning, e, m) \in {Undefined(m), Does(decides, lhs.mem, lhs.calls),
                                   Does(Truth(rhs.val), rhs.mem, lhs.calls \o rhs.calls)}
  BY DEF Logical
<1>7. decides \in Val /\ Truth(rhs.val) \in Val /\ lhs.calls \o rhs.calls \in Seq(Seq(Val))
  <2>1. decides \in Val
    BY ThreeIntegers
  <2> HIDE DEF lhs, rhs, decides
  <2>2. Truth(rhs.val) \in Val
    BY <1>5, TruthVal
  <2>3. PICK a, b : a = lhs.calls /\ b = rhs.calls
    OBVIOUS
  <2>4. a \in Seq(Seq(Val)) /\ b \in Seq(Seq(Val))
    BY <1>3, <1>5, <2>3
  <2>5. a \o b \in Seq(Seq(Val))
    BY ONLY <2>4
  <2> QED BY <2>1, <2>2, <2>3, <2>5
<1> HIDE DEF lhs, rhs, decides
<1> QED BY <1>3, <1>5, <1>6, <1>7, DoesType, UndefinedType

LEMMA AppliedType ==
    ASSUME NEW e \in Syntax, NEW o \in Run, Len(o.vals) = Len(e.ops), NEW m \in Memory,
           e.kind \notin {"const", "addrof", "ident", "and", "or"}
    PROVE  Applied(e, o, m) \in Outcome
<1> DEFINE left == CASE e.kind = "assign" -> [o.mem EXCEPT ![o.vals[1]] = o.vals[2]]
                     [] e.kind \in CallKinds -> Effect(Tail(o.vals), o.mem)
                     [] OTHER -> o.mem
           made == IF e.kind \in CallKinds THEN Append(o.calls, o.vals) ELSE o.calls
<1>1. CASE ~o.ok \/ ~Defined(e, o)
  BY <1>1, UndefinedType DEF Applied
<1>2. CASE o.ok /\ Defined(e, o)
  <2>1. Applied(e, o, m) = Does(Operator(e, o), left, made)
    BY <1>2 DEF Applied
  <2>2. o.mem \in Memory /\ o.calls \in Seq(Seq(Val)) /\ o.vals \in Seq(Val)
    BY DEF Run
  <2>3. /\ o.vals[1] \in Val
        /\ e.kind \in PairKinds => o.vals[2] \in Val
    <3>1. Len(e.ops) \in Nat /\ (e.kind \in PairKinds => Len(e.ops) = 2)
      BY Parsed
    <3>2. Len(e.ops) >= 1
      <4>1. e.kind \notin LeafKinds
        BY DEF LeafKinds
      <4>2. e.kind \in LeafKinds \/ Len(e.ops) = 1 \/ Len(e.ops) = 2 \/ Len(e.ops) >= 1
        BY Parsed, Zenon
      <4> QED BY ONLY <4>1, <4>2
    <3>3. \A k \in 1 .. Len(e.ops) : o.vals[k] \in Val
      BY <2>2
    <3>4. 1 \in 1 .. Len(e.ops)
      BY <3>1, <3>2
    <3>5. ASSUME e.kind \in PairKinds PROVE 2 \in 1 .. Len(e.ops)
      <4>1. Len(e.ops) = 2
        BY <3>1, <3>5
      <4> QED BY ONLY <4>1
    <3> QED BY <3>3, <3>4, <3>5
  <2>4. made \in Seq(Seq(Val))
    BY <2>2
  <2>5. left \in Memory
    <3>1. CASE e.kind = "assign"
      <4>1. left = [o.mem EXCEPT ![o.vals[1]] = o.vals[2]]
        BY <3>1 DEF CallKinds
      <4>2. o.vals[2] \in Val
        BY <2>3, <3>1 DEF PairKinds
      <4> HIDE DEF left
      <4> QED BY <2>2, <4>1, <4>2 DEF Memory
    <3>2. CASE e.kind \in CallKinds
      <4>1. Effect(Tail(o.vals), o.mem) \in Memory
        BY <1>2, <3>2 DEF Defined, CallKinds
      <4> QED BY <3>2, <4>1 DEF CallKinds
    <3>3. CASE e.kind # "assign" /\ e.kind \notin CallKinds
      BY <2>2, <3>3
    <3> QED BY <3>1, <3>2, <3>3
  <2>6. Operator(e, o) \in Val
    <3>1. CASE e.kind = "deref"
      <4>1. o.vals[1] \in Data
        BY <1>2, <3>1 DEF Defined
      <4>2. Operator(e, o) = o.mem[o.vals[1]]
        BY <3>1 DEF Operator
      <4> QED BY <2>2, <4>1, <4>2 DEF Memory
    <3>2. CASE e.kind = "cast"
      BY <2>3, <3>2 DEF Operator
    <3>3. CASE e.kind = "bool"
      BY <2>3, <3>3, TruthVal DEF Operator
    <3>4. CASE e.kind = "neg"
      BY <2>3, <3>4, FnVal, ThreeIntegers DEF Operator
    <3>5. CASE e.kind = "not"
      BY <2>3, <3>5, FnVal, ThreeIntegers DEF Operator
    <3>6. CASE e.kind = "bnot"
      BY <2>3, <3>6, FnVal, ThreeIntegers DEF Operator
    <3>7. CASE e.kind = "binary"
      <4>1. e.of \in BinOps
        BY <3>7, MeaningAssumption
      <4> QED BY <2>3, <3>7, <4>1, FnVal DEF Operator, PairKinds
    <3>8. CASE e.kind \in {"comma", "assign"}
      BY <2>3, <3>8 DEF Operator, PairKinds
    <3>9. CASE e.kind = "call"
      BY <1>2, <3>9 DEF Operator, Defined, CallKinds
    <3>10. CASE e.kind = "voidcall"
      BY <3>10, ThreeIntegers DEF Operator
    <3> QED BY <3>1, <3>2, <3>3, <3>4, <3>5, <3>6, <3>7, <3>8, <3>9, <3>10, Parsed
            DEF LeafKinds, UnaryKinds, PairKinds, CallKinds
  <2> HIDE DEF left, made
  <2> QED BY <2>1, <2>4, <2>5, <2>6, DoesType
<1> QED BY <1>1, <1>2

LEMMA EvaluatedType ==
    ASSUME NEW meaning \in Meanings, NEW e \in Syntax, NEW m \in Memory
    PROVE  Evaluated(meaning, e, m) \in Outcome
<1>1. CASE e.kind \in {"const", "addrof"}
  <2>1. e.of \in Val /\ <<>> \in Seq(Seq(Val))
    BY <1>1, MeaningAssumption
  <2> QED BY <1>1, <2>1, DoesType DEF Evaluated
<1>2. CASE e.kind = "ident"
  <2>1. m[e.of] \in Val /\ <<>> \in Seq(Seq(Val))
    BY <1>2, MeaningAssumption DEF Memory
  <2> QED BY <1>2, <2>1, DoesType DEF Evaluated
<1>3. CASE e.kind \in {"and", "or"}
  BY <1>3, LogicalType DEF Evaluated
<1>4. CASE e.kind \notin {"const", "addrof", "ident", "and", "or"}
  <2> DEFINE o == InOrder(meaning, e.ops, m)
  <2>1. o \in Run /\ Len(o.vals) = Len(e.ops)
    BY InOrderType, Parsed
  <2>2. Evaluated(meaning, e, m) = Applied(e, o, m)
    BY <1>4 DEF Evaluated
  <2> HIDE DEF o
  <2> QED BY <1>4, <2>1, <2>2, AppliedType
<1> QED BY <1>1, <1>2, <1>3, <1>4

\* What an expression means depends on what its operands mean.
LEMMA EvaluatedLocal ==
    ASSUME NEW meaning \in Meanings, NEW other, NEW e \in Syntax, NEW m \in Memory,
           \A k \in 1 .. Len(e.ops) : meaning[e.ops[k]] = other[e.ops[k]]
    PROVE  Evaluated(meaning, e, m) = Evaluated(other, e, m)
<1>1. CASE e.kind \in {"const", "addrof", "ident"}
  BY <1>1 DEF Evaluated
<1>2. CASE e.kind \in {"and", "or"}
  <2>1. Len(e.ops) = 2
    BY <1>2, Parsed DEF PairKinds
  <2>2. meaning[e.ops[1]] = other[e.ops[1]] /\ meaning[e.ops[2]] = other[e.ops[2]]
    BY <2>1
  <2>3. Logical(meaning, e, m) = Logical(other, e, m)
    BY ONLY <2>2 DEF Logical
  <2> QED BY <1>2, <2>3 DEF Evaluated
<1>3. CASE e.kind \notin {"const", "addrof", "ident", "and", "or"}
  <2>1. InOrder(meaning, e.ops, m) = InOrder(other, e.ops, m)
    BY InOrderLocal, Parsed
  <2>2. /\ Evaluated(meaning, e, m) = Applied(e, InOrder(meaning, e.ops, m), m)
        /\ Evaluated(other, e, m) = Applied(e, InOrder(other, e.ops, m), m)
    BY <1>3 DEF Evaluated
  <2> QED BY <2>1, <2>2
<1> QED BY <1>1, <1>2, <1>3

LEMMA MeaningRecursion ==
    ASSUME NEW rank, NEW step, NEW r \in [Memory -> Outcome],
           Descends(Syntax, [Memory -> Outcome], rank, step)
    PROVE  \E f \in [Syntax -> [Memory -> Outcome]] : \A x \in Syntax : f[x] = step[x][f]
BY Recursion

\* Meaning says of every expression and every memory what the code compiled
\* for it (tacc_cg_compile_expr) has to do: the recursion over the operands is
\* well founded and yields a value, a memory and a list of calls.
THEOREM MeaningIs ==
    /\ Meaning \in Meanings
    /\ \A e \in Syntax, m \in Memory : Meaning[e][m] = Evaluated(Meaning, e, m)
<1> DEFINE rank == [e \in Syntax |-> Depth(e)]
           R == [Memory -> Outcome]
           next(e, f) == [m \in Memory |-> Evaluated(f, e, m)]
           step == [e \in Syntax |-> [f \in Meanings |-> next(e, f)]]
           Is(f) == f = [e \in Syntax |-> [m \in Memory |-> Evaluated(f, e, m)]]
           it == CHOOSE f : Is(f)
<1>1. Meanings = [Syntax -> R]
  BY DEF Meanings
<1>2. \A e \in Syntax, f \in Meanings : next(e, f) \in R
  BY EvaluatedType
<1>3. Descends(Syntax, R, rank, step)
  <2>1. rank \in [Syntax -> Nat]
    BY MeaningAssumption
  <2>2. step \in [Syntax -> [Meanings -> R]]
    <3> HIDE DEF next, R
    <3> QED BY <1>2
  <2>3. ASSUME NEW x \in Syntax, NEW f \in [Syntax -> R], NEW g \in [Syntax -> R],
               \A y \in Syntax : rank[y] < rank[x] => f[y] = g[y]
        PROVE  step[x][f] = step[x][g]
    <3>1. \A k \in 1 .. Len(x.ops) : f[x.ops[k]] = g[x.ops[k]]
      BY <2>3, Parsed
    <3>2. f \in Meanings /\ g \in Meanings
      BY <1>1
    <3>3. \A m \in Memory : Evaluated(f, x, m) = Evaluated(g, x, m)
      BY <3>1, <3>2, EvaluatedLocal
    <3>4. next(x, f) = next(x, g)
      BY <3>3
    <3> HIDE DEF next
    <3> QED BY <3>2, <3>4
  <2> HIDE DEF rank, step, R
  <2> QED BY <1>1, <2>1, <2>2, <2>3 DEF Descends
<1>4. PICK f \in Meanings : \A x \in Syntax : f[x] = step[x][f]
  <2>2. \E r : r \in R
    <3>1. [m \in Memory |-> Undefined(m)] \in R
      BY UndefinedType
    <3> HIDE DEF R
    <3> QED BY <3>1
  <2>3. PICK r \in R : TRUE
    BY <2>2
  <2> HIDE DEF step, rank
  <2>4. \E f \in [Syntax -> [Memory -> Outcome]] : \A x \in Syntax : f[x] = step[x][f]
    BY <1>3, <2>3, MeaningRecursion
  <2> QED BY <1>1, <2>4
<1>5. Is(f)
  <2>1. f = [e \in Syntax |-> f[e]]
    BY DEF Meanings
  <2>2. \A e \in Syntax : f[e] = next(e, f)
    <3> HIDE DEF next
    <3> QED BY <1>4
  <2> QED BY <2>1, <2>2
<1>6. Is(it)
  <2> HIDE DEF Is
  <2> QED BY <1>5
<1>7. Meaning = it
  BY DEF Meaning
<1>8. Is(Meaning)
  <2> HIDE DEF Is, it
  <2> QED BY <1>6, <1>7
<1>9. \A e \in Syntax, m \in Memory : Meaning[e][m] = Evaluated(Meaning, e, m)
  <2> SUFFICES ASSUME NEW e \in Syntax, NEW m \in Memory
               PROVE  Meaning[e][m] = Evaluated(Meaning, e, m)
    OBVIOUS
  <2> DEFINE M == Meaning
  <2>1. \A x \in Syntax : M[x] = [n \in Memory |-> Evaluated(M, x, n)]
    BY <1>8
  <2> HIDE DEF M
  <2>2. M[e] = [n \in Memory |-> Evaluated(M, e, n)]
    BY <2>1
  <2>3. M[e][m] = Evaluated(M, e, m)
    BY <2>2
  <2> QED BY <2>3 DEF M
<1>10. ASSUME NEW k \in Nat
       PROVE  \A e \in Syntax : Depth(e) < k => Meaning[e] = f[e]
  <2> DEFINE G == {j \in Nat : \A e \in Syntax : Depth(e) < j => Meaning[e] = f[e]}
  <2>1. 0 \in G
    BY MeaningAssumption
  <2>2. ASSUME NEW j \in Nat, j \in G PROVE j + 1 \in G
    <3>1. ASSUME NEW e \in Syntax, Depth(e) < j + 1 PROVE Meaning[e] = f[e]
      <4>1. \A i \in 1 .. Len(e.ops) : e.ops[i] \in Syntax /\ Depth(e.ops[i]) < j
        BY <3>1, Parsed, MeaningAssumption
      <4>2. \A i \in 1 .. Len(e.ops) : f[e.ops[i]] = Meaning[e.ops[i]]
        BY <2>2, <4>1
      <4>3. \A m \in Memory : Evaluated(f, e, m) = Evaluated(Meaning, e, m)
        BY <4>2, EvaluatedLocal
      <4>4. f[e] = [m \in Memory |-> Evaluated(f, e, m)]
        BY <1>5
      <4>5. Meaning[e] = [m \in Memory |-> Evaluated(Meaning, e, m)]
        BY <1>8
      <4> QED BY <4>3, <4>4, <4>5
    <3> QED BY <3>1
  <2> HIDE DEF G
  <2>3. \A j \in Nat : j \in G
    BY <2>1, <2>2, Induct
  <2>4. k \in G
    BY <2>3
  <2> QED BY <2>4 DEF G
<1>11. \A e \in Syntax : Meaning[e] = f[e]
  <2> SUFFICES ASSUME NEW e \in Syntax PROVE Meaning[e] = f[e]
    OBVIOUS
  <2>1. Depth(e) \in Nat /\ Depth(e) + 1 \in Nat /\ Depth(e) < Depth(e) + 1
    BY MeaningAssumption
  <2> QED BY <1>10, <2>1
<1>12. Meaning \in Meanings
  <2>1. Meaning = [e \in Syntax |-> Meaning[e]] /\ f = [e \in Syntax |-> f[e]]
    BY <1>8 DEF Meanings
  <2>2. Meaning = f
    BY <1>11, <2>1
  <2> QED BY <2>2
<1> QED BY <1>9, <1>12

LEMMA FitsRecursion ==
    ASSUME NEW rank, NEW step, NEW r \in [BOOLEAN -> BOOLEAN],
           Descends(Syntax, [BOOLEAN -> BOOLEAN], rank, step)
    PROVE  \E f \in [Syntax -> [BOOLEAN -> BOOLEAN]] : \A x \in Syntax : f[x] = step[x][f]
BY Recursion

FitsIn(f, e, alone) ==
    /\ e.kind \in {"and", "or"} => alone
    /\ \A k \in 1 .. Len(e.ops) : f[e.ops[k]][alone /\ k \in First(e)]

\* Fits is defined by what it says.
LEMMA FitsIs ==
    \A e \in Syntax, alone \in BOOLEAN : Fits[e][alone] = FitsIn(Fits, e, alone)
<1> DEFINE rank == [e \in Syntax |-> Depth(e)]
           R == [BOOLEAN -> BOOLEAN]
           next(e, f) == [alone \in BOOLEAN |-> FitsIn(f, e, alone)]
           step == [e \in Syntax |-> [f \in [Syntax -> R] |-> next(e, f)]]
           Is(f) == f = [e \in Syntax |-> [alone \in BOOLEAN |-> FitsIn(f, e, alone)]]
           It(f) == f = [e \in Syntax |-> [alone \in BOOLEAN |->
                            /\ e.kind \in {"and", "or"} => alone
                            /\ \A k \in 1 .. Len(e.ops) : f[e.ops[k]][alone /\ k \in First(e)]]]
           it == CHOOSE f : It(f)
<1>1. ASSUME NEW e \in Syntax, NEW f, NEW alone \in BOOLEAN PROVE FitsIn(f, e, alone) \in BOOLEAN
  BY DEF FitsIn
<1>2. \A e \in Syntax, f \in [Syntax -> R] : next(e, f) \in R
  BY <1>1
<1>3. Descends(Syntax, R, rank, step)
  <2>1. rank \in [Syntax -> Nat]
    BY MeaningAssumption
  <2>2. step \in [Syntax -> [[Syntax -> R] -> R]]
    <3> HIDE DEF next, R
    <3> QED BY <1>2
  <2>3. ASSUME NEW x \in Syntax, NEW f \in [Syntax -> R], NEW g \in [Syntax -> R],
               \A y \in Syntax : rank[y] < rank[x] => f[y] = g[y]
        PROVE  step[x][f] = step[x][g]
    <3>1. \A k \in 1 .. Len(x.ops) : f[x.ops[k]] = g[x.ops[k]]
      BY <2>3, Parsed
    <3>2. \A alone \in BOOLEAN : FitsIn(f, x, alone) = FitsIn(g, x, alone)
      BY <3>1 DEF FitsIn
    <3>3. next(x, f) = next(x, g)
      BY <3>2
    <3> HIDE DEF next
    <3> QED BY <3>3
  <2> HIDE DEF rank, step, R
  <2> QED BY <2>1, <2>2, <2>3 DEF Descends
<1>4. PICK f \in [Syntax -> R] : \A x \in Syntax : f[x] = step[x][f]
  <2>1. PICK r : r \in R
    <3>1. [alone \in BOOLEAN |-> TRUE] \in R
      OBVIOUS
    <3> HIDE DEF R
    <3> QED BY <3>1
  <2> HIDE DEF step, rank
  <2>2. \E f \in [Syntax -> [BOOLEAN -> BOOLEAN]] : \A x \in Syntax : f[x] = step[x][f]
    BY <1>3, <2>1, FitsRecursion
  <2> QED BY <2>2
<1>5. Is(f)
  <2>1. f = [e \in Syntax |-> f[e]]
    OBVIOUS
  <2>2. \A e \in Syntax : f[e] = next(e, f)
    <3> HIDE DEF next, R
    <3> QED BY <1>4
  <2> QED BY <2>1, <2>2
<1>6. ASSUME NEW g PROVE Is(g) <=> It(g)
  BY DEF FitsIn
<1>7. It(f)
  <2> HIDE DEF It, Is
  <2> QED BY <1>5, <1>6
<1>8. It(it)
  <2> HIDE DEF It
  <2> QED BY <1>7
<1>9. Fits = it
  BY DEF Fits
<1>10. Is(Fits)
  <2> HIDE DEF Is, It, it
  <2> QED BY <1>6, <1>8, <1>9
<1>11. ASSUME NEW e \in Syntax, NEW alone \in BOOLEAN PROVE Fits[e][alone] = FitsIn(Fits, e, alone)
  <2> DEFINE F == Fits
  <2>1. \A x \in Syntax : F[x] = [a \in BOOLEAN |-> FitsIn(F, x, a)]
    BY <1>10
  <2> HIDE DEF F
  <2>2. F[e] = [a \in BOOLEAN |-> FitsIn(F, e, a)]
    BY <2>1
  <2>3. F[e][alone] = FitsIn(F, e, alone)
    BY <2>2
  <2> QED BY <2>3 DEF F
<1> QED BY <1>11

-----------------------------------------------------------------------------
(* Runs of the meaning: what the items still to be compiled make of the    *)
(* values on the stack, the memory and the calls.                          *)

\* The emitted code runs: the values of the slots, memory, the calls so far.
At(s, m, c) ==
    [vals |-> s, height |-> 0, mem |-> m, calls |-> c, skip |-> 0, land |-> Junk,
     ended |-> FALSE, out |-> Junk]

\* It is jumped over, to the n-th enclosing label, with h slots and x in the
\* register of the label.
Jumped(h, m, c, n, x) ==
    [vals |-> <<>>, height |-> h, mem |-> m, calls |-> c, skip |-> n, land |-> x,
     ended |-> FALSE, out |-> Junk]

\* The statement is over and has seen o; nothing is said of junk.
Ended(m, c, o) ==
    [vals |-> <<>>, height |-> 0, mem |-> m, calls |-> c, skip |-> 0, land |-> Junk,
     ended |-> TRUE, out |-> o]

Known == {"compile", "load", "deref", "convert", "binary", "pop", "dup", "swap", "rot",
          "store", "call", "voidcall", "branch", "join", "end"}

\* Item i, in a statement of use u, takes the values s, memory m and calls c to b.
Acts(u, i, s, m, c, b) ==
    /\ i.do = "compile" =>
          /\ i.of \in Syntax /\ Meaning[i.of][m].ok /\ Fits[i.of][s = <<>>]
          /\ b = At(Append(s, Meaning[i.of][m].val), Meaning[i.of][m].mem,
                    c \o Meaning[i.of][m].calls)
    /\ i.do = "load" => i.of \in Val /\ b = At(Append(s, i.of), m, c)
    /\ i.do = "deref" =>
          \E t \in Seq(Val), x \in Data : s = Append(t, x) /\ b = At(Append(t, m[x]), m, c)
    /\ i.do \in {"convert", "join"} =>
          \E t \in Seq(Val), x \in Val : s = Append(t, x) /\ b = At(s, m, c)
    /\ i.do = "binary" =>
          \E t \in Seq(Val), x, y \in Val \ {Junk} :
             s = Append(Append(t, x), y) /\ i.of \in BinOps /\ b = At(Append(t, Fn(i.of, x, y)), m, c)
    /\ i.do = "pop" =>
          \E t \in Seq(Val), x \in Val : s = Append(t, x) /\ b = At(t, m, c)
    /\ i.do = "dup" =>
          \E t \in Seq(Val), x \in Val : s = Append(t, x) /\ b = At(Append(s, x), m, c)
    /\ i.do = "swap" =>
          \E t \in Seq(Val), x, y \in Val :
             s = Append(Append(t, x), y) /\ b = At(Append(Append(t, y), x), m, c)
    /\ i.do = "rot" =>
          \E t \in Seq(Val), x, y, z \in Val :
             /\ s = Append(Append(Append(t, x), y), z)
             /\ b = At(Append(Append(Append(t, y), z), x), m, c)
    /\ i.do = "store" =>
          \E t \in Seq(Val), x \in Data, y \in Val \ {Junk} :
             s = Append(Append(t, x), y) /\ b = At(t, [m EXCEPT ![x] = y], c)
    /\ i.do \in CallKinds =>
          \E t \in Seq(Val), w \in Seq(Val \ {Junk}) :
             /\ s = t \o w /\ i.of \in Nat /\ Len(w) = i.of + 1
             /\ Returns(Tail(w)) \in Val /\ Effect(Tail(w), m) \in Memory
             /\ b = At(Append(t, IF i.do = "voidcall" THEN Junk ELSE Returns(Tail(w))),
                       Effect(Tail(w), m), Append(c, w))
    /\ i.do = "branch" =>
          \E x \in {Zero, One} :
             /\ s = <<x>> /\ i.of \in BOOLEAN
             /\ b = IF i.of <=> x = Zero THEN Jumped(0, m, c, 1, x) ELSE At(<<>>, m, c)
    /\ i.do = "end" =>
          /\ i.of = u
          /\ u = "statement" => s = <<>> /\ b = Ended(m, c, Junk)
          /\ u # "statement" => \E x \in Val : s = <<x>> /\ b = Ended(m, c, x)

\* Item i is jumped over, or is the label.
Skips(u, i, a, b) ==
    \/ \E k, l \in Nat : /\ i.do # "end" /\ l >= 1
                         /\ Step(u, i, a.height, a.skip, k, l)
                         /\ b = Jumped(k, a.mem, a.calls, l, a.land)
    \/ /\ i.do = "join" /\ a.skip = 1 /\ a.height = 1
       /\ a.land = IF i.of = "and" THEN Zero ELSE One
       /\ b = At(<<a.land>>, a.mem, a.calls)

Moves(u, i, a, b) ==
    /\ i.do \in Known /\ ~a.ended
    /\ a.skip = 0 => Acts(u, i, a.vals, a.mem, a.calls, b)
    /\ a.skip # 0 => Skips(u, i, a, b)

Path(u, t, a, b) ==
    /\ IsList(t)
    /\ \E f : /\ f[1] = a /\ f[Len(t) + 1] = b
              /\ \A k \in 1 .. Len(t) : Moves(u, t[k], f[k], f[k + 1])

\* A path that has not ended makes a move.
LEMMA PathOnward ==
    ASSUME NEW u, NEW t, t # <<>>, NEW a, NEW b, Path(u, t, a, b)
    PROVE  \E d : Moves(u, Head(t), a, d) /\ Path(u, Tail(t), d, b)
<1>1. PICK S : t \in Seq(S)
  BY DEF Path, IsList
<1>2. Len(t) \in Nat \ {0} /\ Tail(t) \in Seq(S) /\ Len(Tail(t)) = Len(t) - 1
      /\ Head(t) = t[1] /\ \A k \in 1 .. Len(Tail(t)) : Tail(t)[k] = t[k + 1]
  BY <1>1
<1>3. PICK f : /\ f[1] = a /\ f[Len(t) + 1] = b
               /\ \A k \in 1 .. Len(t) : Moves(u, t[k], f[k], f[k + 1])
  BY DEF Path
<1>4. Moves(u, Head(t), a, f[2])
  BY <1>2, <1>3
<1> DEFINE g == [k \in 1 .. Len(Tail(t)) + 1 |-> f[k + 1]]
<1>5. ASSUME NEW k \in 1 .. Len(Tail(t)) PROVE Moves(u, Tail(t)[k], g[k], g[k + 1])
  <2>1. k + 1 \in 1 .. Len(t) /\ k \in 1 .. Len(Tail(t)) + 1 /\ k + 1 \in 1 .. Len(Tail(t)) + 1
    BY <1>2
  <2>2. g[k] = f[k + 1] /\ g[k + 1] = f[k + 1 + 1]
    BY <2>1
  <2>3. Moves(u, t[k + 1], f[k + 1], f[k + 1 + 1])
    BY <1>3, <2>1
  <2> HIDE DEF g
  <2> QED BY <1>2, <2>2, <2>3
<1>6. g[1] = f[2] /\ g[Len(Tail(t)) + 1] = b
  BY <1>2, <1>3
<1>7. IsList(Tail(t))
  BY ONLY <1>2, Zenon DEF IsList
<1> HIDE DEF g
<1> QED BY <1>4, <1>5, <1>6, <1>7 DEF Path

\* One path after another.
LEMMA PathFurther ==
    ASSUME NEW u, NEW s, NEW t, NEW a, NEW b, NEW d, Path(u, s, a, b), Path(u, t, b, d)
    PROVE  Path(u, s \o t, a, d)
<1>1. PICK S : s \in Seq(S)
  BY DEF Path, IsList
<1>2. PICK T : t \in Seq(T)
  BY DEF Path, IsList
<1>3. s \in Seq(S \cup T) /\ t \in Seq(S \cup T)
  BY <1>1, <1>2
<1>4. s \o t \in Seq(S \cup T)
  BY <1>3
<1>a. IsList(s \o t)
  BY ONLY <1>4, Zenon DEF IsList
<1> DEFINE m == Len(s)
           n == Len(t)
<1>5. /\ m \in Nat /\ n \in Nat /\ Len(s \o t) = m + n
      /\ \A j \in 1 .. m + n : (s \o t)[j] = IF j <= m THEN s[j] ELSE t[j - m]
  BY <1>3
<1>6. PICK f : f[1] = a /\ f[m + 1] = b /\ \A k \in 1 .. m : Moves(u, s[k], f[k], f[k + 1])
  BY DEF Path
<1>7. PICK g : g[1] = b /\ g[n + 1] = d /\ \A k \in 1 .. n : Moves(u, t[k], g[k], g[k + 1])
  BY DEF Path
<1> DEFINE x == [j \in 1 .. m + n + 1 |-> IF j <= m THEN f[j] ELSE g[j - m]]
<1>8. ASSUME NEW j \in 1 .. m + n PROVE Moves(u, (s \o t)[j], x[j], x[j + 1])
  <2>1. CASE j < m
    <3>1. j \in 1 .. m /\ j + 1 <= m /\ j \in 1 .. m + n + 1 /\ j + 1 \in 1 .. m + n + 1
      BY <1>5, <2>1
    <3>2. x[j] = f[j] /\ x[j + 1] = f[j + 1]
      BY <3>1
    <3>3. Moves(u, s[j], f[j], f[j + 1]) /\ (s \o t)[j] = s[j]
      BY <1>5, <1>6, <3>1
    <3> HIDE DEF x
    <3> QED BY <3>2, <3>3
  <2>2. CASE j = m
    <3>1. j \in 1 .. m /\ ~(j + 1 <= m) /\ j \in 1 .. m + n + 1 /\ j + 1 \in 1 .. m + n + 1
          /\ (j + 1) - m = 1
      BY <1>5, <2>2
    <3>2. x[j] = f[j] /\ x[j + 1] = g[(j + 1) - m]
      BY <3>1
    <3>3. Moves(u, s[j], f[j], f[j + 1]) /\ (s \o t)[j] = s[j]
      BY <1>5, <1>6, <3>1
    <3>4. g[(j + 1) - m] = f[j + 1]
      BY <1>6, <1>7, <2>2, <3>1
    <3> HIDE DEF x
    <3> QED BY <3>2, <3>3, <3>4
  <2>3. CASE j > m
    <3>1. j - m \in 1 .. n /\ ~(j <= m) /\ ~(j + 1 <= m) /\ (j + 1) - m = (j - m) + 1
          /\ j \in 1 .. m + n + 1 /\ j + 1 \in 1 .. m + n + 1
      BY <1>5, <2>3
    <3>2. x[j] = g[j - m] /\ x[j + 1] = g[(j + 1) - m]
      BY <3>1
    <3>3. Moves(u, t[j - m], g[j - m], g[(j - m) + 1]) /\ (s \o t)[j] = t[j - m]
      BY <1>5, <1>7, <3>1
    <3> HIDE DEF x
    <3> QED BY <3>1, <3>2, <3>3
  <2> QED BY <1>5, <2>1, <2>2, <2>3
<1>9. x[1] = a /\ x[m + n + 1] = d
  <2>1. CASE m = 0
    BY <1>5, <1>6, <1>7, <2>1
  <2>2. CASE m > 0
    BY <1>5, <1>6, <1>7, <2>2
  <2> QED BY <1>5, <2>1, <2>2
<1> HIDE DEF x, m, n
<1> QED BY <1>5, <1>8, <1>9, <1>a DEF Path

\* Short paths
LEMMA PathNone == ASSUME NEW u, NEW a PROVE Path(u, <<>>, a, a)
<1>1. <<>> \in Seq({}) /\ Len(<<>>) = 0
  OBVIOUS
<1>2. IsList(<<>>)
  BY ONLY <1>1, Zenon DEF IsList
<1>3. PICK f : f = [k \in 1 .. 1 |-> a]
  OBVIOUS
<1>4. f[1] = a
  BY <1>3
<1> QED BY <1>1, <1>2, <1>4 DEF Path

LEMMA PathOne ==
    ASSUME NEW u, NEW i, NEW a, NEW b, Moves(u, i, a, b)
    PROVE  Path(u, <<i>>, a, b)
<1> DEFINE f == <<a, b>>
           t == <<i>>
<1>1. t \in Seq({i}) /\ Len(t) = 1 /\ t[1] = i /\ f[1] = a /\ f[2] = b
  OBVIOUS
<1> HIDE DEF f, t
<1>2. IsList(t)
  BY ONLY <1>1, Zenon DEF IsList
<1>3. \A k \in 1 .. Len(t) : Moves(u, t[k], f[k], f[k + 1])
  BY <1>1
<1>4. Path(u, t, a, b)
  BY <1>1, <1>2, <1>3 DEF Path
<1> QED BY <1>4 DEF t

\* One move more in front of a path.
LEMMA PathBefore ==
    ASSUME NEW u, NEW S, NEW t \in Seq(S), t # <<>>, NEW a, NEW b, NEW d,
           Moves(u, Head(t), a, d), Path(u, Tail(t), d, b)
    PROVE  Path(u, t, a, b)
<1> DEFINE s == <<Head(t)>> \o Tail(t)
<1>2. Head(t) \in S /\ Tail(t) \in Seq(S) /\ Head(t) = t[1]
      /\ Len(t) \in Nat /\ Len(Tail(t)) = Len(t) - 1
      /\ \A j \in 1 .. Len(t) - 1 : Tail(t)[j] = t[j + 1]
  OBVIOUS
<1>3. s \in Seq(S) /\ Len(s) = Len(t) /\ \A j \in 1 .. Len(t) : s[j] = t[j]
  BY <1>2
<1>4. s = t
  <2> HIDE DEF s
  <2> QED BY <1>3
<1>5. Path(u, <<Head(t)>>, a, d)
  BY PathOne
<1>6. Path(u, s, a, b)
  BY <1>5, PathFurther
<1> HIDE DEF s
<1> QED BY <1>4, <1>6

LEMMA PathTwo ==
    ASSUME NEW u, NEW i, NEW j,
           NEW a, NEW b, NEW c,
           Moves(u, i, a, b), Moves(u, j, b, c)
    PROVE  Path(u, <<i, j>>, a, c)
<1> DEFINE t == <<i, j>>
           S == {i, j}
<1>1. t \in Seq(S) /\ t # <<>> /\ Head(t) = i /\ Tail(t) = <<j>>
  OBVIOUS
<1>2. Path(u, <<j>>, b, c)
  BY PathOne
<1> HIDE DEF t, S
<1>3. Path(u, Tail(t), b, c) /\ Moves(u, Head(t), a, b)
  BY <1>1, <1>2
<1>4. Path(u, t, a, c)
  BY <1>1, <1>3, PathBefore
<1> QED BY <1>4 DEF t

LEMMA PathThree ==
    ASSUME NEW u, NEW i, NEW j, NEW k,
           NEW a, NEW b, NEW c, NEW d,
           Moves(u, i, a, b), Moves(u, j, b, c), Moves(u, k, c, d)
    PROVE  Path(u, <<i, j, k>>, a, d)
<1> DEFINE t == <<i, j, k>>
           S == {i, j, k}
<1>1. t \in Seq(S) /\ t # <<>> /\ Head(t) = i /\ Tail(t) = <<j, k>>
  OBVIOUS
<1>2. Path(u, <<j, k>>, b, d)
  BY PathTwo
<1> HIDE DEF t, S
<1>3. Path(u, Tail(t), b, d) /\ Moves(u, Head(t), a, b)
  BY <1>1, <1>2
<1>4. Path(u, t, a, d)
  BY <1>1, <1>3, PathBefore
<1> QED BY <1>4 DEF t

LEMMA PathFour ==
    ASSUME NEW u, NEW i, NEW j, NEW k, NEW l,
           NEW a, NEW b, NEW c, NEW d, NEW e,
           Moves(u, i, a, b), Moves(u, j, b, c), Moves(u, k, c, d), Moves(u, l, d, e)
    PROVE  Path(u, <<i, j, k, l>>, a, e)
<1> DEFINE t == <<i, j, k, l>>
           S == {i, j, k, l}
<1>1. t \in Seq(S) /\ t # <<>> /\ Head(t) = i /\ Tail(t) = <<j, k, l>>
  OBVIOUS
<1>2. Path(u, <<j, k, l>>, b, e)
  BY PathThree
<1> HIDE DEF t, S
<1>3. Path(u, Tail(t), b, e) /\ Moves(u, Head(t), a, b)
  BY <1>1, <1>2
<1>4. Path(u, t, a, e)
  BY <1>1, <1>3, PathBefore
<1> QED BY <1>4 DEF t

LEMMA PathFive ==
    ASSUME NEW u, NEW i, NEW j, NEW k, NEW l, NEW m,
           NEW a, NEW b, NEW c, NEW d, NEW e, NEW f,
           Moves(u, i, a, b), Moves(u, j, b, c), Moves(u, k, c, d), Moves(u, l, d, e),
           Moves(u, m, e, f)
    PROVE  Path(u, <<i, j, k, l, m>>, a, f)
<1> DEFINE t == <<i, j, k, l, m>>
           S == {i, j, k, l, m}
<1>1. t \in Seq(S) /\ t # <<>> /\ Head(t) = i /\ Tail(t) = <<j, k, l, m>>
  OBVIOUS
<1>2. Path(u, <<j, k, l, m>>, b, f)
  BY PathFour
<1> HIDE DEF t, S
<1>3. Path(u, Tail(t), b, f) /\ Moves(u, Head(t), a, b)
  BY <1>1, <1>2
<1>4. Path(u, t, a, f)
  BY <1>1, <1>3, PathBefore
<1> QED BY <1>4 DEF t

LEMMA PathSix ==
    ASSUME NEW u, NEW i, NEW j, NEW k, NEW l, NEW m, NEW n,
           NEW a, NEW b, NEW c, NEW d, NEW e, NEW f, NEW g,
           Moves(u, i, a, b), Moves(u, j, b, c), Moves(u, k, c, d), Moves(u, l, d, e),
           Moves(u, m, e, f), Moves(u, n, f, g)
    PROVE  Path(u, <<i, j, k, l, m, n>>, a, g)
<1> DEFINE t == <<i, j, k, l, m, n>>
           S == {i, j, k, l, m, n}
<1>1. t \in Seq(S) /\ t # <<>> /\ Head(t) = i /\ Tail(t) = <<j, k, l, m, n>>
  OBVIOUS
<1>2. Path(u, <<j, k, l, m, n>>, b, g)
  BY PathFive
<1> HIDE DEF t, S
<1>3. Path(u, Tail(t), b, g) /\ Moves(u, Head(t), a, b)
  BY <1>1, <1>2
<1>4. Path(u, t, a, g)
  BY <1>1, <1>3, PathBefore
<1> QED BY <1>4 DEF t

LEMMA PathSeven ==
    ASSUME NEW u, NEW i, NEW j, NEW k, NEW l, NEW m, NEW n, NEW o,
           NEW a, NEW b, NEW c, NEW d, NEW e, NEW f, NEW g, NEW h,
           Moves(u, i, a, b), Moves(u, j, b, c), Moves(u, k, c, d), Moves(u, l, d, e),
           Moves(u, m, e, f), Moves(u, n, f, g), Moves(u, o, g, h)
    PROVE  Path(u, <<i, j, k, l, m, n, o>>, a, h)
<1> DEFINE t == <<i, j, k, l, m, n, o>>
           S == {i, j, k, l, m, n, o}
<1>1. t \in Seq(S) /\ t # <<>> /\ Head(t) = i /\ Tail(t) = <<j, k, l, m, n, o>>
  OBVIOUS
<1>2. Path(u, <<j, k, l, m, n, o>>, b, h)
  BY PathSix
<1> HIDE DEF t, S
<1>3. Path(u, Tail(t), b, h) /\ Moves(u, Head(t), a, b)
  BY <1>1, <1>2
<1>4. Path(u, t, a, h)
  BY <1>1, <1>3, PathBefore
<1> QED BY <1>4 DEF t

LEMMA PathEight ==
    ASSUME NEW u, NEW i, NEW j, NEW k, NEW l, NEW m, NEW n, NEW o, NEW p,
           NEW a, NEW b, NEW c, NEW d, NEW e, NEW f, NEW g, NEW h, NEW x,
           Moves(u, i, a, b), Moves(u, j, b, c), Moves(u, k, c, d), Moves(u, l, d, e),
           Moves(u, m, e, f), Moves(u, n, f, g), Moves(u, o, g, h), Moves(u, p, h, x)
    PROVE  Path(u, <<i, j, k, l, m, n, o, p>>, a, x)
<1> DEFINE t == <<i, j, k, l, m, n, o, p>>
           S == {i, j, k, l, m, n, o, p}
<1>1. t \in Seq(S) /\ t # <<>> /\ Head(t) = i /\ Tail(t) = <<j, k, l, m, n, o, p>>
  OBVIOUS
<1>2. Path(u, <<j, k, l, m, n, o, p>>, b, x)
  BY PathSeven
<1> HIDE DEF t, S
<1>3. Path(u, Tail(t), b, x) /\ Moves(u, Head(t), a, b)
  BY <1>1, <1>2
<1>4. Path(u, t, a, x)
  BY <1>1, <1>3, PathBefore
<1> QED BY <1>4 DEF t

-----------------------------------------------------------------------------
(* The moves of running code *)

\* One lemma per item
LEMMA MoveRunning ==
    ASSUME NEW u, NEW i, i.do \in Known, NEW s, NEW m, NEW c, NEW b, Acts(u, i, s, m, c, b)
    PROVE  Moves(u, i, At(s, m, c), b)
BY DEF Moves, At

LEMMA MoveCompile ==
    ASSUME NEW u, NEW e \in Syntax, NEW s, NEW m, NEW c,
           Meaning[e][m].ok, Fits[e][s = <<>>]
    PROVE  Moves(u, Compile(e), At(s, m, c),
                 At(Append(s, Meaning[e][m].val), Meaning[e][m].mem, c \o Meaning[e][m].calls))
<1> DEFINE b == At(Append(s, Meaning[e][m].val), Meaning[e][m].mem, c \o Meaning[e][m].calls)
           i == Compile(e)
<1>1. i.do = "compile" /\ i.of = e
  BY DEF Compile, Do
<1> HIDE DEF i
<1>2. Acts(u, i, s, m, c, b)
  BY <1>1 DEF Acts, CallKinds
<1> QED BY <1>1, <1>2, MoveRunning DEF i, Known

LEMMA MoveLoad ==
    ASSUME NEW u, NEW v \in Val, NEW s, NEW m, NEW c
    PROVE  Moves(u, Const(v), At(s, m, c), At(Append(s, v), m, c))
<1> DEFINE b == At(Append(s, v), m, c)
           i == Const(v)
<1>1. i.do = "load" /\ i.of = v
  BY DEF Const, Do
<1> HIDE DEF i
<1>2. Acts(u, i, s, m, c, b)
  BY <1>1 DEF Acts, CallKinds
<1> QED BY <1>1, <1>2, MoveRunning DEF i, Known

LEMMA MoveDeref ==
    ASSUME NEW u, NEW t \in Seq(Val), NEW x \in Data, NEW m, NEW c
    PROVE  Moves(u, Do("deref", 0), At(Append(t, x), m, c), At(Append(t, m[x]), m, c))
<1> DEFINE b == At(Append(t, m[x]), m, c)
           i == Do("deref", 0)
           s == Append(t, x)
<1>1. i.do = "deref"
  BY DEF Do
<1> HIDE DEF i
<1>2. Acts(u, i, s, m, c, b)
  BY <1>1 DEF Acts, CallKinds
<1> QED BY <1>1, <1>2, MoveRunning DEF i, Known

LEMMA MoveConvert ==
    ASSUME NEW u, NEW t \in Seq(Val), NEW x \in Val, NEW m, NEW c
    PROVE  Moves(u, Do("convert", 0), At(Append(t, x), m, c), At(Append(t, x), m, c))
<1> DEFINE i == Do("convert", 0)
           s == Append(t, x)
<1>1. i.do = "convert"
  BY DEF Do
<1> HIDE DEF i
<1>2. Acts(u, i, s, m, c, At(s, m, c))
  BY <1>1 DEF Acts, CallKinds
<1> QED BY <1>1, <1>2, MoveRunning DEF i, Known

LEMMA MoveBinary ==
    ASSUME NEW u, NEW t \in Seq(Val), NEW x \in Val \ {Junk}, NEW y \in Val \ {Junk},
           NEW op \in BinOps, NEW m, NEW c
    PROVE  Moves(u, Binary(op), At(Append(Append(t, x), y), m, c), At(Append(t, Fn(op, x, y)), m, c))
<1> DEFINE i == Binary(op)
           s == Append(Append(t, x), y)
           b == At(Append(t, Fn(op, x, y)), m, c)
<1>1. i.do = "binary" /\ i.of = op
  BY DEF Binary, Do
<1> HIDE DEF i
<1>2. Acts(u, i, s, m, c, b)
  BY <1>1 DEF Acts, CallKinds
<1> QED BY <1>1, <1>2, MoveRunning DEF i, Known

LEMMA MovePop ==
    ASSUME NEW u, NEW t \in Seq(Val), NEW x \in Val, NEW m, NEW c
    PROVE  Moves(u, Do("pop", 0), At(Append(t, x), m, c), At(t, m, c))
<1> DEFINE i == Do("pop", 0)
           s == Append(t, x)
<1>1. i.do = "pop"
  BY DEF Do
<1> HIDE DEF i
<1>2. Acts(u, i, s, m, c, At(t, m, c))
  BY <1>1 DEF Acts, CallKinds
<1> QED BY <1>1, <1>2, MoveRunning DEF i, Known

LEMMA MoveDup ==
    ASSUME NEW u, NEW t \in Seq(Val), NEW x \in Val, NEW m, NEW c
    PROVE  Moves(u, Do("dup", 0), At(Append(t, x), m, c), At(Append(Append(t, x), x), m, c))
<1> DEFINE i == Do("dup", 0)
           s == Append(t, x)
           b == At(Append(s, x), m, c)
<1>1. i.do = "dup"
  BY DEF Do
<1> HIDE DEF i
<1>2. Acts(u, i, s, m, c, b)
  BY <1>1 DEF Acts, CallKinds
<1> QED BY <1>1, <1>2, MoveRunning DEF i, Known

LEMMA MoveSwap ==
    ASSUME NEW u, NEW t \in Seq(Val), NEW x \in Val, NEW y \in Val, NEW m, NEW c
    PROVE  Moves(u, Do("swap", 0), At(Append(Append(t, x), y), m, c),
                 At(Append(Append(t, y), x), m, c))
<1> DEFINE i == Do("swap", 0)
           s == Append(Append(t, x), y)
           b == At(Append(Append(t, y), x), m, c)
<1>1. i.do = "swap"
  BY DEF Do
<1> HIDE DEF i
<1>2. Acts(u, i, s, m, c, b)
  BY <1>1 DEF Acts, CallKinds
<1> QED BY <1>1, <1>2, MoveRunning DEF i, Known

LEMMA MoveRot ==
    ASSUME NEW u, NEW t \in Seq(Val), NEW x \in Val, NEW y \in Val, NEW z \in Val, NEW m, NEW c
    PROVE  Moves(u, Do("rot", 0), At(Append(Append(Append(t, x), y), z), m, c),
                 At(Append(Append(Append(t, y), z), x), m, c))
<1> DEFINE i == Do("rot", 0)
           s == Append(Append(Append(t, x), y), z)
           b == At(Append(Append(Append(t, y), z), x), m, c)
<1>1. i.do = "rot"
  BY DEF Do
<1> HIDE DEF i
<1>2. Acts(u, i, s, m, c, b)
  BY <1>1 DEF Acts, CallKinds
<1> QED BY <1>1, <1>2, MoveRunning DEF i, Known

LEMMA MoveStore ==
    ASSUME NEW u, NEW t \in Seq(Val), NEW x \in Data, NEW y \in Val \ {Junk}, NEW m, NEW c
    PROVE  Moves(u, Do("store", 0), At(Append(Append(t, x), y), m, c),
                 At(t, [m EXCEPT ![x] = y], c))
<1> DEFINE i == Do("store", 0)
           s == Append(Append(t, x), y)
           b == At(t, [m EXCEPT ![x] = y], c)
<1>1. i.do = "store"
  BY DEF Do
<1> HIDE DEF i
<1>2. Acts(u, i, s, m, c, b)
  BY <1>1 DEF Acts, CallKinds
<1> QED BY <1>1, <1>2, MoveRunning DEF i, Known

LEMMA MoveCall ==
    ASSUME NEW u, NEW k \in CallKinds, NEW n \in Nat, NEW t \in Seq(Val),
           NEW w \in Seq(Val \ {Junk}), Len(w) = n + 1, NEW m, NEW c,
           Returns(Tail(w)) \in Val, Effect(Tail(w), m) \in Memory
    PROVE  Moves(u, Do(k, n), At(t \o w, m, c),
                 At(Append(t, IF k = "voidcall" THEN Junk ELSE Returns(Tail(w))),
                    Effect(Tail(w), m), Append(c, w)))
<1> DEFINE i == Do(k, n)
           s == t \o w
           b == At(Append(t, IF k = "voidcall" THEN Junk ELSE Returns(Tail(w))),
                   Effect(Tail(w), m), Append(c, w))
<1>1. i.do = k /\ i.of = n /\ i.do \in CallKinds
  BY DEF Do
<1> HIDE DEF i
<1>2. Acts(u, i, s, m, c, b)
  BY <1>1 DEF Acts, CallKinds
<1> QED BY <1>1, <1>2, MoveRunning DEF i, Known, CallKinds

LEMMA MoveBranch ==
    ASSUME NEW u, NEW onZero \in BOOLEAN, NEW x \in {Zero, One}, NEW m, NEW c
    PROVE  Moves(u, Do("branch", onZero), At(<<x>>, m, c),
                 IF onZero <=> x = Zero THEN Jumped(0, m, c, 1, x) ELSE At(<<>>, m, c))
<1> DEFINE i == Do("branch", onZero)
           s == <<x>>
           b == IF onZero <=> x = Zero THEN Jumped(0, m, c, 1, x) ELSE At(<<>>, m, c)
<1>1. i.do = "branch" /\ i.of = onZero
  BY DEF Do
<1> HIDE DEF i
<1>2. Acts(u, i, s, m, c, b)
  BY <1>1 DEF Acts, CallKinds
<1> QED BY <1>1, <1>2, MoveRunning DEF i, Known

LEMMA MoveJoin ==
    ASSUME NEW u, NEW k, NEW t \in Seq(Val), NEW x \in Val, NEW m, NEW c
    PROVE  Moves(u, Do("join", k), At(Append(t, x), m, c), At(Append(t, x), m, c))
<1> DEFINE i == Do("join", k)
           s == Append(t, x)
<1>1. i.do = "join"
  BY DEF Do
<1> HIDE DEF i
<1>2. Acts(u, i, s, m, c, At(s, m, c))
  BY <1>1 DEF Acts, CallKinds
<1> QED BY <1>1, <1>2, MoveRunning DEF i, Known

LEMMA MoveEnd ==
    ASSUME NEW u, NEW m, NEW c
    PROVE  /\ u = "statement" => Moves(u, Do("end", u), At(<<>>, m, c), Ended(m, c, Junk))
           /\ u # "statement" =>
                 \A x \in Val : Moves(u, Do("end", u), At(<<x>>, m, c), Ended(m, c, x))
<1> DEFINE i == Do("end", u)
<1>1. i.do = "end" /\ i.of = u
  BY DEF Do
<1> HIDE DEF i
<1>2. u = "statement" => Acts(u, i, <<>>, m, c, Ended(m, c, Junk))
  BY <1>1 DEF Acts, CallKinds
<1>3. ASSUME u # "statement", NEW x \in Val PROVE Acts(u, i, <<x>>, m, c, Ended(m, c, x))
  BY <1>1, <1>3 DEF Acts, CallKinds
<1> QED BY <1>1, <1>2, <1>3, MoveRunning DEF i, Known

-----------------------------------------------------------------------------
(* The moves of code that is jumped over *)

LEMMA MoveSkip ==
    ASSUME NEW u, NEW i, i.do \in Known \ {"end"}, NEW h \in Nat, NEW n \in Nat, n >= 1,
           NEW k \in Nat, NEW l \in Nat, l >= 1, Step(u, i, h, n, k, l), NEW m, NEW c, NEW x
    PROVE  Moves(u, i, Jumped(h, m, c, n, x), Jumped(k, m, c, l, x))
<1> DEFINE a == Jumped(h, m, c, n, x)
           b == Jumped(k, m, c, l, x)
<1>1. /\ a.height = h /\ a.mem = m /\ a.calls = c /\ a.skip = n /\ a.land = x /\ ~a.ended
      /\ b = Jumped(k, a.mem, a.calls, l, a.land)
  BY DEF Jumped
<1> HIDE DEF a, b
<1>2. Skips(u, i, a, b)
  BY <1>1 DEF Skips
<1>3. Moves(u, i, a, b)
  BY <1>1, <1>2 DEF Moves
<1> QED BY <1>3 DEF a, b

LEMMA MoveLand ==
    ASSUME NEW u, NEW k, NEW m, NEW c, NEW x, x = IF k = "and" THEN Zero ELSE One
    PROVE  Moves(u, Do("join", k), Jumped(1, m, c, 1, x), At(<<x>>, m, c))
<1> DEFINE a == Jumped(1, m, c, 1, x)
           b == At(<<x>>, m, c)
           i == Do("join", k)
<1>1. /\ a.height = 1 /\ a.mem = m /\ a.calls = c /\ a.skip = 1 /\ a.land = x /\ ~a.ended
      /\ b = At(<<a.land>>, a.mem, a.calls) /\ i.do = "join" /\ i.of = k
  BY DEF Jumped, Do
<1> HIDE DEF a, b, i
<1>2. Skips(u, i, a, b)
  BY <1>1 DEF Skips
<1>3. Moves(u, i, a, b)
  BY <1>1, <1>2 DEF Moves, Known
<1> QED BY <1>3 DEF a, b, i

-----------------------------------------------------------------------------
(* What operands leave behind *)

M == Meaning

\* What an expression means is an outcome.
LEMMA MeaningOutcome ==
    ASSUME NEW e \in Syntax, NEW m \in Memory
    PROVE  /\ M[e][m] \in Outcome /\ M[e][m].val \in Val /\ M[e][m].mem \in Memory
           /\ M[e][m].calls \in Seq(Seq(Val)) /\ M[e][m].ok \in BOOLEAN
           /\ M[e][m] = Evaluated(M, e, m)
BY MeaningIs DEF M, Meanings, Outcome

\* The operands of unary and binary expressions
LEMMA OneOperand ==
    ASSUME NEW e \in Syntax, Len(e.ops) = 1, NEW m \in Memory
    PROVE  LET o == InOrder(M, e.ops, m)
               r == M[e.ops[1]][m]
           IN  /\ o.vals = <<r.val>> /\ o.vals[1] = r.val /\ o.mem = r.mem /\ o.calls = r.calls
               /\ o.ok = r.ok /\ e.ops[1] \in Syntax /\ r \in Outcome
<1> DEFINE o == InOrder(M, e.ops, m)
           r == M[e.ops[1]][m]
           ops == e.ops
<1>1. ops \in Seq(Syntax) /\ ops[1] \in Syntax /\ M \in Meanings
  BY Parsed, MeaningIs DEF M
<1>2. r \in Outcome
  BY <1>1, MeaningOutcome
<1>3. PICK v : Chain(v, M, ops, m) /\ o = v[Len(ops)]
  BY <1>1, InOrderChain
<1>4. v[0] = Nothing(m) /\ v[1] = Then(v[0], M[ops[1]][v[0].mem]) /\ o = v[1]
  BY <1>3 DEF Chain
<1>5. Nothing(m).mem = m /\ Nothing(m).vals = <<>> /\ Nothing(m).calls = <<>> /\ Nothing(m).ok
  BY DEF Nothing
<1>6. o = Then(Nothing(m), r)
  BY <1>4, <1>5
<1> HIDE DEF o, r
<1>7. o.vals = Append(<<>>, r.val) /\ o.mem = r.mem /\ o.calls = <<>> \o r.calls /\ o.ok = (TRUE /\ r.ok)
  BY <1>5, <1>6 DEF Then
<1>8. r.val \in Val /\ r.calls \in Seq(Seq(Val)) /\ r.ok \in BOOLEAN
  BY <1>2 DEF Outcome
<1>9. <<>> \o r.calls = r.calls
  BY <1>8
<1>10. Append(<<>>, r.val) = <<r.val>>
  OBVIOUS
<1> QED BY <1>1, <1>2, <1>7, <1>8, <1>9, <1>10 DEF o, r

LEMMA TwoOperands ==
    ASSUME NEW e \in Syntax, Len(e.ops) = 2, NEW m \in Memory
    PROVE  LET o == InOrder(M, e.ops, m)
               r == M[e.ops[1]][m]
               q == M[e.ops[2]][r.mem]
           IN  /\ o.vals[1] = r.val /\ o.vals[2] = q.val /\ o.mem = q.mem
               /\ o.calls = r.calls \o q.calls
               /\ o.ok = (r.ok /\ q.ok)
               /\ e.ops[1] \in Syntax /\ r \in Outcome /\ e.ops[2] \in Syntax /\ q \in Outcome
<1> DEFINE o == InOrder(M, e.ops, m)
           r == M[e.ops[1]][m]
           q == M[e.ops[2]][r.mem]
           ops == e.ops
<1>1. ops \in Seq(Syntax) /\ ops[1] \in Syntax /\ ops[2] \in Syntax /\ M \in Meanings
  BY Parsed, MeaningIs DEF M
<1>2. r \in Outcome /\ r.mem \in Memory
  BY <1>1, MeaningOutcome
<1>3. q \in Outcome
  BY <1>1, <1>2, MeaningOutcome
<1>4. PICK v : Chain(v, M, ops, m) /\ o = v[Len(ops)]
  BY <1>1, InOrderChain
<1>5. v[0] = Nothing(m) /\ v[1] = Then(v[0], M[ops[1]][v[0].mem])
      /\ v[2] = Then(v[1], M[ops[2]][v[1].mem]) /\ o = v[2]
  BY <1>4 DEF Chain
<1>6. Nothing(m).mem = m /\ Nothing(m).vals = <<>> /\ Nothing(m).calls = <<>> /\ Nothing(m).ok
  BY DEF Nothing
<1>7. v[1] = Then(Nothing(m), r)
  BY <1>5, <1>6
<1>8. v[1].vals = Append(<<>>, r.val) /\ v[1].mem = r.mem /\ v[1].calls = <<>> \o r.calls
      /\ v[1].ok = (TRUE /\ r.ok)
  <2> HIDE DEF r
  <2> QED BY <1>6, <1>7 DEF Then
<1>9. o = Then(v[1], q)
  BY <1>5, <1>8
<1>10. o.vals = Append(v[1].vals, q.val) /\ o.mem = q.mem /\ o.calls = v[1].calls \o q.calls
       /\ o.ok = (v[1].ok /\ q.ok)
  <2> HIDE DEF q, o
  <2> QED BY ONLY <1>9 DEF Then
<1> HIDE DEF o, r, q
<1>11. /\ r.val \in Val /\ r.calls \in Seq(Seq(Val)) /\ r.ok \in BOOLEAN
       /\ q.val \in Val /\ q.calls \in Seq(Seq(Val)) /\ q.ok \in BOOLEAN
  BY <1>2, <1>3 DEF Outcome
<1>12. <<>> \o r.calls = r.calls
  BY <1>11
<1>13. Append(Append(<<>>, r.val), q.val)[1] = r.val /\ Append(Append(<<>>, r.val), q.val)[2] = q.val
  BY <1>11
<1> QED BY <1>1, <1>2, <1>3, <1>8, <1>10, <1>11, <1>12, <1>13 DEF o, r, q

-----------------------------------------------------------------------------
(* The plan of an expression does what the expression does *)

\* Compiled where it fits, e does to values, memory and calls what it means.
Ends(e, s, m, c) == At(Append(s, M[e][m].val), M[e][m].mem, c \o M[e][m].calls)
Kept(u, e, s, m, c) == Path(u, Plan(e), At(s, m, c), Ends(e, s, m, c))

\* An operand is a move of its own.
LEMMA Operand ==
    ASSUME NEW u, NEW e \in Syntax, NEW k \in 1 .. Len(e.ops), NEW alone \in BOOLEAN, Fits[e][alone],
           NEW s, (s = <<>>) = (alone /\ k \in First(e)), NEW m, NEW c, M[e.ops[k]][m].ok
    PROVE  Moves(u, Compile(e.ops[k]), At(s, m, c), Ends(e.ops[k], s, m, c))
<1>1. e.ops[k] \in Syntax
  BY Parsed
<1>2. Fits[e.ops[k]][alone /\ k \in First(e)]
  BY FitsIs DEF FitsIn
<1>3. Fits[e.ops[k]][s = <<>>]
  BY <1>2
<1> QED BY <1>1, <1>3, MoveCompile DEF M, Ends

LEMMA NotEmpty == ASSUME NEW s \in Seq(Val), NEW x PROVE (Append(s, x) = <<>>) = FALSE
<1>1. IsList(s)
  BY Zenon DEF IsList
<1>2. Len(Append(s, x)) = Len(s) + 1 /\ Len(s) \in Nat
  BY <1>1, ListEnds
<1>3. Append(s, x) # <<>>
  BY <1>2
<1> QED BY <1>3

\* One lemma per kind of expression
LEMMA LeafPath ==
    ASSUME NEW u, NEW e \in Syntax, e.kind \in LeafKinds,
           NEW s \in Seq(Val), NEW m \in Memory, NEW c \in Seq(Seq(Val))
    PROVE  Kept(u, e, s, m, c)
<1>1. M[e][m] = Evaluated(M, e, m)
  BY MeaningOutcome
<1>a. Plan(e) = PlanLeaf(e) /\ c \o <<>> = c
  BY DEF Plan, LeafKinds, UnaryKinds, CallKinds
<1>2. CASE e.kind \in {"const", "addrof"}
  <2>1. e.of \in Val
    BY <1>2, MeaningAssumption
  <2>2. M[e][m] = Does(e.of, m, <<>>)
    BY <1>1, <1>2 DEF Evaluated
  <2>3. Ends(e, s, m, c) = At(Append(s, e.of), m, c)
    BY <1>a, <2>2 DEF Ends, Does
  <2>4. Path(u, <<Const(e.of)>>, At(s, m, c), At(Append(s, e.of), m, c))
    BY <2>1, MoveLoad, PathOne
  <2> QED BY <1>2, <1>a, <2>3, <2>4 DEF Kept, PlanLeaf
<1>3. CASE e.kind = "ident"
  <2>1. e.of \in Data /\ e.of \in Val
    BY <1>3, MeaningAssumption, ExprCodegenAssumption
  <2>2. M[e][m] = Does(m[e.of], m, <<>>)
    BY <1>1, <1>3 DEF Evaluated
  <2>3. Ends(e, s, m, c) = At(Append(s, m[e.of]), m, c)
    BY <1>a, <2>2 DEF Ends, Does
  <2>4. Moves(u, Const(e.of), At(s, m, c), At(Append(s, e.of), m, c))
    BY <2>1, MoveLoad
  <2>5. Moves(u, Do("deref", 0), At(Append(s, e.of), m, c), At(Append(s, m[e.of]), m, c))
    BY <2>1, MoveDeref
  <2>6. Path(u, <<Const(e.of), Do("deref", 0)>>, At(s, m, c), At(Append(s, m[e.of]), m, c))
    BY <2>4, <2>5, PathTwo
  <2> QED BY <1>3, <1>a, <2>3, <2>6 DEF Kept, PlanLeaf
<1> QED BY <1>2, <1>3 DEF LeafKinds

LEMMA UnaryPath ==
    ASSUME NEW u, NEW e \in Syntax, e.kind \in UnaryKinds,
           NEW s \in Seq(Val), NEW m \in Memory, NEW c \in Seq(Seq(Val)),
           M[e][m].ok, Fits[e][s = <<>>]
    PROVE  Kept(u, e, s, m, c)
<1> DEFINE o == InOrder(M, e.ops, m)
           r == M[e.ops[1]][m]
           op == Compile(e.ops[1])
           v == r.val
           d == c \o r.calls
<1>1. Len(e.ops) = 1 /\ 1 \in 1 .. Len(e.ops) /\ e.kind \notin CallKinds /\ e.kind # "assign"
  <2>1. Len(e.ops) = 1
    BY Parsed
  <2> QED BY <2>1 DEF UnaryKinds, CallKinds
<1>2. /\ o.vals[1] = v /\ o.mem = r.mem /\ o.calls = r.calls
      /\ o.ok = r.ok /\ e.ops[1] \in Syntax /\ r \in Outcome
  BY <1>1, OneOperand
<1>3. M[e][m] = Applied(e, o, m)
  BY MeaningOutcome DEF Evaluated, UnaryKinds
<1> HIDE DEF o
<1>4. o.ok /\ Defined(e, o) /\ M[e][m] = Does(Operator(e, o), o.mem, o.calls)
  BY <1>1, <1>3 DEF Applied, Undefined
<1>5. /\ v \in Val /\ r.mem \in Memory /\ d \in Seq(Seq(Val)) /\ r.ok
      /\ e.kind = "deref" => v \in Data
      /\ e.kind \in {"bool", "neg", "not", "bnot"} => v # Junk
  BY <1>2, <1>4 DEF Outcome, Defined
<1>6. Ends(e, s, m, c) = At(Append(s, Operator(e, o)), r.mem, d)
  BY <1>2, <1>4 DEF Ends, Does
<1>7. Plan(e) = PlanUnary(e)
  BY DEF Plan, LeafKinds, UnaryKinds, CallKinds
<1>8. e.kind # "neg" => Moves(u, op, At(s, m, c), At(Append(s, v), r.mem, d))
  <2>1. SUFFICES ASSUME e.kind # "neg"
                 PROVE  Moves(u, op, At(s, m, c), At(Append(s, v), r.mem, d))
    OBVIOUS
  <2>2. 1 \in First(e)
    BY <2>1 DEF First, UnaryKinds
  <2>3. (s = <<>>) = ((s = <<>>) /\ 1 \in First(e)) /\ (s = <<>>) \in BOOLEAN
    BY <2>2
  <2> QED BY <1>1, <1>5, <2>3, Operand DEF Ends
<1>9. /\ Zero \in Val \ {Junk} /\ Ones \in Val \ {Junk}
      /\ "ne" \in BinOps /\ "eq" \in BinOps /\ "sub" \in BinOps /\ "xor" \in BinOps
  BY ThreeIntegers DEF BinOps
<1>10. ASSUME NEW op2 \in BinOps, NEW y \in Val \ {Junk}, v # Junk,
              e.kind # "neg", PlanUnary(e) = <<op, Const(y), Binary(op2)>>,
              Operator(e, o) = Fn(op2, v, y)
       PROVE  Kept(u, e, s, m, c)
  <2>1. Append(s, v) \in Seq(Val) /\ v \in Val \ {Junk}
    BY <1>5, <1>10
  <2>2. Moves(u, Const(y), At(Append(s, v), r.mem, d), At(Append(Append(s, v), y), r.mem, d))
    BY MoveLoad
  <2>3. Moves(u, Binary(op2), At(Append(Append(s, v), y), r.mem, d),
              At(Append(s, Fn(op2, v, y)), r.mem, d))
    BY <2>1, MoveBinary
  <2> HIDE DEF v, d, op
  <2>4. Path(u, <<op, Const(y), Binary(op2)>>, At(s, m, c), At(Append(s, Fn(op2, v, y)), r.mem, d))
    BY <1>8, <1>10, <2>2, <2>3, PathThree
  <2> QED BY <1>6, <1>7, <1>10, <2>4 DEF Kept
<1>11. CASE e.kind = "deref"
  <2>1. PlanUnary(e) = <<op, Do("deref", 0)>> /\ Operator(e, o) = r.mem[v]
    BY <1>2, <1>11 DEF PlanUnary, Operator
  <2>2. Moves(u, Do("deref", 0), At(Append(s, v), r.mem, d), At(Append(s, r.mem[v]), r.mem, d))
    BY <1>5, <1>11, MoveDeref
  <2> HIDE DEF v, d, op
  <2>3. Path(u, <<op, Do("deref", 0)>>, At(s, m, c), At(Append(s, r.mem[v]), r.mem, d))
    BY <1>8, <1>11, <2>2, PathTwo
  <2> QED BY <1>6, <1>7, <2>1, <2>3 DEF Kept
<1>12. CASE e.kind = "cast"
  <2>1. PlanUnary(e) = <<op, Do("convert", 0)>> /\ Operator(e, o) = v
    BY <1>2, <1>12 DEF PlanUnary, Operator
  <2>2. Moves(u, Do("convert", 0), At(Append(s, v), r.mem, d), At(Append(s, v), r.mem, d))
    BY <1>5, MoveConvert
  <2> HIDE DEF v, d, op
  <2>3. Path(u, <<op, Do("convert", 0)>>, At(s, m, c), At(Append(s, v), r.mem, d))
    BY <1>8, <1>12, <2>2, PathTwo
  <2> QED BY <1>6, <1>7, <2>1, <2>3 DEF Kept
<1>13. CASE e.kind = "bool"
  <2>1. PlanUnary(e) = <<op, Const(Zero), Binary("ne")>> /\ Operator(e, o) = Fn("ne", v, Zero)
    BY <1>2, <1>13 DEF PlanUnary, Operator, Truth
  <2> QED BY <1>5, <1>9, <1>10, <1>13, <2>1
<1>14. CASE e.kind = "not"
  <2>1. PlanUnary(e) = <<op, Const(Zero), Binary("eq")>> /\ Operator(e, o) = Fn("eq", v, Zero)
    BY <1>2, <1>14 DEF PlanUnary, Operator
  <2> QED BY <1>5, <1>9, <1>10, <1>14, <2>1
<1>15. CASE e.kind = "bnot"
  <2>1. PlanUnary(e) = <<op, Const(Ones), Binary("xor")>> /\ Operator(e, o) = Fn("xor", v, Ones)
    BY <1>2, <1>15 DEF PlanUnary, Operator
  <2> QED BY <1>5, <1>9, <1>10, <1>15, <2>1
<1>16. CASE e.kind = "neg"
  <2>1. PlanUnary(e) = <<Const(Zero), op, Binary("sub")>> /\ Operator(e, o) = Fn("sub", Zero, v)
    BY <1>2, <1>16 DEF PlanUnary, Operator
  <2> DEFINE t == Append(s, Zero)
  <2>2. Moves(u, Const(Zero), At(s, m, c), At(t, m, c))
    BY <1>9, MoveLoad
  <2>3. (t = <<>>) = FALSE
    BY NotEmpty
  <2>4. First(e) = {}
    BY <1>16 DEF First
  <2>5. Moves(u, op, At(t, m, c), At(Append(t, v), r.mem, d))
    <3>1. (t = <<>>) = ((s = <<>>) /\ 1 \in First(e)) /\ (s = <<>>) \in BOOLEAN
      BY <2>3, <2>4
    <3> HIDE DEF t, v, d
    <3>2. Moves(u, Compile(e.ops[1]), At(t, m, c), Ends(e.ops[1], t, m, c))
      BY <1>1, <1>5, <3>1, Operand
    <3> QED BY <3>2 DEF Ends, v, d
  <2>6. Moves(u, Binary("sub"), At(Append(t, v), r.mem, d), At(Append(s, Fn("sub", Zero, v)), r.mem, d))
    BY <1>5, <1>9, <1>16, MoveBinary
  <2> HIDE DEF v, d, op, t
  <2>7. Path(u, <<Const(Zero), op, Binary("sub")>>, At(s, m, c), At(Append(s, Fn("sub", Zero, v)), r.mem, d))
    BY <2>2, <2>5, <2>6, PathThree
  <2> QED BY <1>6, <1>7, <2>1, <2>7 DEF Kept
<1> QED BY <1>11, <1>12, <1>13, <1>14, <1>15, <1>16 DEF UnaryKinds

\* Lists of calls
LEMMA Joined ==
    ASSUME NEW S, NEW a \in Seq(S), NEW b \in Seq(S), NEW g \in Seq(S)
    PROVE  /\ a \o b \in Seq(S) /\ (a \o b) \o g \in Seq(S)
           /\ a \o (b \o g) = (a \o b) \o g /\ a \o <<>> = a /\ <<>> \o a = a
<1>1. a \o b \in Seq(S)
  OBVIOUS
<1>2. (a \o b) \o g \in Seq(S)
  BY <1>1
<1>3. (a \o b) \o g = a \o (b \o g)
  BY ConcatAssociative, SMTT(20)
<1>4. a \o <<>> = a /\ <<>> \o a = a
  BY ConcatEmptySeq
<1> QED BY <1>1, <1>2, <1>3, <1>4

LEMMA CallsJoin ==
    ASSUME NEW c \in Seq(Seq(Val)), NEW d \in Seq(Seq(Val)), NEW f \in Seq(Seq(Val))
    PROVE  /\ c \o d \in Seq(Seq(Val)) /\ (c \o d) \o f \in Seq(Seq(Val))
           /\ c \o (d \o f) = (c \o d) \o f /\ c \o <<>> = c /\ <<>> \o c = c
<1> DEFINE S == Seq(Val)
<1>1. c \in Seq(S) /\ d \in Seq(S) /\ f \in Seq(S)
  OBVIOUS
<1> HIDE DEF S
<1>2. /\ c \o d \in Seq(S) /\ (c \o d) \o f \in Seq(S)
      /\ c \o (d \o f) = (c \o d) \o f /\ c \o <<>> = c /\ <<>> \o c = c
  BY ONLY <1>1, Joined
<1> QED BY ONLY <1>2 DEF S

LEMMA CallsOrder ==
    \A c, d, f \in Seq(Seq(Val)) : c \o (d \o f) = (c \o d) \o f
<1> DEFINE S == Seq(Val)
<1> HIDE DEF S
<1>1. \A c, d, f \in Seq(S) : c \o (d \o f) = (c \o d) \o f
  BY ONLY Joined
<1> QED BY ONLY <1>1 DEF S

Pair(e, m, r, q) == r = M[e.ops[1]][m] /\ q = M[e.ops[2]][r.mem]

PairDoes(e, m, c, r, q) ==
    /\ r.ok /\ r.val \in Val /\ r.mem \in Memory /\ q.ok /\ q.val \in Val /\ q.mem \in Memory
    /\ c \o r.calls \in Seq(Seq(Val))
    /\ c \o M[e][m].calls = (c \o r.calls) \o q.calls
    /\ e.kind = "binary" =>
          /\ r.val # Junk /\ q.val # Junk /\ e.of \in BinOps
          /\ M[e][m].val = Fn(e.of, r.val, q.val) /\ M[e][m].mem = q.mem
    /\ e.kind = "comma" => M[e][m].val = q.val /\ M[e][m].mem = q.mem
    /\ e.kind = "assign" =>
          /\ r.val \in Data /\ q.val # Junk
          /\ M[e][m].val = q.val /\ M[e][m].mem = [q.mem EXCEPT ![r.val] = q.val]

\* Two operands and then something that calls nothing.
LEMMA PairMeaning ==
    ASSUME NEW e \in Syntax, e.kind \in {"binary", "comma", "assign"}, NEW m \in Memory, M[e][m].ok,
           NEW c \in Seq(Seq(Val)), NEW r, NEW q, Pair(e, m, r, q)
    PROVE  PairDoes(e, m, c, r, q)
<1> DEFINE o == InOrder(M, e.ops, m)
<1>1. Len(e.ops) = 2 /\ e.kind \notin CallKinds
  <2>1. Len(e.ops) = 2
    BY Parsed DEF PairKinds
  <2> QED BY <2>1 DEF CallKinds
<1>2. /\ o.vals[1] = r.val /\ o.vals[2] = q.val /\ o.mem = q.mem /\ o.calls = r.calls \o q.calls
      /\ o.ok = (r.ok /\ q.ok)
      /\ e.ops[1] \in Syntax /\ r \in Outcome /\ e.ops[2] \in Syntax /\ q \in Outcome
  BY <1>1, TwoOperands DEF Pair
<1>3. M[e][m] = Applied(e, o, m)
  BY MeaningOutcome DEF Evaluated
<1> HIDE DEF o
<1>4. /\ o.ok /\ Defined(e, o)
      /\ M[e][m].val = Operator(e, o) /\ M[e][m].calls = o.calls
      /\ M[e][m].mem = IF e.kind = "assign" THEN [o.mem EXCEPT ![o.vals[1]] = o.vals[2]] ELSE o.mem
  BY <1>1, <1>3 DEF Applied, Undefined, Does
<1>5. /\ r.val \in Val /\ r.mem \in Memory /\ q.val \in Val /\ q.mem \in Memory
      /\ r.calls \in Seq(Seq(Val)) /\ q.calls \in Seq(Seq(Val))
  BY <1>2 DEF Outcome
<1>6. r.ok /\ q.ok
  BY <1>2, <1>4
<1>7. /\ e.kind = "assign" => r.val \in Data
      /\ e.kind = "binary" => r.val # Junk
      /\ e.kind \in {"binary", "assign"} => q.val # Junk
  BY <1>2, <1>4 DEF Defined
<1>8. /\ e.kind = "binary" => Operator(e, o) = Fn(e.of, r.val, q.val) /\ e.of \in BinOps
      /\ e.kind \in {"comma", "assign"} => Operator(e, o) = q.val
  BY <1>2, MeaningAssumption DEF Operator
<1>9. c \o r.calls \in Seq(Seq(Val)) /\ c \o M[e][m].calls = (c \o r.calls) \o q.calls
  <2>1. c \o r.calls \in Seq(Seq(Val)) /\ c \o (r.calls \o q.calls) = (c \o r.calls) \o q.calls
    <3>1. PICK a, b : a = r.calls /\ b = q.calls
      OBVIOUS
    <3>2. a \in Seq(Seq(Val)) /\ b \in Seq(Seq(Val))
      BY <1>5, <3>1
    <3>3. c \o a \in Seq(Seq(Val))
      BY ONLY <3>2, c \in Seq(Seq(Val)), CallsJoin
    <3>4. c \o (a \o b) = (c \o a) \o b
      BY ONLY <3>2, c \in Seq(Seq(Val)), CallsOrder
    <3> QED BY <3>1, <3>3, <3>4
  <2> QED BY <1>2, <1>4, <2>1
<1>10. e.kind = "assign" => M[e][m].mem = [q.mem EXCEPT ![r.val] = q.val]
  BY <1>2, <1>4
<1>11. e.kind \in {"binary", "comma"} => M[e][m].mem = q.mem
  BY <1>2, <1>4
<1> QED BY <1>4, <1>5, <1>6, <1>7, <1>8, <1>9, <1>10, <1>11 DEF PairDoes

LEMMA PairPath ==
    ASSUME NEW u, NEW e \in Syntax, e.kind \in {"binary", "comma", "assign"},
           NEW s \in Seq(Val), NEW m \in Memory, NEW c \in Seq(Seq(Val)),
           M[e][m].ok, Fits[e][s = <<>>]
    PROVE  Kept(u, e, s, m, c)
<1>a. PICK r, q : r = M[e.ops[1]][m] /\ q = M[e.ops[2]][r.mem]
  OBVIOUS
<1>b. PICK x, y, d, f : x = r.val /\ y = q.val /\ d = c \o r.calls /\ f = d \o q.calls
  OBVIOUS
<1>c. PICK i, j, t : i = Compile(e.ops[1]) /\ j = Compile(e.ops[2]) /\ t = Append(s, x)
  OBVIOUS
<1>1. /\ r.ok /\ x \in Val /\ r.mem \in Memory /\ q.ok /\ y \in Val /\ q.mem \in Memory
      /\ d \in Seq(Seq(Val)) /\ c \o M[e][m].calls = f
      /\ e.kind = "binary" =>
            /\ x # Junk /\ y # Junk /\ e.of \in BinOps
            /\ M[e][m].val = Fn(e.of, x, y) /\ M[e][m].mem = q.mem
      /\ e.kind = "comma" => M[e][m].val = y /\ M[e][m].mem = q.mem
      /\ e.kind = "assign" =>
            /\ x \in Data /\ y # Junk
            /\ M[e][m].val = y /\ M[e][m].mem = [q.mem EXCEPT ![x] = y]
  <2>1. Pair(e, m, r, q)
    BY <1>a DEF Pair
  <2>2. PairDoes(e, m, c, r, q)
    BY <2>1, PairMeaning
  <2> QED BY <1>b, <2>2 DEF PairDoes
<1>2. Len(e.ops) = 2 /\ 1 \in 1 .. Len(e.ops) /\ 2 \in 1 .. Len(e.ops)
  <2>1. Len(e.ops) = 2
    BY Parsed DEF PairKinds
  <2> QED BY <2>1
<1>3. t \in Seq(Val) /\ (t = <<>>) = FALSE
  BY <1>1, <1>c, NotEmpty
<1>4. 1 \in First(e) /\ (2 \in First(e) <=> e.kind = "comma")
  BY DEF First
<1>5. Moves(u, i, At(s, m, c), At(t, r.mem, d))
  <2>1. (s = <<>>) = ((s = <<>>) /\ 1 \in First(e)) /\ (s = <<>>) \in BOOLEAN
    BY <1>4
  <2> QED BY <1>1, <1>2, <1>a, <1>b, <1>c, <2>1, Operand DEF Ends
<1>6. CASE e.kind = "binary"
  <2>1. Moves(u, j, At(t, r.mem, d), At(Append(t, y), q.mem, f))
    <3>1. (t = <<>>) = ((s = <<>>) /\ 2 \in First(e)) /\ (s = <<>>) \in BOOLEAN
      BY <1>3, <1>4, <1>6
    <3>2. Moves(u, Compile(e.ops[2]), At(t, r.mem, d), Ends(e.ops[2], t, r.mem, d))
      BY <1>1, <1>2, <1>a, <3>1, Operand
    <3> QED BY <1>a, <1>b, <1>c, <3>2 DEF Ends
  <2>2. Moves(u, Binary(e.of), At(Append(t, y), q.mem, f), At(Append(s, Fn(e.of, x, y)), q.mem, f))
    BY <1>1, <1>6, <1>c, MoveBinary
  <2>3. Plan(e) = <<i, j, Binary(e.of)>>
    BY <1>6, <1>c DEF Plan, PlanBinary, LeafKinds, UnaryKinds, CallKinds
  <2>4. Ends(e, s, m, c) = At(Append(s, Fn(e.of, x, y)), q.mem, f)
    BY <1>1, <1>6 DEF Ends
  <2>5. Path(u, <<i, j, Binary(e.of)>>, At(s, m, c), At(Append(s, Fn(e.of, x, y)), q.mem, f))
    BY <1>5, <2>1, <2>2, PathThree
  <2> QED BY <2>3, <2>4, <2>5 DEF Kept
<1>7. CASE e.kind = "comma"
  <2>1. Moves(u, Do("pop", 0), At(t, r.mem, d), At(s, r.mem, d))
    BY <1>1, <1>c, MovePop
  <2>2. Moves(u, j, At(s, r.mem, d), At(Append(s, y), q.mem, f))
    <3>1. (s = <<>>) = ((s = <<>>) /\ 2 \in First(e)) /\ (s = <<>>) \in BOOLEAN
      BY <1>4, <1>7
    <3>2. Moves(u, Compile(e.ops[2]), At(s, r.mem, d), Ends(e.ops[2], s, r.mem, d))
      BY <1>1, <1>2, <1>a, <3>1, Operand
    <3> QED BY <1>a, <1>b, <1>c, <3>2 DEF Ends
  <2>3. Plan(e) = <<i, Do("pop", 0), j>>
    BY <1>7, <1>c DEF Plan, PlanComma, LeafKinds, UnaryKinds, CallKinds
  <2>4. Ends(e, s, m, c) = At(Append(s, y), q.mem, f)
    BY <1>1, <1>7 DEF Ends
  <2>5. Path(u, <<i, Do("pop", 0), j>>, At(s, m, c), At(Append(s, y), q.mem, f))
    BY <1>5, <2>1, <2>2, PathThree
  <2> QED BY <2>3, <2>4, <2>5 DEF Kept
<1>8. CASE e.kind = "assign"
  <2> DEFINE n == [q.mem EXCEPT ![x] = y]
             v == Append(s, y)
             a1 == At(Append(t, y), q.mem, f)
             a2 == At(Append(Append(t, y), y), q.mem, f)
             a3 == At(Append(Append(v, y), x), q.mem, f)
             a4 == At(Append(Append(v, x), y), q.mem, f)
             a5 == At(v, n, f)
  <2>0. v \in Seq(Val) /\ y \in Val \ {Junk} /\ x \in Data
    BY <1>1, <1>8
  <2>1. Moves(u, j, At(t, r.mem, d), a1)
    <3>1. (t = <<>>) = ((s = <<>>) /\ 2 \in First(e)) /\ (s = <<>>) \in BOOLEAN
      BY <1>3, <1>4, <1>8
    <3>2. Moves(u, Compile(e.ops[2]), At(t, r.mem, d), Ends(e.ops[2], t, r.mem, d))
      BY <1>1, <1>2, <1>a, <3>1, Operand
    <3> QED BY <1>a, <1>b, <1>c, <3>2 DEF Ends
  <2>2. Moves(u, Do("convert", 0), a1, a1)
    BY <1>1, <1>3, <1>c, MoveConvert
  <2>3. Moves(u, Do("dup", 0), a1, a2)
    BY <1>1, <1>3, <1>c, MoveDup
  <2>4. Moves(u, Do("rot", 0), a2, a3)
    BY <1>1, <1>c, <2>0, MoveRot
  <2>5. Moves(u, Do("swap", 0), a3, a4)
    BY <1>1, <2>0, <1>c, MoveSwap
  <2>6. Moves(u, Do("store", 0), a4, a5)
    BY <2>0, <1>c, MoveStore
  <2>7. Plan(e) = <<i, j, Do("convert", 0), Do("dup", 0), Do("rot", 0), Do("swap", 0), Do("store", 0)>>
    BY <1>8, <1>c DEF Plan, PlanAssign, LeafKinds, UnaryKinds, CallKinds
  <2>8. Ends(e, s, m, c) = a5
    BY <1>1, <1>8 DEF Ends
  <2> DEFINE a0 == At(s, m, c)
             b0 == At(t, r.mem, d)
  <2>9. Moves(u, i, a0, b0) /\ Moves(u, j, b0, a1)
    BY <1>5, <2>1
  <2> HIDE DEF a0, b0, a1, a2, a3, a4, a5
  <2>10. Path(u, <<i, j, Do("convert", 0), Do("dup", 0), Do("rot", 0), Do("swap", 0), Do("store", 0)>>,
              a0, a5)
    BY <2>2, <2>3, <2>4, <2>5, <2>6, <2>9, PathSeven
  <2> QED BY <2>7, <2>8, <2>10 DEF Kept, a0
<1> QED BY <1>6, <1>7, <1>8

LEMMA AloneValue == ASSUME NEW v PROVE Append(<<>>, v) = <<v>>
OBVIOUS

\* && or ||: the value of an operand, tested.
LEMMA Tested ==
    ASSUME NEW u, NEW v \in Val \ {Junk}, NEW m, NEW c
    PROVE  /\ Moves(u, Const(Zero), At(<<v>>, m, c), At(Append(<<v>>, Zero), m, c))
           /\ Moves(u, Binary("ne"), At(Append(<<v>>, Zero), m, c), At(<<Truth(v)>>, m, c))
<1>1. Zero \in Val \ {Junk} /\ "ne" \in BinOps /\ <<>> \in Seq(Val)
  BY ThreeIntegers DEF BinOps
<1>2. Moves(u, Const(Zero), At(<<v>>, m, c), At(Append(<<v>>, Zero), m, c))
  BY <1>1, MoveLoad
<1>3. Moves(u, Binary("ne"), At(Append(Append(<<>>, v), Zero), m, c),
            At(Append(<<>>, Fn("ne", v, Zero)), m, c))
  BY <1>1, MoveBinary
<1> QED BY <1>2, <1>3, AloneValue DEF Truth

LEMMA LogicalPath ==
    ASSUME NEW u, NEW e \in Syntax, e.kind \in {"and", "or"},
           NEW s \in Seq(Val), NEW m \in Memory, NEW c \in Seq(Seq(Val)),
           M[e][m].ok, Fits[e][s = <<>>]
    PROVE  Kept(u, e, s, m, c)
<1> DEFINE r == M[e.ops[1]][m]
           q == M[e.ops[2]][r.mem]
           x == r.val
           y == q.val
           d == c \o r.calls
           f == d \o q.calls
           i == Compile(e.ops[1])
           j == Compile(e.ops[2])
           z == Const(Zero)
           o == Binary("ne")
           br == Do("branch", e.kind = "and")
           jn == Do("join", e.kind)
           decides == IF e.kind = "and" THEN Zero ELSE One
           a0 == At(<<>>, m, c)
           a1 == At(<<x>>, r.mem, d)
           a2 == At(Append(<<x>>, Zero), r.mem, d)
           a3 == At(<<Truth(x)>>, r.mem, d)
<1>1. Len(e.ops) = 2 /\ 1 \in 1 .. Len(e.ops) /\ 2 \in 1 .. Len(e.ops)
      /\ e.ops[1] \in Syntax /\ e.ops[2] \in Syntax
  <2>1. Len(e.ops) = 2
    BY Parsed DEF PairKinds
  <2> QED BY <2>1, Parsed
<1>2. s = <<>> /\ Fits[e][TRUE]
  <2>1. (s = <<>>) \in BOOLEAN
    OBVIOUS
  <2>2. s = <<>>
    BY <2>1, FitsIs DEF FitsIn
  <2> QED BY <2>2
<1>3. M[e][m] = Logical(M, e, m)
  BY MeaningOutcome DEF Evaluated
<1>4. r.ok /\ x # Junk
  <2>1. r.ok \in BOOLEAN
    BY <1>1, MeaningOutcome
  <2>2. ~r.ok \/ x = Junk => M[e][m] = Undefined(m)
    BY <1>3, <2>1 DEF Logical
  <2> QED BY <2>1, <2>2 DEF Undefined
<1>5. /\ x \in Val /\ r.mem \in Memory /\ r.calls \in Seq(Seq(Val)) /\ q.ok \in BOOLEAN
      /\ q.calls \in Seq(Seq(Val)) /\ q.val \in Val /\ q.mem \in Memory
  BY <1>1, MeaningOutcome
<1>6. First(e) = {1, 2}
  BY DEF First
<1>7. Moves(u, i, a0, a1)
  <2>1. (<<>> = <<>>) = (TRUE /\ 1 \in First(e))
    BY <1>6
  <2>2. Moves(u, i, At(<<>>, m, c), Ends(e.ops[1], <<>>, m, c))
    BY <1>1, <1>2, <1>4, <2>1, Operand
  <2> QED BY <2>2, AloneValue DEF Ends
<1>8. Moves(u, z, a1, a2) /\ Moves(u, o, a2, a3)
  BY <1>4, <1>5, Tested
<1>9. Truth(x) \in {Zero, One} /\ Zero # One
  BY <1>4, <1>5, TruthVal, ThreeIntegers
<1>10. Moves(u, br, a3, IF (e.kind = "and") <=> Truth(x) = Zero
                        THEN Jumped(0, r.mem, d, 1, Truth(x)) ELSE At(<<>>, r.mem, d))
  BY <1>9, MoveBranch
<1>11. ((e.kind = "and") <=> Truth(x) = Zero) <=> Truth(x) = decides
  BY <1>9
<1>12. Plan(e) = <<i, z, o, br, j, z, o, jn>>
  BY DEF Plan, PlanLogical, LeafKinds, UnaryKinds, CallKinds
<1>13. CASE Truth(x) = decides
  <2> DEFINE b1 == Jumped(0, r.mem, d, 1, Truth(x))
             b2 == Jumped(1, r.mem, d, 1, Truth(x))
             b3 == Jumped(2, r.mem, d, 1, Truth(x))
             b4 == At(<<Truth(x)>>, r.mem, d)
  <2>1. M[e][m] = Does(decides, r.mem, r.calls)
    BY <1>3, <1>4, <1>13 DEF Logical
  <2>2. Ends(e, s, m, c) = b4
    BY <1>2, <1>13, <2>1, AloneValue DEF Ends, Does
  <2>3. Moves(u, br, a3, b1)
    BY <1>10, <1>11, <1>13
  <2>4. /\ Step(u, j, 0, 1, 1, 1) /\ Step(u, z, 1, 1, 2, 1) /\ Step(u, o, 2, 1, 1, 1)
        /\ j.do \in Known \ {"end"} /\ z.do \in Known \ {"end"} /\ o.do \in Known \ {"end"}
    BY <1>1 DEF Step, Compile, Const, Binary, Do, CallKinds, Known, Syntax
  <2>5. Moves(u, j, b1, b2) /\ Moves(u, z, b2, b3) /\ Moves(u, o, b3, b2)
    <3> HIDE DEF j, z, o
    <3> QED BY <2>4, MoveSkip
  <2>6. Moves(u, jn, b2, b4)
    BY <1>13, MoveLand
  <2> HIDE DEF a0, a1, a2, a3, b1, b2, b3, b4, i, j, z, o, br, jn
  <2>7. Path(u, <<i, z, o, br, j, z, o, jn>>, a0, b4)
    BY <1>7, <1>8, <2>3, <2>5, <2>6, PathEight
  <2> QED BY <1>2, <1>12, <2>2, <2>7 DEF Kept, a0
<1>14. CASE Truth(x) # decides
  <2> DEFINE b1 == At(<<>>, r.mem, d)
             b2 == At(<<y>>, q.mem, f)
             b3 == At(Append(<<y>>, Zero), q.mem, f)
             b4 == At(<<Truth(y)>>, q.mem, f)
  <2>1. q.ok /\ y # Junk /\ M[e][m] = Does(Truth(y), q.mem, r.calls \o q.calls)
    <3>1. M[e][m] = IF ~q.ok \/ y = Junk THEN Undefined(m)
                    ELSE Does(Truth(y), q.mem, r.calls \o q.calls)
      BY <1>3, <1>4, <1>14 DEF Logical
    <3> HIDE DEF r, q, y
    <3> QED BY <1>5, <3>1 DEF Undefined
  <2>a. c \o (r.calls \o q.calls) = f
    <3> HIDE DEF r, q
    <3>1. PICK a, b : a = r.calls /\ b = q.calls
      OBVIOUS
    <3>2. a \in Seq(Seq(Val)) /\ b \in Seq(Seq(Val))
      BY <1>5, <3>1
    <3>3. c \o (a \o b) = (c \o a) \o b
      BY ONLY <3>2, c \in Seq(Seq(Val)), CallsJoin
    <3> QED BY <3>1, <3>3
  <2>2. Ends(e, s, m, c) = b4
    <3>1. M[e][m].val = Truth(y) /\ M[e][m].mem = q.mem /\ M[e][m].calls = r.calls \o q.calls
      <4>1. PICK g, cs : g = M[e][m] /\ cs = r.calls \o q.calls
        OBVIOUS
      <4>2. PICK v, n : v = Truth(y) /\ n = q.mem
        OBVIOUS
      <4>3. g = Does(v, n, cs)
        BY <2>1, <4>1, <4>2
      <4>4. g.val = v /\ g.mem = n /\ g.calls = cs
        BY ONLY <4>3 DEF Does
      <4> QED BY <4>1, <4>2, <4>4
    <3> HIDE DEF r, q, y, d, f
    <3> QED BY <1>2, <2>a, <3>1, AloneValue DEF Ends
  <2>3. Moves(u, br, a3, b1)
    BY <1>10, <1>11, <1>14
  <2>4. Moves(u, j, b1, b2)
    <3>1. (<<>> = <<>>) = (TRUE /\ 2 \in First(e))
      BY <1>6
    <3>2. Moves(u, j, At(<<>>, r.mem, d), Ends(e.ops[2], <<>>, r.mem, d))
      BY <1>1, <1>2, <2>1, <3>1, Operand
    <3> QED BY <3>2, AloneValue DEF Ends
  <2>5. Moves(u, z, b2, b3) /\ Moves(u, o, b3, b4)
    BY <1>5, <2>1, Tested
  <2>6. Moves(u, jn, b4, b4)
    <3>1. Truth(y) \in Val /\ <<>> \in Seq(Val)
      <4> HIDE DEF q, r
      <4> QED BY <1>5, TruthVal
    <3>2. Moves(u, jn, At(Append(<<>>, Truth(y)), q.mem, f), At(Append(<<>>, Truth(y)), q.mem, f))
      BY <3>1, MoveJoin
    <3> QED BY <3>2, AloneValue
  <2> HIDE DEF a0, a1, a2, a3, b1, b2, b3, b4, i, j, z, o, br, jn
  <2>7. Path(u, <<i, z, o, br, j, z, o, jn>>, a0, b4)
    BY <1>7, <1>8, <2>3, <2>4, <2>5, <2>6, PathEight
  <2> QED BY <1>2, <1>12, <2>2, <2>7 DEF Kept, a0
<1> QED BY <1>13, <1>14

\* Operands before one that is defined are defined.
LEMMA ChainOk ==
    ASSUME NEW ops \in Seq(Syntax), NEW m, NEW v, Chain(v, M, ops, m), v[Len(ops)].ok
    PROVE  \A k \in 0 .. Len(ops) : v[k].ok
<1> DEFINE n == Len(ops)
           G == {k \in Nat : k <= n => v[n - k].ok}
<1>0. n \in Nat
  OBVIOUS
<1>1. 0 \in G
  BY <1>0
<1>2. ASSUME NEW k \in Nat, k \in G PROVE k + 1 \in G
  <2>1. SUFFICES ASSUME k + 1 <= n PROVE v[n - (k + 1)].ok
    OBVIOUS
  <2>2. k <= n /\ n - k \in 1 .. n /\ (n - k) - 1 = n - (k + 1)
    BY <1>0, <2>1
  <2>3. v[n - k].ok
    BY <1>2, <2>2
  <2>4. PICK r : v[n - k] = Then(v[(n - k) - 1], r)
    BY <2>2 DEF Chain
  <2>5. Then(v[(n - k) - 1], r).ok
    BY <2>3, <2>4
  <2> HIDE DEF n, G
  <2> QED BY <2>2, <2>5 DEF Then
<1> HIDE DEF G
<1>3. \A k \in Nat : k \in G
  BY <1>1, <1>2, Induct
<1>4. ASSUME NEW k \in 0 .. n PROVE v[k].ok
  <2>1. n - k \in Nat /\ n - k <= n /\ n - (n - k) = k
    BY <1>0
  <2>2. n - k \in G
    BY <1>3, <2>1
  <2>3. v[n - (n - k)].ok
    BY <2>1, <2>2 DEF G
  <2> QED BY <2>1, <2>3
<1> QED BY <1>4

LEMMA ConcatAppend ==
    ASSUME NEW S, NEW s \in Seq(S), NEW t \in Seq(S), NEW x \in S
    PROVE  s \o Append(t, x) = Append(s \o t, x)
<1>1. <<x>> \in Seq(S) /\ s \o t \in Seq(S)
  OBVIOUS
<1>2. Append(t, x) = t \o <<x>> /\ Append(s \o t, x) = (s \o t) \o <<x>>
  BY <1>1, AppendIsConcat
<1>3. (s \o t) \o <<x>> = s \o (t \o <<x>>)
  BY <1>1, ConcatAssociative
<1> QED BY <1>2, <1>3

LEMMA CallsAppend ==
    \A c, d \in Seq(Seq(Val)), w \in Seq(Val) :
        c \o d \in Seq(Seq(Val)) /\ c \o Append(d, w) = Append(c \o d, w)
<1> DEFINE S == Seq(Val)
<1> HIDE DEF S
<1>1. \A c, d \in Seq(S), w \in S : c \o d \in Seq(S) /\ c \o Append(d, w) = Append(c \o d, w)
  <2>1. \A c, d \in Seq(S), w \in S : c \o d \in Seq(S)
    OBVIOUS
  <2>2. \A c, d \in Seq(S), w \in S : c \o Append(d, w) = Append(c \o d, w)
    BY ConcatAppend
  <2> QED BY <2>1, <2>2
<1> QED BY <1>1 DEF S

\* The state once j operands have been compiled.
Stage(s, c, v, j) == At(s \o v[j].vals, v[j].mem, c \o v[j].calls)

\* Each operand of a call takes one stage to the next; its conversion none.
LEMMA StageMove ==
    ASSUME NEW u, NEW e \in Syntax, e.kind \in CallKinds, NEW s \in Seq(Val), NEW m \in Memory,
           NEW c \in Seq(Seq(Val)), Fits[e][s = <<>>], NEW v, Chain(v, M, e.ops, m),
           v[Len(e.ops)].ok, NEW j \in 1 .. Len(e.ops)
    PROVE  /\ Moves(u, Compile(e.ops[j]), Stage(s, c, v, j - 1), Stage(s, c, v, j))
           /\ Moves(u, Do("convert", 0), Stage(s, c, v, j), Stage(s, c, v, j))
<1>a. PICK p, r : p = v[j - 1] /\ r = M[e.ops[j]][p.mem]
  OBVIOUS
<1> DEFINE t == s \o p.vals
           d == c \o p.calls
<1>1. e.ops \in Seq(Syntax) /\ e.ops[j] \in Syntax
  BY Parsed
<1>2. j \in 0 .. Len(e.ops) /\ j - 1 \in 0 .. Len(e.ops) /\ Len(e.ops) \in Nat
  BY <1>1
<1>3. p \in Run /\ v[j] = Then(p, r)
  BY <1>2, <1>a DEF Chain
<1>4. p.vals \in Seq(Val) /\ p.mem \in Memory /\ p.calls \in Seq(Seq(Val)) /\ Len(p.vals) = j - 1
  BY <1>1, <1>2, <1>3, <1>a, ChainLen DEF Run
<1>5. r.val \in Val /\ r.mem \in Memory /\ r.calls \in Seq(Seq(Val)) /\ r.ok \in BOOLEAN
  BY <1>1, <1>4, <1>a, MeaningOutcome
<1>6. r.ok
  <2>1. v[j].ok
    BY <1>1, <1>2, ChainOk
  <2>2. Then(p, r).ok
    BY <1>3, <2>1
  <2> QED BY ONLY <2>2 DEF Then
<1>7. t \in Seq(Val) /\ (t = <<>>) = ((s = <<>>) /\ j \in First(e)) /\ (s = <<>>) \in BOOLEAN
  <2>1. First(e) = {1}
    BY DEF First, CallKinds
  <2>2. CASE j = 1
    <3>1. p.vals = <<>>
      BY <1>4, <2>2
    <3>2. s \o p.vals = s
      BY <3>1
    <3> QED BY <2>1, <2>2, <3>2
  <2>3. CASE j # 1
    <3>1. t \in Seq(Val) /\ Len(t) = Len(s) + (j - 1) /\ Len(s) \in Nat
      <4>1. PICK w : w = p.vals
        OBVIOUS
      <4>2. w \in Seq(Val) /\ Len(w) = j - 1
        BY <1>4, <4>1
      <4>3. s \o w \in Seq(Val) /\ Len(s \o w) = Len(s) + Len(w) /\ Len(s) \in Nat
        <5>1. Len(s) \in Nat
          OBVIOUS
        <5>2. s \o w \in Seq(Val)
          BY ONLY <4>2, s \in Seq(Val)
        <5>a. w \in Seq(Val)
          BY <4>2
        <5>3. Len(s \o w) = Len(s) + Len(w)
          BY ONLY <5>a, s \in Seq(Val)
        <5> QED BY <5>1, <5>2, <5>3
      <4> QED BY <4>1, <4>2, <4>3
    <3> HIDE DEF t
    <3>2. Len(t) # 0
      BY <1>2, <2>3, <3>1
    <3>3. t # <<>>
      BY <3>2
    <3> QED BY <2>1, <2>3, <3>1, <3>3
  <2> QED BY <2>2, <2>3
<1>8. Moves(u, Compile(e.ops[j]), At(t, p.mem, d), Ends(e.ops[j], t, p.mem, d))
  BY <1>6, <1>7, <1>a, Operand
<1>9. Stage(s, c, v, j) = At(Append(t, r.val), r.mem, d \o r.calls)
  <2>1. v[j].vals = Append(p.vals, r.val) /\ v[j].mem = r.mem /\ v[j].calls = p.calls \o r.calls
    <3>1. Then(p, r).vals = Append(p.vals, r.val) /\ Then(p, r).mem = r.mem
          /\ Then(p, r).calls = p.calls \o r.calls
      BY ONLY ThenIs
    <3> QED BY <1>3, <3>1
  <2>2. s \o Append(p.vals, r.val) = Append(t, r.val)
    <3>1. PICK w, x : w = p.vals /\ x = r.val
      OBVIOUS
    <3>2. w \in Seq(Val) /\ x \in Val
      BY <1>4, <1>5, <3>1
    <3>3. s \o Append(w, x) = Append(s \o w, x)
      BY <3>2, ConcatAppend
    <3> QED BY <3>1, <3>3
  <2>3. c \o (p.calls \o r.calls) = d \o r.calls
    BY <1>4, <1>5, CallsOrder
  <2> HIDE DEF t, d
  <2> QED BY <2>1, <2>2, <2>3 DEF Stage
<1>10. Stage(s, c, v, j - 1) = At(t, p.mem, d)
  BY <1>a DEF Stage
<1>11. Ends(e.ops[j], t, p.mem, d) = At(Append(t, r.val), r.mem, d \o r.calls)
  BY <1>a DEF Ends
<1>12. Moves(u, Do("convert", 0), At(Append(t, r.val), r.mem, d \o r.calls),
             At(Append(t, r.val), r.mem, d \o r.calls))
  BY <1>5, <1>7, MoveConvert
<1> HIDE DEF t, d
<1> QED BY <1>8, <1>9, <1>10, <1>11, <1>12

LEMMA CallPath ==
    ASSUME NEW u, NEW e \in Syntax, e.kind \in CallKinds,
           NEW s \in Seq(Val), NEW m \in Memory, NEW c \in Seq(Seq(Val)),
           M[e][m].ok, Fits[e][s = <<>>]
    PROVE  Kept(u, e, s, m, c)
<1> DEFINE o == InOrder(M, e.ops, m)
           a == Len(e.ops) - 1
           z == 2 * a + 2
           w == o.vals
           t == PlanCall(e)
           S == {t[k] : k \in 1 .. z}
<1>1. e.ops \in Seq(Syntax) /\ Len(e.ops) >= 1 /\ M \in Meanings
  BY Parsed, MeaningIs DEF M
<1>2. a \in Nat /\ z \in Nat /\ z >= 2 /\ Len(e.ops) = a + 1
  BY <1>1
<1>3. PICK v : Chain(v, M, e.ops, m) /\ o = v[Len(e.ops)]
  BY <1>1, InOrderChain
<1>4. M[e][m] = Applied(e, o, m)
  BY MeaningOutcome DEF Evaluated, CallKinds
<1>5. o \in Run /\ Len(w) = Len(e.ops)
  BY <1>1, InOrderType
<1> HIDE DEF o
<1>6. /\ o.ok /\ Defined(e, o)
      /\ M[e][m] = Does(Operator(e, o), Effect(Tail(w), o.mem), Append(o.calls, w))
  BY <1>4 DEF Applied, Undefined, CallKinds
<1>7. /\ \A k \in 1 .. Len(w) : w[k] # Junk
      /\ Returns(Tail(w)) \in Val /\ Effect(Tail(w), o.mem) \in Memory
  BY <1>6 DEF Defined
<1>8. w \in Seq(Val) /\ o.calls \in Seq(Seq(Val))
  BY <1>5 DEF Run
<1> HIDE DEF w
<1>9. w \in Seq(Val \ {Junk})
  <2>1. w \in [1 .. Len(w) -> Val] /\ Len(w) \in Nat
    BY <1>8
  <2>2. w \in [1 .. Len(w) -> Val \ {Junk}]
    BY <1>7, <2>1
  <2>3. Len(w) \in Nat
    BY <2>1
  <2> DEFINE T == Val \ {Junk}
  <2> HIDE DEF T
  <2>4. w \in [1 .. Len(w) -> T]
    BY <2>2 DEF T
  <2>5. w \in Seq(T)
    BY ONLY <2>3, <2>4, SeqDef
  <2> QED BY <2>5 DEF T
<1>10. Operator(e, o) = IF e.kind = "voidcall" THEN Junk ELSE Returns(Tail(w))
  BY DEF Operator, CallKinds, w
<1>11. c \o o.calls \in Seq(Seq(Val)) /\ c \o Append(o.calls, w) = Append(c \o o.calls, w)
  <2>1. PICK b : b = o.calls
    OBVIOUS
  <2>2. b \in Seq(Seq(Val))
    BY <1>8, <2>1
  <2>3. c \o b \in Seq(Seq(Val)) /\ c \o Append(b, w) = Append(c \o b, w)
    BY <2>2, <1>8, CallsAppend
  <2> QED BY <2>1, <2>3
<1>12. Ends(e, s, m, c) = At(Append(s, IF e.kind = "voidcall" THEN Junk ELSE Returns(Tail(w))),
                             Effect(Tail(w), o.mem), Append(c \o o.calls, w))
  <2>1. PICK g, f, n, cs : g = M[e][m] /\ f = Operator(e, o) /\ n = Effect(Tail(w), o.mem)
                            /\ cs = Append(o.calls, w)
    OBVIOUS
  <2>2. g = Does(f, n, cs)
    BY <1>6, <2>1
  <2>3. g.val = f /\ g.mem = n /\ g.calls = cs
    BY ONLY <2>2 DEF Does
  <2> QED BY <1>10, <1>11, <2>1, <2>3 DEF Ends
<1>13. Moves(u, Do(e.kind, a), Stage(s, c, v, Len(e.ops)), Ends(e, s, m, c))
  <2>1. Stage(s, c, v, Len(e.ops)) = At(s \o w, o.mem, c \o o.calls)
    BY <1>3 DEF Stage, w
  <2>2. Len(w) = a + 1
    BY <1>2, <1>5
  <2> HIDE DEF a
  <2>3. Moves(u, Do(e.kind, a), At(s \o w, o.mem, c \o o.calls),
              At(Append(s, IF e.kind = "voidcall" THEN Junk ELSE Returns(Tail(w))),
                 Effect(Tail(w), o.mem), Append(c \o o.calls, w)))
    BY <1>2, <1>7, <1>9, <2>2, MoveCall
  <2> QED BY <1>12, <2>1, <2>3
<1>14. \A j \in 1 .. Len(e.ops) :
           /\ Moves(u, Compile(e.ops[j]), Stage(s, c, v, j - 1), Stage(s, c, v, j))
           /\ Moves(u, Do("convert", 0), Stage(s, c, v, j), Stage(s, c, v, j))
  BY <1>3, <1>6, StageMove
<1>15. Stage(s, c, v, 0) = At(s, m, c)
  <2>1. v[0] = Nothing(m)
    BY <1>3 DEF Chain
  <2>2. s \o <<>> = s /\ c \o <<>> = c
    BY CallsJoin
  <2> QED BY <2>1, <2>2 DEF Stage, Nothing
<1>16. t = [k \in 1 .. z |-> IF k = z THEN Do(e.kind, a)
                             ELSE IF k % 2 = 1 /\ k > 1 THEN Do("convert", 0)
                             ELSE Compile(e.ops[1 + k \div 2])]
  BY DEF PlanCall
<1>17. IsList(t) /\ Len(t) = z
  <2>1. t \in [1 .. z -> S]
    <3> HIDE DEF t, z
    <3> QED BY <1>16
  <2> HIDE DEF S, t, z
  <2>2. t \in Seq(S) /\ Len(t) = z
    BY <1>2, <2>1
  <2> QED BY <2>2 DEF IsList
<1> HIDE DEF t, S
<1> DEFINE h == [k \in 1 .. z + 1 |-> IF k = 1 THEN Stage(s, c, v, 0)
                                       ELSE IF k = z + 1 THEN Ends(e, s, m, c)
                                       ELSE Stage(s, c, v, (k + 1) \div 2)]
<1>18. ASSUME NEW k \in 1 .. z PROVE Moves(u, t[k], h[k], h[k + 1])
  <2>0. k \in 1 .. z + 1 /\ k + 1 \in 1 .. z + 1 /\ k # z + 1 /\ k + 1 # 1 /\ k \in Nat
    BY <1>2
  <2>1. /\ h[k] = IF k = 1 THEN Stage(s, c, v, 0) ELSE Stage(s, c, v, (k + 1) \div 2)
        /\ h[k + 1] = IF k = z THEN Ends(e, s, m, c) ELSE Stage(s, c, v, (k + 2) \div 2)
    <3> HIDE DEF z
    <3>1. (k + 1) + 1 = k + 2 /\ (k + 1 = z + 1 <=> k = z)
      BY <1>2
    <3> QED BY <2>0, <3>1
  <2> HIDE DEF h
  <2>a. z = 2 * a + 2 /\ k <= z
    BY <1>2
  <2>2. PICK b \in Nat : k = 2 * b \/ k = 2 * b + 1
    <3>1. k \div 2 \in Nat /\ (k = 2 * (k \div 2) \/ k = 2 * (k \div 2) + 1)
      BY <2>0
    <3> QED BY <3>1
  <2>3. CASE k = z
    <3>0. (k + 1) \div 2 = a + 1 /\ k # 1
      <4>1. \A i \in Nat : (2 * i + 2 + 1) \div 2 = i + 1 /\ 2 * i + 2 # 1
        OBVIOUS
      <4> HIDE DEF a
      <4> QED BY <1>2, <2>3, <4>1
    <3>1. t[k] = Do(e.kind, a)
      <4> HIDE DEF z, a
      <4> QED BY <1>16, <2>3
    <3> HIDE DEF z, a
    <3> QED BY <1>2, <1>13, <2>1, <2>3, <3>0, <3>1
  <2>4. CASE k = 1
    <3>1. k # z /\ t[k] = Compile(e.ops[1])
      BY <1>2, <1>16, <2>4
    <3>2. h[k] = Stage(s, c, v, 0) /\ h[k + 1] = Stage(s, c, v, 1)
      BY <2>1, <2>4, <3>1
    <3>3. 1 \in 1 .. Len(e.ops) /\ 1 - 1 = 0
      BY <1>1
    <3>4. Moves(u, Compile(e.ops[1]), Stage(s, c, v, 0), Stage(s, c, v, 1))
      BY <1>14, <3>3
    <3> QED BY <3>1, <3>2, <3>4
  <2>5. CASE k # z /\ k # 1 /\ k = 2 * b + 1
    <3>1. b >= 1 /\ k % 2 = 1 /\ k > 1 /\ (k + 1) \div 2 = b + 1 /\ (k + 2) \div 2 = b + 1
          /\ b + 1 \in 1 .. Len(e.ops)
      <4> HIDE DEF a, z
      <4>1. b >= 1 /\ b <= a
        BY <1>2, <2>a, <2>5
      <4>2. k % 2 = 1 /\ k > 1 /\ (k + 1) \div 2 = b + 1 /\ (k + 2) \div 2 = b + 1
        BY <2>5, <4>1
      <4> QED BY <1>2, <4>1, <4>2
    <3>2. t[k] = Do("convert", 0)
      <4> HIDE DEF z, a
      <4> QED BY <1>16, <2>5, <3>1
    <3>3. h[k] = Stage(s, c, v, b + 1) /\ h[k + 1] = Stage(s, c, v, b + 1)
      BY <2>1, <2>5, <3>1
    <3> QED BY <1>14, <3>1, <3>2, <3>3
  <2>6. CASE k # z /\ k # 1 /\ k = 2 * b
    <3>1. /\ b >= 1 /\ k % 2 = 0 /\ k \div 2 = b /\ (k + 1) \div 2 = b /\ (k + 2) \div 2 = b + 1
          /\ 1 + b \in 1 .. Len(e.ops) /\ b + 1 = 1 + b /\ (1 + b) - 1 = b
      <4> HIDE DEF a, z
      <4>1. b >= 1 /\ b <= a
        BY <1>2, <2>a, <2>6
      <4>2. k % 2 = 0 /\ k \div 2 = b /\ (k + 1) \div 2 = b /\ (k + 2) \div 2 = b + 1
        BY <2>6
      <4> QED BY <1>2, <4>1, <4>2
    <3>2. t[k] = Compile(e.ops[1 + b])
      <4>1. t[k] = Compile(e.ops[1 + k \div 2])
        <5> HIDE DEF z, a
        <5> QED BY <1>16, <2>6, <3>1
      <4> QED BY <3>1, <4>1
    <3>3. h[k] = Stage(s, c, v, b) /\ h[k + 1] = Stage(s, c, v, 1 + b)
      BY <2>1, <2>6, <3>1
    <3>4. Moves(u, Compile(e.ops[1 + b]), Stage(s, c, v, (1 + b) - 1), Stage(s, c, v, 1 + b))
      BY <1>14, <3>1
    <3> QED BY <3>1, <3>2, <3>3, <3>4
  <2> QED BY <2>2, <2>3, <2>4, <2>5, <2>6
<1>19. h[1] = At(s, m, c) /\ h[z + 1] = Ends(e, s, m, c)
  <2>1. 1 \in 1 .. z + 1 /\ z + 1 \in 1 .. z + 1 /\ z + 1 # 1
    BY <1>2
  <2> HIDE DEF z
  <2> QED BY <1>15, <2>1
<1> HIDE DEF h, z
<1>20. Path(u, t, At(s, m, c), Ends(e, s, m, c))
  BY <1>17, <1>18, <1>19 DEF Path
<1>21. Plan(e) = t
  BY DEF Plan, LeafKinds, UnaryKinds, CallKinds, t
<1> QED BY <1>20, <1>21 DEF Kept

\* What tacc_cg_compile_expr plans for an expression, item by item, does what
\* the expression means: from any values s on the stack, any memory m and any
\* calls c it leads to the value on top of s, the memory and the calls that the
\* expression means.
THEOREM PlanPath ==
    ASSUME NEW u, NEW e \in Syntax, NEW s \in Seq(Val), NEW m \in Memory, NEW c \in Seq(Seq(Val)),
           M[e][m].ok, Fits[e][s = <<>>]
    PROVE  Kept(u, e, s, m, c)
<1>1. e.kind \in LeafKinds \cup UnaryKinds \cup PairKinds \cup CallKinds
  BY Parsed
<1>2. PairKinds = {"binary", "comma", "assign"} \cup {"and", "or"}
  BY DEF PairKinds
<1> QED BY <1>1, <1>2, LeafPath, UnaryPath, PairPath, LogicalPath, CallPath

\* Whatever encloses an item, it does the same to the slots.
LEMMA StepShift ==
    ASSUME NEW u, NEW i, i.do # "end", NEW h \in Nat, NEW p \in Nat, NEW k \in Nat, NEW l \in Nat,
           Step(u, i, h, p, k, l), NEW n \in Nat
    PROVE  Step(u, i, h, p + n, k, l + n) /\ i.do \in Known \ {"end"}
<1>1. i.do \in Known \ {"end"}
  BY DEF Step, CallKinds, Known
<1>2. Step(u, i, h, p + n, k, l + n)
  BY DEF Step, CallKinds
<1> QED BY <1>1, <1>2

\* No plan ends the statement.
LEMMA NoEnd ==
    ASSUME NEW u, NEW e \in Syntax, NEW k \in 1 .. Len(Plan(e)) PROVE Plan(e)[k].do # "end"
<1>1. \E w : w # u
  <2>1. u # 0 \/ u # 1
    OBVIOUS
  <2> QED BY <2>1
<1>2. PICK w : w # u
  BY <1>1
<1>3. ASSUME NEW v PROVE Plan(e)[k].do = "end" => Plan(e)[k].of = v
  <2>1. Leads(v, Plan(e), 0, 0, 0 + 1, 0)
    BY PlanYields DEF Yields, Syntax
  <2>2. PICK h, g : Walk(v, Plan(e), h, g)
    BY <2>1 DEF Leads
  <2>3. Step(v, Plan(e)[k], h[k], g[k], h[k + 1], g[k + 1])
    BY <2>2 DEF Walk
  <2> QED BY <2>3 DEF Step, CallKinds
<1> QED BY <1>2, <1>3

\* Jumped over, the plan of an expression leaves a slot.
LEMMA SkipPath ==
    ASSUME NEW u, NEW e \in Syntax, NEW h \in Nat, NEW n \in Nat, n >= 1, NEW m, NEW c, NEW x
    PROVE  Path(u, Plan(e), Jumped(h, m, c, n, x), Jumped(h + 1, m, c, n, x))
<1>0. PICK t : t = Plan(e)
  OBVIOUS
<1>1. Leads(u, t, h, 0, h + 1, 0)
  BY <1>0, PlanYields DEF Yields, Syntax
<1>2. PICK w, g : /\ Walk(u, t, w, g) /\ w[1] = h /\ g[1] = 0
                  /\ w[Len(t) + 1] = h + 1 /\ g[Len(t) + 1] = 0
  BY <1>1 DEF Leads
<1>3. IsList(t)
  BY <1>1 DEF Leads
<1>4. Len(t) \in Nat
  BY <1>3 DEF IsList
<1> DEFINE f == [k \in 1 .. Len(t) + 1 |-> Jumped(w[k], m, c, g[k] + n, x)]
<1>5. ASSUME NEW k \in 1 .. Len(t) PROVE Moves(u, t[k], f[k], f[k + 1])
  <2>1. k \in 1 .. Len(t) + 1 /\ k + 1 \in 1 .. Len(t) + 1
    BY <1>4
  <2>2. f[k] = Jumped(w[k], m, c, g[k] + n, x) /\ f[k + 1] = Jumped(w[k + 1], m, c, g[k + 1] + n, x)
    BY <2>1
  <2>3. Step(u, t[k], w[k], g[k], w[k + 1], g[k + 1])
    BY <1>2 DEF Walk
  <2>4. w[k] \in Nat /\ g[k] \in Nat /\ w[k + 1] \in Nat /\ g[k + 1] \in Nat
    BY <1>2, <2>1 DEF Walk
  <2>5. t[k].do # "end"
    BY <1>0, NoEnd
  <2>6. Step(u, t[k], w[k], g[k] + n, w[k + 1], g[k + 1] + n) /\ t[k].do \in Known \ {"end"}
    BY <2>3, <2>4, <2>5, StepShift
  <2>7. g[k] + n \in Nat /\ g[k + 1] + n \in Nat /\ g[k] + n >= 1 /\ g[k + 1] + n >= 1
    BY <2>4
  <2> HIDE DEF f
  <2>8. PICK i, b, p, d, q : i = t[k] /\ b = w[k] /\ p = g[k] + n /\ d = w[k + 1] /\ q = g[k + 1] + n
    OBVIOUS
  <2>9. Moves(u, i, Jumped(b, m, c, p, x), Jumped(d, m, c, q, x))
    <3>1. b \in Nat /\ p \in Nat /\ d \in Nat /\ q \in Nat /\ p >= 1 /\ q >= 1 /\ Step(u, i, b, p, d, q)
          /\ i.do \in Known \ {"end"}
      BY <2>4, <2>6, <2>7, <2>8
    <3> QED BY ONLY <3>1, MoveSkip
  <2> QED BY <2>2, <2>8, <2>9
<1>6. f[1] = Jumped(h, m, c, n, x) /\ f[Len(t) + 1] = Jumped(h + 1, m, c, n, x)
  <2>1. 1 \in 1 .. Len(t) + 1 /\ Len(t) + 1 \in 1 .. Len(t) + 1 /\ 0 + n = n
    BY <1>4
  <2> QED BY <1>2, <2>1
<1> HIDE DEF f
<1>7. Path(u, t, Jumped(h, m, c, n, x), Jumped(h + 1, m, c, n, x))
  BY <1>3, <1>5, <1>6 DEF Path
<1> QED BY <1>0, <1>7

\* What is left of the statement once the expression has been compiled.
Goal ==
    Ended(Meant.mem, Meant.calls,
          CASE use = "statement" -> Junk
            [] use = "return"    -> Meant.val
            [] use = "condition" -> Truth(Meant.val))

Promised == Meant.ok /\ (use = "condition" => Meant.val # Junk)

\* The statement around an expression uses its value.
LEMMA UsePath ==
    ASSUME use \in Uses, expr \in Exprs, start \in Memory, Promised, Alone(expr)
    PROVE  Path(use, PlanUse(expr, use), At(<<>>, start, <<>>), Goal)
<1> DEFINE a == Compile(expr)
           v == Meant.val
           m == Meant.mem
           c == Meant.calls
           f == Do("end", use)
<1>1. expr \in Syntax /\ Meant = M[expr][start]
  BY DEF Syntax, Meant, M
<1>2. v \in Val /\ m \in Memory /\ c \in Seq(Seq(Val)) /\ Meant.ok
  BY <1>1, MeaningOutcome DEF Promised
<1>3. Moves(use, a, At(<<>>, start, <<>>), At(<<v>>, m, c))
  <2>1. Fits[expr][<<>> = <<>>]
    <3>1. (<<>> = <<>>) = TRUE
      OBVIOUS
    <3> QED BY <3>1 DEF Alone
  <2>2. Moves(use, a, At(<<>>, start, <<>>), At(Append(<<>>, v), m, <<>> \o c))
    BY <1>1, <1>2, <2>1, MoveCompile DEF M
  <2> HIDE DEF c, v
  <2>3. <<>> \o c = c
    BY <1>2, CallsJoin
  <2> QED BY <2>2, <2>3, AloneValue
<1>4. <<>> \in Seq(Val)
  OBVIOUS
<1>5. CASE use = "statement"
  <2>1. Moves(use, Do("pop", 0), At(<<v>>, m, c), At(<<>>, m, c))
    BY <1>2, <1>4, AloneValue, MovePop
  <2>2. Moves(use, f, At(<<>>, m, c), Goal)
    BY <1>5, MoveEnd DEF Goal
  <2>3. PlanUse(expr, use) = <<a, Do("pop", 0), f>>
    BY <1>5 DEF PlanUse
  <2> HIDE DEF a, f, v, m, c
  <2> QED BY <1>3, <2>1, <2>2, <2>3, PathThree
<1>6. CASE use = "return"
  <2>1. Moves(use, Do("convert", 0), At(<<v>>, m, c), At(<<v>>, m, c))
    BY <1>2, <1>4, AloneValue, MoveConvert
  <2>2. Moves(use, f, At(<<v>>, m, c), Goal)
    BY <1>2, <1>6, MoveEnd DEF Goal
  <2>3. PlanUse(expr, use) = <<a, Do("convert", 0), f>>
    BY <1>6 DEF PlanUse
  <2> HIDE DEF a, f, v, m, c
  <2> QED BY <1>3, <2>1, <2>2, <2>3, PathThree
<1>7. CASE use = "condition"
  <2>0. v \in Val \ {Junk} /\ Truth(v) \in Val
    BY <1>2, <1>7, TruthVal DEF Promised
  <2>1. Moves(use, Const(Zero), At(<<v>>, m, c), At(Append(<<v>>, Zero), m, c))
        /\ Moves(use, Binary("ne"), At(Append(<<v>>, Zero), m, c), At(<<Truth(v)>>, m, c))
    BY <2>0, Tested
  <2>2. Moves(use, f, At(<<Truth(v)>>, m, c), Goal)
    BY <2>0, <1>7, MoveEnd DEF Goal
  <2>3. PlanUse(expr, use) = <<a, Const(Zero), Binary("ne"), f>>
    BY <1>7 DEF PlanUse
  <2> HIDE DEF a, f, v, m, c
  <2> QED BY <1>3, <2>1, <2>2, <2>3, PathFour
<1> QED BY <1>5, <1>6, <1>7 DEF Uses

-----------------------------------------------------------------------------
(* The compiler follows the path: the generator state and the machine are  *)
(* what the path says they are.                                            *)

\* Labels are given out once, inner ones later.
Labelled ==
    /\ labels \in Nat
    /\ \A k \in 1 .. Len(joins) :
          /\ joins[k].label \in 1 .. labels
          /\ \A l \in 1 .. Len(joins) : k < l => joins[k].label < joins[l].label

Running(s, m, c) ==
    /\ mem = m /\ calls = c /\ m \in Memory /\ c \in Seq(Seq(Val))
    /\ Holds(cg, s)
    /\ \A k \in 1 .. Len(joins) : joins[k].reg \in Volatile

Jumping(h, m, c, n, x) ==
    /\ mem = m /\ calls = c /\ m \in Memory /\ c \in Seq(Seq(Val))
    /\ Len(cg.stack) = h /\ cg.frame \in Seq(Val) /\ cg.regs \in [Volatile -> Val]
    /\ n \in 1 .. Len(joins)
    /\ cg.skip = joins[Len(joins) + 1 - n].label
    /\ cg.regs[joins[Len(joins) + 1 - n].reg] = x
    /\ \A k \in 1 .. Len(joins) + 1 - n : joins[k].reg \in Volatile

Tracks(a) ==
    /\ a.ended => mem = a.mem /\ calls = a.calls /\ (a.out # Junk => out = a.out)
    /\ ~a.ended /\ a.skip = 0 => Running(a.vals, a.mem, a.calls)
    /\ ~a.ended /\ a.skip # 0 => Jumping(a.height, a.mem, a.calls, a.skip, a.land)

\* Ways to be on the path
LEMMA TracksAt ==
    ASSUME NEW s, NEW m, NEW c
    PROVE  /\ Running(s, m, c) => Tracks(At(s, m, c))
           /\ Running(s, m, c)' => Tracks(At(s, m, c))'
BY DEF Tracks, At

LEMMA TracksJumped ==
    ASSUME NEW h, NEW m, NEW c, NEW n, NEW x
    PROVE  /\ Jumping(h, m, c, n, x) => Tracks(Jumped(h, m, c, n, x))
           /\ Jumping(h, m, c, n, x)' => Tracks(Jumped(h, m, c, n, x))'
<1> DEFINE a == Jumped(h, m, c, n, x)
<1>1. a.ended = FALSE /\ a.height = h /\ a.mem = m /\ a.calls = c /\ a.skip = n /\ a.land = x
  BY DEF Jumped
<1>2. Jumping(h, m, c, n, x) => n # 0
  BY DEF Jumping
<1>3. Jumping(h, m, c, n, x)' => n # 0
  BY DEF Jumping
<1> HIDE DEF a
<1>4. (Jumping(h, m, c, n, x) => Tracks(a)) /\ (Jumping(h, m, c, n, x)' => Tracks(a)')
  BY <1>1, <1>2, <1>3 DEF Tracks
<1> QED BY <1>4 DEF a

LEMMA TracksEnded ==
    ASSUME NEW m, NEW c, NEW o, mem' = m, calls' = c, o # Junk => out' = o
    PROVE  Tracks(Ended(m, c, o))'
BY DEF Tracks, Ended

-----------------------------------------------------------------------------
(* Conversions hold the values. *)

\* One conversion, and those of both operands
LEMMA HoldsConverted ==
    ASSUME NEW c, NEW t \in Seq(Val), NEW x \in Val, Holds(c, Append(t, x)), NEW d \in Converted(c)
    PROVE  Holds(d, Append(t, x))
BY HoldsExtend DEF Converted

LEMMA HoldsOperandsConverted ==
    ASSUME NEW c, NEW t \in Seq(Val), NEW x \in Val, NEW y \in Val,
           Holds(c, Append(Append(t, x), y)), NEW e \in OperandsConverted(c)
    PROVE  Holds(e, Append(Append(t, x), y))
<1>1. PICK d \in {c} \cup {Swap(Extend(Swap(c)))} : e \in Converted(d)
  BY DEF OperandsConverted
<1>2. Append(t, x) \in Seq(Val) /\ Append(t, y) \in Seq(Val)
  OBVIOUS
<1>3. Holds(Swap(c), Append(Append(t, y), x))
  BY HoldsSwap
<1>4. PICK s : s = Append(t, y)
  OBVIOUS
<1>5. Holds(Extend(Swap(c)), Append(s, x))
  BY <1>2, <1>3, <1>4, HoldsExtend
<1>6. PICK f : f = Extend(Swap(c))
  OBVIOUS
<1>7. Holds(f, Append(Append(t, y), x))
  BY <1>4, <1>5, <1>6
<1>8. Holds(Swap(f), Append(Append(t, x), y))
  BY <1>7, HoldsSwap
<1>9. Holds(d, Append(Append(t, x), y))
  BY <1>1, <1>6, <1>8
<1>10. PICK r : r = Append(t, x)
  OBVIOUS
<1>11. r \in Seq(Val) /\ Holds(d, Append(r, y))
  BY <1>2, <1>9, <1>10
<1> QED BY <1>1, <1>10, <1>11, HoldsConverted

-----------------------------------------------------------------------------
(* One lemma per step of the compiler *)

\* A jump goes to an open label.
LEMMA JumpFacts ==
    ASSUME IInv, Labelled, NEW a, Tracks(a), ~a.ended, a.skip # 0
    PROVE  /\ Jumping(a.height, a.mem, a.calls, a.skip, a.land)
           /\ Len(joins) \in Nat /\ Len(joins) + 1 - a.skip \in 1 .. Len(joins)
           /\ cg.skip \in Nat /\ cg.skip # 0 /\ ~Runs(cg)
<1>1. Jumping(a.height, a.mem, a.calls, a.skip, a.land)
  BY DEF Tracks
<1>2. Len(joins) \in Nat
  BY DEF IInv, Landing, IsList
<1>3. PICK n : n = a.skip
  OBVIOUS
<1>4. n \in 1 .. Len(joins) /\ cg.skip = joins[Len(joins) + 1 - n].label
  BY <1>1, <1>3 DEF Jumping
<1>5. PICK T : T = Len(joins) + 1 - n
  OBVIOUS
<1>6. T \in 1 .. Len(joins) /\ cg.skip = joins[T].label
  BY <1>2, <1>4, <1>5
<1>7. cg.skip \in 1 .. labels /\ labels \in Nat
  BY <1>6 DEF Labelled
<1> QED BY <1>1, <1>2, <1>3, <1>5, <1>6, <1>7 DEF Runs

\* Code that is jumped over changes nothing but the slots.
LEMMA JumpStep ==
    ASSUME IInv, Labelled, NEW a, NEW d, NEW i, Tracks(a), ~a.ended, a.skip # 0, i = Head(todo),
           Skips(use, i, a, d), i.do \notin {"branch", "join", "compile"},
           Resized, UNCHANGED <<joins, mem, calls>>
    PROVE  Tracks(d)'
<1>1. Jumping(a.height, a.mem, a.calls, a.skip, a.land) /\ cg.skip # 0 /\ Len(joins) \in Nat
  BY JumpFacts
<1>2. PICK k, l \in Nat : /\ i.do # "end" /\ l >= 1 /\ Step(use, i, a.height, a.skip, k, l)
                          /\ d = Jumped(k, a.mem, a.calls, l, a.land)
  BY DEF Skips
<1>3. l = a.skip
  BY <1>2 DEF Step
<1>4. a.height = Len(cg.stack)
  BY <1>1 DEF Jumping
<1>5. Step(use, Head(todo), Len(cg.stack), Len(joins), k, Len(joins))
  BY <1>2, <1>4 DEF Step
<1>6. Sized(cg, cg', k)
  BY <1>1, <1>5 DEF Resized
<1>8. Jumping(k, a.mem, a.calls, l, a.land)'
  BY <1>1, <1>3, <1>6 DEF Jumping, Sized
<1> QED BY <1>2, <1>8, TracksJumped

\* The next item acts or is jumped over.
LEMMA Cases ==
    ASSUME NEW a, NEW d, NEW i, Tracks(a), Moves(use, i, a, d)
    PROVE  /\ i.do \in Known /\ ~a.ended
           /\ \/ a.skip # 0 /\ Skips(use, i, a, d)
              \/ \E s, m, c : Running(s, m, c) /\ Acts(use, i, s, m, c, d)
BY DEF Tracks, Moves

\* Running code that changes only the slots runs on.
LEMMA StillRunning ==
    ASSUME NEW s, NEW m, NEW c, Running(s, m, c), NEW r, Holds(cg', r),
           UNCHANGED <<joins, mem, calls>>
    PROVE  Tracks(At(r, m, c))'
<1>1. Running(r, m, c)'
  BY DEF Running
<1> QED BY <1>1, TracksAt

\* Each step goes where the path goes.
LEMMA TrackLoad ==
    ASSUME IInv, Labelled, LoadStep, NEW a, NEW d, NEW i, i = Head(todo),
           Tracks(a), Moves(use, i, a, d)
    PROVE  Tracks(d)'
<1>1. i.do = "load" /\ cg' = Load(cg, i.of) /\ UNCHANGED <<joins, mem, calls>>
  BY DEF LoadStep, Now, Arg, Quiet
<1>2. ASSUME a.skip # 0, Skips(use, i, a, d) PROVE Tracks(d)'
  BY <1>1, <1>2, Cases, StepLoad, JumpStep
<1>3. ASSUME NEW s, NEW m, NEW c, Running(s, m, c), Acts(use, i, s, m, c, d) PROVE Tracks(d)'
  <2>1. i.of \in Val /\ d = At(Append(s, i.of), m, c)
    BY <1>1, <1>3 DEF Acts
  <2>2. Holds(cg', Append(s, i.of))
    BY <1>1, <1>3, <2>1, HoldsLoad DEF Running
  <2> QED BY <1>1, <1>3, <2>1, <2>2, StillRunning
<1> QED BY <1>2, <1>3, Cases

LEMMA TrackDeref ==
    ASSUME IInv, Labelled, DerefStep, NEW a, NEW d, NEW i, i = Head(todo),
           Tracks(a), Moves(use, i, a, d)
    PROVE  Tracks(d)'
<1>1. i.do = "deref" /\ cg' = Deref(cg, mem, mem) /\ UNCHANGED <<joins, mem, calls>>
  BY DEF DerefStep, Now, Quiet
<1>2. ASSUME a.skip # 0, Skips(use, i, a, d) PROVE Tracks(d)'
  BY <1>1, <1>2, Cases, StepDeref, JumpStep
<1>3. ASSUME NEW s, NEW m, NEW c, Running(s, m, c), Acts(use, i, s, m, c, d) PROVE Tracks(d)'
  <2>1. PICK t \in Seq(Val), x \in Data : s = Append(t, x) /\ d = At(Append(t, m[x]), m, c)
    BY <1>1, <1>3 DEF Acts
  <2>2. x \in Val \ {Junk} /\ m \in [Data -> Val] /\ cg' = Deref(cg, m, m) /\ Holds(cg, Append(t, x))
    BY <1>1, <1>3, <2>1, ThreeIntegers DEF Running, Memory
  <2>3. Holds(cg', Append(t, m[x]))
    BY <2>2, HoldsDeref
  <2> QED BY <1>1, <1>3, <2>1, <2>3, StillRunning
<1> QED BY <1>2, <1>3, Cases

LEMMA TrackConvert ==
    ASSUME IInv, Labelled, ConvertStep, NEW a, NEW d, NEW i, i = Head(todo),
           Tracks(a), Moves(use, i, a, d)
    PROVE  Tracks(d)'
<1>1. i.do = "convert" /\ cg' \in Converted(cg) /\ UNCHANGED <<joins, mem, calls>>
  BY DEF ConvertStep, Now, Quiet
<1>2. ASSUME a.skip # 0, Skips(use, i, a, d) PROVE Tracks(d)'
  BY <1>1, <1>2, Cases, StepConvert, JumpStep
<1>3. ASSUME NEW s, NEW m, NEW c, Running(s, m, c), Acts(use, i, s, m, c, d) PROVE Tracks(d)'
  <2>1. PICK t \in Seq(Val), x \in Val : s = Append(t, x) /\ d = At(s, m, c)
    BY <1>1, <1>3 DEF Acts
  <2>2. Holds(cg, Append(t, x))
    BY <1>3, <2>1 DEF Running
  <2>3. Holds(cg', s)
    BY <1>1, <2>1, <2>2, HoldsConverted
  <2> QED BY <1>1, <1>3, <2>1, <2>3, StillRunning
<1> QED BY <1>2, <1>3, Cases

LEMMA TrackBinary ==
    ASSUME IInv, Labelled, BinaryStep, NEW a, NEW d, NEW i, i = Head(todo),
           Tracks(a), Moves(use, i, a, d)
    PROVE  Tracks(d)'
<1>1. i.do = "binary" /\ UNCHANGED <<joins, mem, calls>>
  BY DEF BinaryStep, Now, Quiet
<1>2. ASSUME a.skip # 0, Skips(use, i, a, d) PROVE Tracks(d)'
  BY <1>1, <1>2, Cases, StepBinary, JumpStep
<1>3. ASSUME NEW s, NEW m, NEW c, Running(s, m, c), Acts(use, i, s, m, c, d) PROVE Tracks(d)'
  <2>1. PICK t \in Seq(Val), x, y \in Val \ {Junk} :
            s = Append(Append(t, x), y) /\ i.of \in BinOps /\ d = At(Append(t, Fn(i.of, x, y)), m, c)
    BY <1>1, <1>3 DEF Acts
  <2>2. PICK e \in OperandsConverted(cg) :
            \/ i.of \in {"shl", "shr"} /\ cg' = Shift(e, i.of)
            \/ i.of \in {"div", "rem"} /\ cg' = Divide(e, i.of)
            \/ cg' = Binop(e, i.of)
    BY DEF BinaryStep, Arg
  <2>3. Holds(cg, Append(Append(t, x), y))
    BY <1>3, <2>1 DEF Running
  <2>4. Holds(e, Append(Append(t, x), y))
    BY <2>3, HoldsOperandsConverted
  <2>5. Holds(cg', Append(t, Fn(i.of, x, y)))
    <3>1. CASE cg' = Shift(e, i.of)
      BY <2>1, <2>4, <3>1, HoldsShift
    <3>2. CASE i.of \in {"div", "rem"} /\ cg' = Divide(e, i.of)
      BY <2>4, <3>2, HoldsDivide
    <3>3. CASE cg' = Binop(e, i.of)
      BY <2>1, <2>4, <3>3, HoldsBinop
    <3> QED BY <2>2, <3>1, <3>2, <3>3
  <2> QED BY <1>1, <1>3, <2>1, <2>5, StillRunning
<1> QED BY <1>2, <1>3, Cases

LEMMA TrackPop ==
    ASSUME IInv, Labelled, PopStep, NEW a, NEW d, NEW i, i = Head(todo),
           Tracks(a), Moves(use, i, a, d)
    PROVE  Tracks(d)'
<1>1. i.do = "pop" /\ cg' = Pop(cg) /\ UNCHANGED <<joins, mem, calls>>
  BY DEF PopStep, Now, Quiet
<1>2. ASSUME a.skip # 0, Skips(use, i, a, d) PROVE Tracks(d)'
  BY <1>1, <1>2, Cases, StepPop, JumpStep
<1>3. ASSUME NEW s, NEW m, NEW c, Running(s, m, c), Acts(use, i, s, m, c, d) PROVE Tracks(d)'
  <2>1. PICK t \in Seq(Val), x \in Val : s = Append(t, x) /\ d = At(t, m, c)
    BY <1>1, <1>3 DEF Acts
  <2>2. Holds(cg, Append(t, x))
    BY <1>3, <2>1 DEF Running
  <2>3. Holds(cg', t)
    BY <1>1, <2>2, HoldsPop
  <2> QED BY <1>1, <1>3, <2>1, <2>3, StillRunning
<1> QED BY <1>2, <1>3, Cases

LEMMA TrackShuffle ==
    ASSUME IInv, Labelled, ShuffleStep, NEW a, NEW d, NEW i, i = Head(todo),
           Tracks(a), Moves(use, i, a, d)
    PROVE  Tracks(d)'
<1>1. /\ i.do \in {"dup", "swap", "rot"} /\ UNCHANGED <<joins, mem, calls>>
      /\ i.do = "dup" => cg' = Dup(cg)
      /\ i.do = "swap" => cg' = Swap(cg)
      /\ i.do = "rot" => cg' = Rot(cg)
  BY DEF ShuffleStep, Now, Quiet
<1>2. ASSUME a.skip # 0, Skips(use, i, a, d) PROVE Tracks(d)'
  BY <1>1, <1>2, Cases, StepShuffle, JumpStep
<1>3. ASSUME NEW s, NEW m, NEW c, Running(s, m, c), Acts(use, i, s, m, c, d) PROVE Tracks(d)'
  <2>1. CASE i.do = "dup"
    <3>1. PICK t \in Seq(Val), x \in Val : s = Append(t, x) /\ d = At(Append(s, x), m, c)
      BY <1>3, <2>1 DEF Acts
    <3>2. Holds(cg, Append(t, x))
      BY <1>3, <3>1 DEF Running
    <3>3. Holds(cg', Append(s, x))
      BY <1>1, <2>1, <3>1, <3>2, HoldsDup
    <3> QED BY <1>1, <1>3, <3>1, <3>3, StillRunning
  <2>2. CASE i.do = "swap"
    <3>1. PICK t \in Seq(Val), x, y \in Val :
              s = Append(Append(t, x), y) /\ d = At(Append(Append(t, y), x), m, c)
      BY <1>3, <2>2 DEF Acts
    <3>2. Holds(cg, Append(Append(t, x), y))
      BY <1>3, <3>1 DEF Running
    <3>3. Holds(cg', Append(Append(t, y), x))
      BY <1>1, <2>2, <3>2, HoldsSwap
    <3> QED BY <1>1, <1>3, <3>1, <3>3, StillRunning
  <2>3. CASE i.do = "rot"
    <3>1. PICK t \in Seq(Val), x, y, z \in Val :
              /\ s = Append(Append(Append(t, x), y), z)
              /\ d = At(Append(Append(Append(t, y), z), x), m, c)
      BY <1>3, <2>3 DEF Acts
    <3>2. Holds(cg, Append(Append(Append(t, x), y), z))
      BY <1>3, <3>1 DEF Running
    <3>3. Holds(cg', Append(Append(Append(t, y), z), x))
      BY <1>1, <2>3, <3>2, HoldsRot
    <3> QED BY <1>1, <1>3, <3>1, <3>3, StillRunning
  <2> QED BY <1>1, <2>1, <2>2, <2>3
<1> QED BY <1>2, <1>3, Cases

LEMMA TrackStore ==
    ASSUME IInv, Labelled, StoreStep, NEW a, NEW d, NEW i, i = Head(todo),
           Tracks(a), Moves(use, i, a, d)
    PROVE  Tracks(d)'
<1>1. /\ i.do = "store" /\ UNCHANGED <<joins, calls>>
      /\ cg' = Pop(Pop(StoreOperands(cg))) /\ mem' = Stored(StoreOperands(cg), mem)
  BY DEF StoreStep, Now
<1>2. ASSUME a.skip # 0, Skips(use, i, a, d) PROVE Tracks(d)'
  <2>1. cg.skip # 0
    BY <1>2, Cases, JumpFacts
  <2>2. StoreOperands(cg).skip = cg.skip
    BY SameStoreOperands DEF IInv, Same, Sized
  <2>3. mem' = mem
    BY <1>1, <2>1, <2>2 DEF Stored, Runs
  <2> QED BY <1>1, <1>2, <2>3, Cases, StepStore, JumpStep
<1>3. ASSUME NEW s, NEW m, NEW c, Running(s, m, c), Acts(use, i, s, m, c, d) PROVE Tracks(d)'
  <2>1. PICK t \in Seq(Val), x \in Data, y \in Val \ {Junk} :
            s = Append(Append(t, x), y) /\ d = At(t, [m EXCEPT ![x] = y], c)
    BY <1>1, <1>3 DEF Acts
  <2>2. /\ x \in Val \ {Junk} /\ m \in [Data -> Val] /\ Holds(cg, Append(Append(t, x), y))
        /\ mem' = Stored(StoreOperands(cg), m) /\ calls' = c /\ c \in Seq(Seq(Val))
    BY <1>1, <1>3, <2>1, ThreeIntegers DEF Running, Memory
  <2>3. Holds(cg', t) /\ mem' = [m EXCEPT ![x] = y]
    <3>1. PICK g : g = cg
      OBVIOUS
    <3>2. Holds(g, Append(Append(t, x), y))
      BY <2>2, <3>1
    <3>3. Holds(Pop(Pop(StoreOperands(g))), t)
      BY <2>2, <3>2, HoldsStore
    <3>a. Assigns(g, m, x, y)
      BY <2>2, <3>2, HoldsStore
    <3>4. Stored(StoreOperands(g), m) = [m EXCEPT ![x] = y]
      BY <3>a DEF Assigns
    <3> QED BY <1>1, <2>2, <3>1, <3>3, <3>4
  <2>4. [m EXCEPT ![x] = y] \in Memory
    BY <2>2 DEF Memory
  <2>5. PICK n : n = [m EXCEPT ![x] = y]
    OBVIOUS
  <2>6. Running(t, n, c)'
    BY <1>1, <1>3, <2>2, <2>3, <2>4, <2>5 DEF Running
  <2> QED BY <2>1, <2>5, <2>6, TracksAt
<1> QED BY <1>2, <1>3, Cases

LEMMA TrackCall ==
    ASSUME IInv, Labelled, CallStep, NEW a, NEW d, NEW i, i = Head(todo),
           Tracks(a), Moves(use, i, a, d)
    PROVE  Tracks(d)'
<1> DEFINE p    == Passed(cg, i.of)
           args == [j \in 1 .. i.of |-> p[j]]
<1>0. PICK void \in BOOLEAN : void = (i.do = "voidcall")
  OBVIOUS
<1>1. /\ i.do \in CallKinds /\ UNCHANGED joins
      /\ cg' = Call(cg, i.of, Returns(args), void)
      /\ Runs(cg) => mem' = Effect(args, mem) /\ calls' = Append(calls, <<p[0]>> \o args)
      /\ ~Runs(cg) => UNCHANGED <<mem, calls>>
  BY <1>0 DEF CallStep, Now, Arg, CallKinds
<1> HIDE DEF p, args
<1>2. ASSUME a.skip # 0, Skips(use, i, a, d) PROVE Tracks(d)'
  <2>1. ~Runs(cg)
    BY <1>2, Cases, JumpFacts
  <2>2. i.do \notin {"branch", "join", "compile"}
    BY <1>1 DEF CallKinds
  <2> QED BY <1>1, <1>2, <2>1, <2>2, Cases, StepCall, JumpStep
<1>3. ASSUME NEW s, NEW m, NEW c, Running(s, m, c), Acts(use, i, s, m, c, d) PROVE Tracks(d)'
  <2>1. PICK t \in Seq(Val), w \in Seq(Val \ {Junk}) :
            /\ s = t \o w /\ i.of \in Nat /\ Len(w) = i.of + 1
            /\ Returns(Tail(w)) \in Val /\ Effect(Tail(w), m) \in Memory
            /\ d = At(Append(t, IF void THEN Junk ELSE Returns(Tail(w))),
                      Effect(Tail(w), m), Append(c, w))
    BY <1>0, <1>1, <1>3 DEF Acts
  <2>2. PICK n : n = i.of
    OBVIOUS
  <2>3. /\ Holds(cg, t \o w) /\ Runs(cg) /\ mem = m /\ calls = c /\ c \in Seq(Seq(Val))
        /\ \A k \in 1 .. Len(joins) : joins[k].reg \in Volatile
    BY <1>3, <2>1 DEF Running, Holds, Stands
  <2>4. PICK r : r = Returns(Tail(w))
    OBVIOUS
  <2>a. PICK g : g = cg
    OBVIOUS
  <2>b. Holds(g, t \o w) /\ n \in Nat /\ Len(w) = n + 1 /\ r \in Val
    BY <2>1, <2>2, <2>3, <2>4, <2>a
  <2>c. Passes(Passed(g, n), n, w)
    BY <2>b, HoldsCall
  <2>d. Holds(Call(g, n, r, void), Append(t, IF void THEN Junk ELSE r))
    BY <2>b, HoldsCall
  <2>5. Passes(p, n, w) /\ Holds(Call(cg, n, r, void), Append(t, IF void THEN Junk ELSE r))
    BY <2>2, <2>a, <2>c, <2>d DEF p
  <2>6. args = Tail(w) /\ <<p[0]>> \o args = w
    <3>1. PICK q : q = p
      OBVIOUS
    <3>a. Passes(q, n, w) /\ n \in Nat /\ Len(w) = n + 1
      BY <2>5, <2>b, <3>1
    <3>2. Arguments(q, n) = Tail(w) /\ <<q[0]>> \o Arguments(q, n) = w
      BY <3>a, Handed
    <3>3. args = Arguments(q, n)
      BY <2>2, <3>1 DEF args, Arguments
    <3> QED BY <3>1, <3>2, <3>3
  <2>7. PICK v : v = IF void THEN Junk ELSE r
    OBVIOUS
  <2>8. Holds(cg', Append(t, v))
    BY <1>1, <2>2, <2>4, <2>5, <2>6, <2>7
  <2>9. PICK f : f = Effect(Tail(w), m)
    OBVIOUS
  <2>10. mem' = f /\ f \in Memory
    BY <1>1, <2>1, <2>3, <2>6, <2>9
  <2>11. PICK e : e = Append(c, w)
    OBVIOUS
  <2>12. w \in Seq(Val)
    OBVIOUS
  <2>e. e \in Seq(Seq(Val))
    <3>1. PICK S : S = Seq(Val)
      OBVIOUS
    <3>2. c \in Seq(S) /\ w \in S
      BY <2>3, <2>12, <3>1
    <3>3. Append(c, w) \in Seq(S)
      BY <3>2
    <3> QED BY <2>11, <3>1, <3>3
  <2>13. calls' = e /\ e \in Seq(Seq(Val))
    BY <1>1, <2>3, <2>6, <2>11, <2>e
  <2>14. Running(Append(t, v), f, e)'
    BY <1>1, <2>3, <2>8, <2>10, <2>13 DEF Running
  <2>15. d = At(Append(t, v), f, e)
    BY <2>1, <2>4, <2>7, <2>9, <2>11
  <2> QED BY <2>14, <2>15, TracksAt
<1> QED BY <1>2, <1>3, Cases

LEMMA TrackEnd ==
    ASSUME IInv, Labelled, EndStep, NEW a, NEW d, NEW i, i = Head(todo),
           Tracks(a), Moves(use, i, a, d)
    PROVE  Tracks(d)'
<1>1. i.do = "end" /\ UNCHANGED <<joins, mem, calls>> /\ use \in Uses
  BY DEF EndStep, Now, IInv
<1>2. a.skip = 0 \/ ~Skips(use, i, a, d)
  BY <1>1 DEF Skips
<1>3. PICK s, m, c : Running(s, m, c) /\ Acts(use, i, s, m, c, d)
  BY <1>2, Cases
<1>4. mem' = m /\ calls' = c /\ Holds(cg, s)
  BY <1>1, <1>3 DEF Running
<1>5. CASE use = "statement"
  <2>1. d = Ended(m, c, Junk)
    BY <1>1, <1>3, <1>5 DEF Acts
  <2> QED BY <1>4, <2>1, TracksEnded
<1>6. CASE use # "statement"
  <2>1. PICK x \in Val : s = <<x>> /\ d = Ended(m, c, x)
    BY <1>1, <1>3, <1>6 DEF Acts
  <2>2. Holds(cg, <<x>>) /\ Top(cg) = 1
    <3>1. Holds(cg, <<x>>)
      BY <1>4, <2>1
    <3> QED BY <3>1, OneHeld DEF Holds
  <2>3. <<x>> \in Seq(Val) /\ Len(<<x>>) = 1 /\ <<x>>[1] = x /\ Top(cg) \in 1 .. Len(<<x>>)
    BY <2>2
  <2>4. PICK D : /\ D = {RAX} \/ D = Volatile
                 /\ out' = EnsureReg(cg, Top(cg), D).regs[RegOf(EnsureReg(cg, Top(cg), D), Top(cg))]
    <3>1. CASE use = "return"
      <4>1. out' = EnsureReg(cg, Top(cg), {RAX}).regs[RAX]
        BY <3>1 DEF EndStep
      <4>2. RegOf(EnsureReg(cg, Top(cg), {RAX}), Top(cg)) \in {RAX}
        <5>1. {RAX} \subseteq Volatile /\ {RAX} # {}
          BY SlotsAssumption
        <5>2. PICK r : r = <<x>>
          OBVIOUS
        <5>3. Holds(cg, r) /\ Top(cg) \in 1 .. Len(r)
          BY <2>2, <2>3, <5>2
        <5> QED BY <5>1, <5>3, HoldsEnsure
      <4>3. RegOf(EnsureReg(cg, Top(cg), {RAX}), Top(cg)) = RAX
        BY <4>2
      <4> QED BY <4>1, <4>3
    <3>2. CASE use = "condition"
      <4>1. out' = EnsureReg(cg, Top(cg), Volatile).regs[RegOf(EnsureReg(cg, Top(cg), Volatile),
                                                    Top(EnsureReg(cg, Top(cg), Volatile)))]
        BY <3>2 DEF EndStep
      <4>2. Top(EnsureReg(cg, Top(cg), Volatile)) = Top(cg)
        BY SameEnsure DEF IInv, Same, Sized, Top
      <4> QED BY <4>1, <4>2
    <3> QED BY <1>1, <1>6, <3>1, <3>2 DEF Uses
  <2>5. D \subseteq Volatile /\ D # {}
    BY <2>4, SlotsAssumption
  <2>6. x # Junk => out' = x
    <3>1. PICK r : r = <<x>>
      OBVIOUS
    <3>2. Holds(cg, r) /\ Top(cg) \in 1 .. Len(r) /\ r[Top(cg)] = x
      BY <2>2, <2>3, <3>1
    <3>3. x # Junk => EnsureReg(cg, Top(cg), D).regs[RegOf(EnsureReg(cg, Top(cg), D), Top(cg))] = x
      BY <2>5, <3>2, HoldsEnsure
    <3> QED BY <2>4, <3>3
  <2> QED BY <1>4, <2>1, <2>6, TracksEnded
<1> QED BY <1>5, <1>6

LEMMA TrackBranch ==
    ASSUME IInv, Labelled, BranchStep, NEW a, NEW d, NEW i, i = Head(todo),
           Tracks(a), Moves(use, i, a, d)
    PROVE  Tracks(d)'
<1> DEFINE b == BranchSavingReg(cg, i.of, Zero, labels + 1)
<1>1. PICK j : /\ j = [label |-> labels + 1, reg |-> BranchReg(cg)]
               /\ i.do = "branch" /\ UNCHANGED <<mem, calls>> /\ cg' = b
               /\ joins' = Append(joins, j)
  BY DEF BranchStep, Now, Arg
<1>2. /\ Len(joins) \in Nat /\ Len(joins') = Len(joins) + 1
      /\ \A k \in 1 .. Len(joins) : joins'[k] = joins[k]
      /\ joins'[Len(joins) + 1] = j
  BY <1>1, ListEnds DEF IInv, Landing
<1>3. PICK n : n = Len(joins)
  OBVIOUS
<1> HIDE DEF b
<1>4. ASSUME a.skip # 0, Skips(use, i, a, d) PROVE Tracks(d)'
  <2>1. PICK k, l \in Nat : /\ l >= 1 /\ Step(use, i, a.height, a.skip, k, l)
                            /\ d = Jumped(k, a.mem, a.calls, l, a.land)
    BY <1>1, <1>4 DEF Skips
  <2>2. k = a.height - 1 /\ l = a.skip + 1 /\ a.height >= 1
    BY <1>1, <2>1 DEF Step, CallKinds
  <2>3. /\ Jumping(a.height, a.mem, a.calls, a.skip, a.land) /\ cg.skip # 0
        /\ Len(joins) + 1 - a.skip \in 1 .. Len(joins)
    BY <1>4, Cases, JumpFacts
  <2>4. Sized(cg, cg', Len(cg.stack) - 1)
    BY <1>1, <2>2, <2>3, SizedBranch DEF b, Jumping, IInv
  <2>5. PICK T : T = Len(joins) + 1 - a.skip
    OBVIOUS
  <2>6. a.skip \in 1 .. n /\ T \in 1 .. n /\ n \in Nat /\ T = n + 1 - a.skip
    BY <1>2, <1>3, <2>3, <2>5 DEF Jumping
  <2>7. Len(joins') + 1 - l = T /\ l \in 1 .. Len(joins')
    BY <1>2, <1>3, <2>2, <2>6
  <2>8. /\ a.mem = mem /\ a.calls = calls /\ a.mem \in Memory /\ a.calls \in Seq(Seq(Val))
        /\ Len(cg.stack) = a.height /\ cg.frame \in Seq(Val) /\ cg.regs \in [Volatile -> Val]
        /\ cg.skip = joins[T].label /\ cg.regs[joins[T].reg] = a.land
        /\ \A q \in 1 .. T : joins[q].reg \in Volatile
    BY <2>3, <2>5 DEF Jumping
  <2>9. joins'[T] = joins[T] /\ \A q \in 1 .. T : joins'[q] = joins[q]
    BY <1>2, <1>3, <2>6
  <2>10. Jumping(k, a.mem, a.calls, l, a.land)'
    BY <1>1, <2>2, <2>3, <2>4, <2>7, <2>8, <2>9 DEF Jumping, Sized
  <2> QED BY <2>1, <2>10, TracksJumped
<1>5. ASSUME NEW s, NEW m, NEW c, Running(s, m, c), Acts(use, i, s, m, c, d) PROVE Tracks(d)'
  <2>1. PICK x \in {Zero, One} :
            s = <<x>> /\ d = IF i.of <=> x = Zero THEN Jumped(0, m, c, 1, x) ELSE At(<<>>, m, c)
    BY <1>1, <1>5 DEF Acts
  <2>2. PICK z : z = labels + 1
    OBVIOUS
  <2>3. PICK f : f = i.of
    OBVIOUS
  <2>4. x \in Val \ {Junk} /\ Holds(cg, <<x>>) /\ z \in Nat /\ z # 0
    BY <1>5, <2>1, <2>2, ThreeIntegers DEF Running, Labelled
  <2>5. b = BranchSavingReg(cg, f, Zero, z)
    BY <2>2, <2>3 DEF b
  <2>6. /\ BranchReg(cg) \in Volatile
        /\ ~(f <=> x = Zero) => Holds(cg', <<>>)
        /\ (f <=> x = Zero) =>
              /\ cg'.skip = z /\ Len(cg'.stack) = 0 /\ cg'.frame \in Seq(Val)
              /\ cg'.regs \in [Volatile -> Val] /\ cg'.regs[BranchReg(cg)] = x
    BY <1>1, <2>4, <2>5, HoldsBranch
  <2>7. /\ mem' = m /\ calls' = c /\ m \in Memory /\ c \in Seq(Seq(Val))
        /\ \A k \in 1 .. Len(joins) : joins[k].reg \in Volatile
    BY <1>1, <1>5 DEF Running
  <2>8. j.label = z /\ j.reg = BranchReg(cg)
    BY <1>1, <2>2
  <2>9. \A k \in 1 .. Len(joins') : joins'[k].reg \in Volatile
    <3>1. \A k \in 1 .. Len(joins') : k \in 1 .. Len(joins) \/ k = Len(joins) + 1
      BY <1>2
    <3> QED BY <1>2, <2>6, <2>7, <2>8, <3>1
  <2>10. CASE ~(f <=> x = Zero)
    <3>1. d = At(<<>>, m, c)
      BY <2>1, <2>3, <2>10
    <3>2. Running(<<>>, m, c)'
      BY <2>6, <2>7, <2>9, <2>10 DEF Running
    <3> QED BY <3>1, <3>2, TracksAt
  <2>11. CASE f <=> x = Zero
    <3>1. d = Jumped(0, m, c, 1, x)
      BY <2>1, <2>3, <2>11
    <3>2. Len(joins') + 1 - 1 = Len(joins) + 1 /\ 1 \in 1 .. Len(joins')
      BY <1>2
    <3>3. Jumping(0, m, c, 1, x)'
      BY <1>2, <2>6, <2>7, <2>8, <2>9, <2>11, <3>2 DEF Jumping
    <3> QED BY <3>1, <3>3, TracksJumped
  <2> QED BY <2>10, <2>11
<1> QED BY <1>4, <1>5, Cases

LEMMA TrackJoin ==
    ASSUME IInv, Labelled, JoinStep, todo # <<>>, NEW a, NEW d, NEW i, i = Head(todo),
           Tracks(a), Moves(use, i, a, d)
    PROVE  Tracks(d)'
<1>j. PICK j : j = Last(joins)
  OBVIOUS
<1>e. PICK e : e = EnsureReg(cg, Top(cg), {j.reg})
  OBVIOUS
<1>v. PICK v : v = IF i.of = "and" THEN Zero ELSE One
  OBVIOUS
<1>1. /\ j = Last(joins) /\ e = EnsureReg(cg, Top(cg), {j.reg})
      /\ v = IF i.of = "and" THEN Zero ELSE One
      /\ i.do = "join" /\ UNCHANGED <<mem, calls>>
      /\ cg' = IF e.skip # j.label THEN e ELSE [e EXCEPT !.skip = 0, !.stack[Top(e)].val = v]
      /\ joins' = Front(joins)
  BY <1>j, <1>e, <1>v DEF JoinStep, Now, Arg
<1>2. Len(cg.stack) >= 1 /\ Len(joins) >= 1
  <2>1. PICK m, q \in Nat : Step(use, Head(todo), Len(cg.stack), Len(joins), m, q)
    BY NextItem
  <2> QED BY <1>1, <2>1 DEF Step, CallKinds
<1>3. /\ Len(joins) \in Nat /\ Len(joins') = Len(joins) - 1
      /\ \A k \in 1 .. Len(joins) - 1 : joins'[k] = joins[k]
  BY <1>1, <1>2, ListEnds DEF IInv, Landing
<1>4. PICK n : n = Len(joins)
  OBVIOUS
<1>5. n \in Nat /\ n >= 1 /\ n \in 1 .. n /\ j = joins[n]
  BY <1>1, <1>2, <1>3, <1>4 DEF Last
<1>6. j.label \in Nat \ {0}
  BY <1>4, <1>5 DEF Labelled
<1>7. Sized(cg, e, Len(cg.stack))
  BY <1>1, SameEnsure DEF IInv, Same
<1>8. ASSUME NEW s, NEW m, NEW c, Running(s, m, c), Acts(use, i, s, m, c, d) PROVE Tracks(d)'
  <2>1. PICK t \in Seq(Val), x \in Val : s = Append(t, x) /\ d = At(s, m, c)
    BY <1>1, <1>8 DEF Acts
  <2>2. Holds(cg, Append(t, x)) /\ j.reg \in Volatile /\ cg.skip = 0
    BY <1>4, <1>5, <1>8, <2>1 DEF Running, Holds, Stands, Runs
  <2>3. Append(t, x) \in Seq(Val) /\ Top(cg) \in 1 .. Len(Append(t, x))
    BY <2>2, TopHeld DEF Holds
  <2>4. {j.reg} \subseteq Volatile /\ {j.reg} # {}
    BY <2>2
  <2>5. Holds(e, s)
    BY <1>1, <2>1, <2>2, <2>3, <2>4, HoldsEnsure
  <2>6. cg' = e
    BY <1>1, <1>6, <1>7, <2>2 DEF Sized
  <2>7. \A k \in 1 .. Len(joins') : k \in 1 .. Len(joins)
    BY <1>3
  <2>8. Running(s, m, c)'
    BY <1>1, <1>3, <1>8, <2>5, <2>6, <2>7 DEF Running
  <2> QED BY <2>1, <2>8, TracksAt
<1>9. ASSUME a.skip # 0, Skips(use, i, a, d) PROVE Tracks(d)'
  <2>1. /\ Jumping(a.height, a.mem, a.calls, a.skip, a.land) /\ cg.skip # 0
    BY <1>9, Cases, JumpFacts
  <2>2. PICK p : p = a.skip
    OBVIOUS
  <2>3. PICK T : T = Len(joins) + 1 - p
    OBVIOUS
  <2>4. /\ a.mem = mem /\ a.calls = calls /\ a.mem \in Memory /\ a.calls \in Seq(Seq(Val))
        /\ Len(cg.stack) = a.height /\ cg.frame \in Seq(Val) /\ cg.regs \in [Volatile -> Val]
        /\ cg.skip = joins[T].label /\ cg.regs[joins[T].reg] = a.land
        /\ p \in 1 .. n
        /\ \A q \in 1 .. T : joins[q].reg \in Volatile
    BY <1>4, <2>1, <2>2, <2>3 DEF Jumping
  <2>5. T \in 1 .. n /\ T = n + 1 - p
    BY <1>4, <1>5, <2>3, <2>4
  <2>6. CASE a.skip = 1 /\ a.height = 1 /\ d = At(<<a.land>>, a.mem, a.calls)
             /\ a.land = IF i.of = "and" THEN Zero ELSE One
    <3>1. T = n /\ e.skip = j.label /\ j.reg \in Volatile /\ cg.regs[j.reg] = v /\ v = a.land
      BY <1>1, <1>5, <1>7, <2>2, <2>4, <2>5, <2>6 DEF Sized
    <3>2. Whole(cg) /\ Len(cg.stack) = 1 /\ v \in Val
      BY <1>1, <2>4, <2>6, ThreeIntegers DEF IInv
    <3>3. cg' = [e EXCEPT !.skip = 0, !.stack[Top(e)].val = v]
      BY <1>1, <3>1
    <3>4. Holds(cg', <<v>>)
      <4>1. PICK g, r : g = cg /\ r = j.reg
        OBVIOUS
      <4>2. /\ Whole(g) /\ Len(g.stack) = 1 /\ g.skip # 0 /\ g.frame \in Seq(Val)
            /\ g.regs \in [Volatile -> Val] /\ r \in Volatile /\ g.regs[r] = v
        BY <2>1, <2>4, <3>1, <3>2, <4>1
      <4>3. e = EnsureReg(g, Top(g), {r})
        BY <1>1, <4>1
      <4>4. Holds([EnsureReg(g, Top(g), {r}) EXCEPT !.skip = 0,
                       !.stack[Top(EnsureReg(g, Top(g), {r}))].val = v], <<v>>)
        BY <3>2, <4>2, HoldsLanding
      <4> QED BY <3>3, <4>3, <4>4
    <3>5. \A k \in 1 .. Len(joins') : k \in 1 .. T /\ k \in 1 .. Len(joins) - 1
      BY <1>3, <1>4, <3>1
    <3>6. PICK m, c : m = a.mem /\ c = a.calls
      OBVIOUS
    <3>7. Running(<<v>>, m, c)'
      BY <1>1, <1>3, <2>4, <3>4, <3>5, <3>6 DEF Running
    <3>8. d = At(<<v>>, m, c)
      BY <2>6, <3>1, <3>6
    <3> QED BY <3>7, <3>8, TracksAt
  <2>7. ASSUME NEW k \in Nat, NEW l \in Nat, l >= 1, Step(use, i, a.height, a.skip, k, l),
               d = Jumped(k, a.mem, a.calls, l, a.land)
        PROVE  Tracks(d)'
    <3>1. k = a.height /\ l = p - 1
      BY <1>1, <2>2, <2>7 DEF Step, CallKinds
    <3>2. T < n /\ T \in 1 .. n - 1
      BY <1>5, <2>4, <2>5, <2>7, <3>1
    <3>3. joins[T].label < j.label /\ joins[T].label \in Nat
      BY <1>4, <1>5, <2>5, <3>2 DEF Labelled
    <3>4. e.skip # j.label
      BY <1>6, <1>7, <2>4, <3>3 DEF Sized
    <3>5. cg' = e
      BY <1>1, <3>4
    <3>6. Len(joins') + 1 - l = T /\ l \in 1 .. Len(joins')
      BY <1>3, <1>4, <1>5, <2>4, <2>5, <2>7, <3>1
    <3>7. joins'[T] = joins[T] /\ \A q \in 1 .. T : joins'[q] = joins[q]
      BY <1>3, <1>4, <3>2
    <3>9. e.frame \in Seq(Val) /\ e.regs = cg.regs /\ e.skip = cg.skip /\ Len(e.stack) = a.height
      BY <1>7, <2>1, <2>4 DEF Sized
    <3>8. Jumping(k, a.mem, a.calls, l, a.land)'
      <4>1. mem' = a.mem /\ calls' = a.calls
        BY <1>1, <2>4
      <4> QED BY <2>4, <3>1, <3>5, <3>6, <3>7, <3>9, <4>1 DEF Jumping
    <3> QED BY <2>7, <3>8, TracksJumped
  <2> QED BY <1>9, <2>6, <2>7 DEF Skips
<1> QED BY <1>8, <1>9, Cases

-----------------------------------------------------------------------------
(* The invariant: what has been done and what is still to be compiled are  *)
(* what the expression means.                                              *)

\* Labels stay in order.
LEMMA LabelledInit == Init => Labelled
<1> SUFFICES ASSUME Init PROVE Labelled
  OBVIOUS
<1>1. labels = 0 /\ joins = <<>>
  BY DEF Init
<1>2. Len(joins) = 0
  BY <1>1
<1> QED BY <1>1, <1>2 DEF Labelled

LEMMA LabelledStep == IInv /\ Labelled /\ [Next]_vars => Labelled'
<1> SUFFICES ASSUME IInv, Labelled, [Next]_vars PROVE Labelled'
  OBVIOUS
<1>1. CASE UNCHANGED <<joins, labels>>
  BY <1>1 DEF Labelled
<1>2. CASE BranchStep
  <2>1. PICK j : j.label = labels + 1 /\ labels' = labels + 1 /\ joins' = Append(joins, j)
    <3>1. PICK j : /\ j = [label |-> labels', reg |-> BranchReg(cg)]
                   /\ labels' = labels + 1 /\ joins' = Append(joins, j)
      BY <1>2 DEF BranchStep
    <3>2. j.label = labels'
      BY <3>1
    <3> QED BY <3>1, <3>2
  <2>2. /\ Len(joins) \in Nat /\ Len(joins') = Len(joins) + 1
        /\ \A k \in 1 .. Len(joins) : joins'[k] = joins[k]
        /\ joins'[Len(joins) + 1] = j
    BY <2>1, ListEnds DEF IInv, Landing
  <2>3. PICK n : n = Len(joins)
    OBVIOUS
  <2>4. /\ labels \in Nat
        /\ \A k \in 1 .. n :
              /\ joins[k].label \in 1 .. labels
              /\ \A l \in 1 .. n : k < l => joins[k].label < joins[l].label
    BY <2>3 DEF Labelled
  <2>5. /\ n \in Nat /\ Len(joins') = n + 1 /\ joins'[n + 1] = j
        /\ \A k \in 1 .. n : joins'[k] = joins[k]
    BY <2>2, <2>3
  <2>6. labels' \in Nat
    BY <2>1, <2>4
  <2>7. ASSUME NEW k \in 1 .. n + 1
        PROVE  /\ joins'[k].label \in 1 .. labels'
               /\ \A l \in 1 .. n + 1 : k < l => joins'[k].label < joins'[l].label
    <3>1. CASE k = n + 1
      BY <2>1, <2>4, <2>5, <3>1
    <3>2. CASE k \in 1 .. n
      <4>1. joins'[k].label = joins[k].label /\ joins[k].label \in 1 .. labels
        BY <2>4, <2>5, <3>2
      <4>2. ASSUME NEW l \in 1 .. n + 1, k < l PROVE joins'[k].label < joins'[l].label
        <5>1. CASE l = n + 1
          BY <2>1, <2>4, <2>5, <4>1, <5>1
        <5>2. CASE l \in 1 .. n
          BY <2>4, <2>5, <3>2, <4>1, <4>2, <5>2
        <5> QED BY <2>5, <5>1, <5>2
      <4>3. joins'[k].label \in 1 .. labels'
        BY <2>1, <2>4, <4>1
      <4> QED BY <4>2, <4>3
    <3> QED BY <2>5, <3>1, <3>2
  <2> QED BY <2>5, <2>6, <2>7 DEF Labelled
<1>3. CASE JoinStep
  <2>0. todo # <<>> /\ joins' = Front(joins) /\ labels' = labels
    BY <1>3 DEF JoinStep, Now
  <2>1. Len(joins) >= 1
    <3>1. PICK m, q \in Nat : Step(use, Head(todo), Len(cg.stack), Len(joins), m, q)
      BY <2>0, NextItem
    <3>2. Head(todo).do = "join"
      BY <1>3 DEF JoinStep, Now
    <3> QED BY <3>1, <3>2 DEF Step, CallKinds
  <2>2. /\ Len(joins) \in Nat /\ Len(joins') = Len(joins) - 1
        /\ \A k \in 1 .. Len(joins) - 1 : joins'[k] = joins[k]
    BY <2>0, <2>1, ListEnds DEF IInv, Landing
  <2>3. \A k \in 1 .. Len(joins') : k \in 1 .. Len(joins) /\ joins'[k] = joins[k]
    BY <2>2
  <2> QED BY <2>0, <2>3 DEF Labelled
<1> QED BY <1>1, <1>2, <1>3
     DEF Next, vars, CompileStep, LoadStep, DerefStep, ConvertStep, BinaryStep, PopStep, ShuffleStep,
         StoreStep, CallStep, EndStep, Quiet

Follows == \E a : Tracks(a) /\ Path(use, todo, a, Goal)

MInv ==
    /\ IInv /\ Labelled /\ expr \in Exprs /\ start \in Memory
    /\ Promised /\ Alone(expr) => Follows

\* The statement starts at the beginning of its path.
LEMMA FollowsInit == Init => MInv
<1> SUFFICES ASSUME Init PROVE MInv
  OBVIOUS
<1>1. expr \in Exprs /\ use \in Uses /\ start \in Memory
  BY ExprCodegenAssumption DEF Init, Memory
<1>2. IInv /\ Labelled
  BY InitIInv, LabelledInit
<1>3. ASSUME Promised, Alone(expr) PROVE Follows
  <2>1. Path(use, todo, At(<<>>, start, <<>>), Goal)
    BY <1>1, <1>3, UsePath DEF Init
  <2>2. Holds(cg, <<>>)
    <3>1. /\ cg = [stack |-> <<>>, frame |-> <<>>, regs |-> [r \in Volatile |-> Junk], skip |-> 0]
          /\ Junk \in Val
      BY SlotsAssumption DEF Init, Start
    <3>2. cg \in State /\ Len(cg.stack) = 0 /\ cg.skip = 0
      BY <3>1 DEF State
    <3>3. Good(cg)
      BY <3>2 DEF Good, Runs, RegistersDistinct, PlacesExist, PlacesHold
    <3> QED BY <3>2, <3>3 DEF Holds, Stands, Runs
  <2>3. Running(<<>>, start, <<>>)
    <3>1. Len(joins) = 0 /\ <<>> \in Seq(Seq(Val)) /\ mem = start /\ calls = <<>>
      BY DEF Init
    <3> QED BY <1>1, <2>2, <3>1 DEF Running
  <2>4. Tracks(At(<<>>, start, <<>>))
    BY <2>3, TracksAt
  <2> QED BY <2>1, <2>4 DEF Follows
<1> QED BY <1>1, <1>2, <1>3 DEF MInv

\* The expression and the statement around it stay what they are.
LEMMA SameExpr ==
    ASSUME [Next]_vars
    PROVE  UNCHANGED <<expr, use, start>> /\ Goal' = Goal /\ Meant' = Meant
           /\ Promised' = Promised /\ Alone(expr)' = Alone(expr)
<1>1. UNCHANGED <<expr, use, start>>
  BY DEF Next, vars, CompileStep, LoadStep, DerefStep, ConvertStep, BinaryStep, PopStep,
         ShuffleStep, StoreStep, CallStep, BranchStep, JoinStep, EndStep, Quiet
<1>2. Meant' = Meant /\ Alone(expr)' = Alone(expr)
  BY <1>1 DEF Meant, Alone
<1> QED BY <1>1, <1>2 DEF Goal, Promised

\* What is compiled next is done as its plan does it.
LEMMA FollowsCompile ==
    ASSUME IInv, Labelled, CompileStep, todo # <<>>, NEW a, NEW d, NEW i, i = Head(todo),
           Tracks(a), Moves(use, i, a, d), NEW g, Path(use, Tail(todo), d, g)
    PROVE  \E b : Tracks(b)' /\ Path(use, todo', b, g)
<1>1. i.do = "compile" /\ todo' = Plan(i.of) \o Tail(todo) /\ UNCHANGED <<cg, joins, mem, calls>>
  BY DEF CompileStep, Now, Arg, Quiet
<1>2. ASSUME a.skip # 0, Skips(use, i, a, d)
      PROVE  \E b : Tracks(b)' /\ Path(use, todo', b, g)
  <2>1. PICK k, l \in Nat : /\ l >= 1 /\ Step(use, i, a.height, a.skip, k, l)
                            /\ d = Jumped(k, a.mem, a.calls, l, a.land)
    BY <1>1, <1>2 DEF Skips
  <2>2. i.of \in Syntax /\ k = a.height + 1 /\ l = a.skip
    BY <1>1, <2>1 DEF Step, CallKinds, Syntax
  <2>3. Jumping(a.height, a.mem, a.calls, a.skip, a.land)
    BY <1>2, Cases, JumpFacts
  <2>4. PICK h, n, m, c, x : h = a.height /\ n = a.skip /\ m = a.mem /\ c = a.calls /\ x = a.land
    OBVIOUS
  <2>5. h \in Nat /\ n \in Nat /\ n >= 1 /\ Jumping(h, m, c, n, x)
    BY <2>1, <2>2, <2>3, <2>4, NextItem DEF Jumping
  <2>6. Jumping(h, m, c, n, x)'
    BY <1>1, <2>5 DEF Jumping
  <2>7. Tracks(Jumped(h, m, c, n, x))'
    BY <2>6, TracksJumped
  <2>8. Path(use, Plan(i.of), Jumped(h, m, c, n, x), Jumped(h + 1, m, c, n, x))
    BY <2>2, <2>5, SkipPath
  <2>9. Path(use, Tail(todo), Jumped(h + 1, m, c, n, x), g)
    BY <2>1, <2>2, <2>4
  <2>10. Path(use, todo', Jumped(h, m, c, n, x), g)
    BY <1>1, <2>8, <2>9, PathFurther
  <2> QED BY <2>7, <2>10
<1>3. ASSUME NEW s, NEW m, NEW c, Running(s, m, c), Acts(use, i, s, m, c, d)
      PROVE  \E b : Tracks(b)' /\ Path(use, todo', b, g)
  <2>1. PICK e : e = i.of
    OBVIOUS
  <2>2. e \in Syntax /\ M[e][m].ok /\ Fits[e][s = <<>>] /\ d = Ends(e, s, m, c)
    BY <1>1, <1>3, <2>1 DEF Acts, Ends, M
  <2>3. s \in Seq(Val) /\ m \in Memory /\ c \in Seq(Seq(Val))
    BY <1>3 DEF Running, Holds, Stands
  <2>4. Kept(use, e, s, m, c)
    BY <2>2, <2>3, PlanPath
  <2>5. Path(use, todo', At(s, m, c), g)
    BY <1>1, <2>1, <2>2, <2>4, PathFurther DEF Kept
  <2>6. Running(s, m, c)'
    BY <1>1, <1>3 DEF Running
  <2> QED BY <2>5, <2>6, TracksAt
<1> QED BY <1>2, <1>3, Cases

\* Every step follows the path.
LEMMA FollowsStep ==
    ASSUME MInv, Next, Promised, Alone(expr) PROVE Follows'
<1>1. IInv /\ Labelled /\ Follows
  BY DEF MInv
<1>2. todo # <<>>
  BY DEF Next, CompileStep, LoadStep, DerefStep, ConvertStep, BinaryStep, PopStep,
         ShuffleStep, StoreStep, CallStep, BranchStep, JoinStep, EndStep, Now
<1>3. PICK g : g = Goal
  OBVIOUS
<1>4. PICK a : Tracks(a) /\ Path(use, todo, a, g)
  BY <1>1, <1>3 DEF Follows
<1>5. PICK d : Moves(use, Head(todo), a, d) /\ Path(use, Tail(todo), d, g)
  BY <1>2, <1>4, PathOnward
<1>6. PICK i : i = Head(todo)
  OBVIOUS
<1>7. Moves(use, i, a, d)
  BY <1>5, <1>6
<1>8. use' = use /\ Goal' = g
  BY <1>3, SameExpr
<1>9. (\E b : Tracks(b)' /\ Path(use, todo', b, g)) => Follows'
  BY <1>8 DEF Follows
<1>10. CASE CompileStep
  BY <1>1, <1>2, <1>4, <1>5, <1>6, <1>7, <1>9, <1>10, FollowsCompile
<1>11. CASE ~CompileStep
  <2>1. Tracks(d)'
    BY <1>1, <1>2, <1>4, <1>6, <1>7, <1>11, TrackLoad, TrackDeref, TrackConvert, TrackBinary,
       TrackPop, TrackShuffle, TrackStore, TrackCall, TrackBranch, TrackJoin, TrackEnd DEF Next
  <2>2. todo' = Tail(todo)
    BY <1>11 DEF Next, LoadStep, DerefStep, ConvertStep, BinaryStep, PopStep,
         ShuffleStep, StoreStep, CallStep, BranchStep, JoinStep, EndStep, Advance
  <2> QED BY <1>5, <1>9, <2>1, <2>2
<1> QED BY <1>10, <1>11

\* The invariant is inductive.
LEMMA MInvStep == MInv /\ [Next]_vars => MInv'
<1> SUFFICES ASSUME MInv, [Next]_vars PROVE MInv'
  OBVIOUS
<1>1. IInv' /\ Labelled' /\ expr' \in Exprs /\ start' \in Memory
  BY StepIInv, LabelledStep, SameExpr DEF MInv
<1>2. ASSUME Promised, Alone(expr) PROVE Follows'
  <2>1. CASE Next
    BY <1>2, <2>1, FollowsStep
  <2>2. CASE UNCHANGED vars
    <3>1. PICK g : g = Goal
      OBVIOUS
    <3>2. PICK a : Tracks(a) /\ Path(use, todo, a, g)
      BY <1>2, <3>1 DEF MInv, Follows
    <3>3. Tracks(a)'
      BY <2>2, <3>2 DEF Tracks, Running, Jumping, vars
    <3>4. Goal' = g /\ use' = use /\ todo' = todo
      BY <2>2, <3>1, SameExpr DEF vars
    <3> QED BY <3>2, <3>3, <3>4 DEF Follows
  <2> QED BY <2>1, <2>2
<1> QED BY <1>1, <1>2, SameExpr DEF MInv

\* A path with nothing more to do has arrived.
LEMMA Arrived ==
    ASSUME MInv, Promised, Alone(expr), Finished PROVE Tracks(Goal)
<1>1. PICK a : Tracks(a) /\ Path(use, <<>>, a, Goal)
  BY DEF MInv, Follows, Finished
<1>2. Len(<<>>) + 1 = 1
  OBVIOUS
<1>3. a = Goal
  BY <1>1, <1>2 DEF Path
<1> QED BY <1>1, <1>3

\* Whatever the expression, and however deep: if its && and || stand where no
\* other value is pending, the code compiled for it leaves the memory that the
\* expression means, has made the calls it means, in their order and with their
\* arguments, and has returned its value or branched on it
\* (tacc_cg_compile_expr).
THEOREM CodeMeans == Spec => [](Alone(expr) => CodeMeansExpr)
<1>1. MInv => (Alone(expr) => CodeMeansExpr)
  <2> SUFFICES ASSUME MInv, Alone(expr), Finished, Promised
               PROVE  /\ mem = Meant.mem
                      /\ calls = Meant.calls
                      /\ use = "return" /\ Meant.val # Junk => out = Meant.val
                      /\ use = "condition" => out = Truth(Meant.val)
    BY DEF CodeMeansExpr, Promised
  <2>1. Tracks(Goal)
    BY Arrived
  <2>2. PICK o : o = CASE use = "statement" -> Junk
                      [] use = "return"    -> Meant.val
                      [] use = "condition" -> Truth(Meant.val)
    OBVIOUS
  <2>3. Goal = Ended(Meant.mem, Meant.calls, o)
    BY <2>2 DEF Goal
  <2>4. mem = Meant.mem /\ calls = Meant.calls /\ (o # Junk => out = o)
    <3>1. /\ Goal.ended = TRUE /\ Goal.mem = Meant.mem /\ Goal.calls = Meant.calls /\ Goal.out = o
      BY <2>3 DEF Ended
    <3> QED BY <2>1, <3>1 DEF Tracks
  <2>5. use = "return" => o = Meant.val
    BY <2>2
  <2>6. use = "condition" => o = Truth(Meant.val) /\ o # Junk
    <3>1. ASSUME use = "condition" PROVE Truth(Meant.val) # Junk
      <4>1. expr \in Syntax /\ start \in Memory
        BY DEF MInv, Syntax
      <4>2. Meant.val \in Val
        BY <4>1, MeaningOutcome DEF Meant, M
      <4> QED BY <3>1, <4>2, TruthVal, ThreeIntegers DEF Promised
    <3> QED BY <2>2, <3>1
  <2> QED BY <2>4, <2>5, <2>6
<1> QED BY <1>1, FollowsInit, MInvStep, PTL DEF Spec
===============================================================================
