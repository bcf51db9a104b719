---- MODULE ExprMeaning ----
(***************************************************************************)
(* What an expression means: Meaning evaluates it, in the order of         *)
(* evaluation the compiler of ExprCodegen has chosen (left to right), and  *)
(* knows nothing of slots, registers or jumps.  An expression that uses an *)
(* indeterminate value or a wild pointer is undefined.                     *)
(***************************************************************************)
EXTENDS ExprCodegen

CONSTANT Depth(_)  \* of an expression: its operands are less deep

Syntax == Exprs \cup Operands
Memory == [Data -> Val]

Truth(v) == Fn("ne", v, Zero)

\* Expressions are finite; what they name is what their kind calls for; a
\* comparison says yes or no.
ASSUME MeaningAssumption ==
    /\ \A e \in Syntax :
          /\ Depth(e) \in Nat
          /\ \A k \in 1 .. Len(e.ops) : Depth(e.ops[k]) < Depth(e)
          /\ e.kind \in {"const", "addrof"} => e.of \in Val \ {Junk}
          /\ e.kind = "ident" => e.of \in Data
          /\ e.kind = "binary" => e.of \in BinOps
    /\ Junk \notin Data \cup Ints /\ Zero # One
    /\ \A v \in Val \ {Junk} : Truth(v) \in {Zero, One}

\* What an expression does: its value, the memory it leaves, its calls.
Does(v, m, cs) == [ok |-> TRUE, val |-> v, mem |-> m, calls |-> cs]
Undefined(m)   == [ok |-> FALSE, val |-> Junk, mem |-> m, calls |-> <<>>]

\* Operands from left to right, each from the memory the one before it left.
Nothing(m) == [ok |-> TRUE, vals |-> <<>>, mem |-> m, calls |-> <<>>]
Then(o, r) == [ok |-> o.ok /\ r.ok, vals |-> Append(o.vals, r.val),
               mem |-> r.mem, calls |-> o.calls \o r.calls]

InOrder(meaning, ops, m) ==
    LET upto[k \in 0 .. Len(ops)] ==
            IF k = 0 THEN Nothing(m)
            ELSE Then(upto[k - 1], meaning[ops[k]][upto[k - 1].mem])
    IN  upto[Len(ops)]

\* && and ||: the second operand is evaluated unless the first one decides.
Logical(meaning, e, m) ==
    LET lhs == meaning[e.ops[1]][m]
        rhs == meaning[e.ops[2]][lhs.mem]
        decides == IF e.kind = "and" THEN Zero ELSE One
    IN  IF ~lhs.ok \/ lhs.val = Junk THEN Undefined(m)
        ELSE IF Truth(lhs.val) = decides THEN Does(decides, lhs.mem, lhs.calls)
        ELSE IF ~rhs.ok \/ rhs.val = Junk THEN Undefined(m)
        ELSE Does(Truth(rhs.val), rhs.mem, lhs.calls \o rhs.calls)

\* Kinds whose only effects are those of their operands
Operator(e, o) ==
    LET a == o.vals[1]
        b == o.vals[2]
    IN
    CASE e.kind = "deref"  -> o.mem[a]
      [] e.kind = "cast"   -> a
      [] e.kind = "bool"   -> Truth(a)
      [] e.kind = "neg"    -> Fn("sub", Zero, a)
      [] e.kind = "not"    -> Fn("eq", a, Zero)
      [] e.kind = "bnot"   -> Fn("xor", a, Ones)
      [] e.kind = "binary" -> Fn(e.of, a, b)
      [] e.kind = "comma"  -> b
      [] e.kind = "assign" -> b
      [] e.kind = "call"   -> Returns(Tail(o.vals))
      [] e.kind = "voidcall" -> Junk

\* What an operator may be applied to
Defined(e, o) ==
    /\ e.kind \in {"deref", "assign"} => o.vals[1] \in Data
    /\ e.kind \in {"bool", "neg", "not", "bnot", "binary"} => o.vals[1] # Junk
    /\ e.kind \in {"binary", "assign"} => o.vals[2] # Junk
    /\ e.kind \in CallKinds =>
           /\ \A k \in 1 .. Len(o.vals) : o.vals[k] # Junk
           /\ Returns(Tail(o.vals)) \in Val
           /\ Effect(Tail(o.vals), o.mem) \in Memory

Applied(e, o, m) ==
    IF ~o.ok \/ ~Defined(e, o) THEN Undefined(m)
    ELSE Does(Operator(e, o),
              CASE e.kind = "assign" -> \* the first operand is the address
                       [o.mem EXCEPT ![o.vals[1]] = o.vals[2]]
                [] e.kind \in CallKinds -> Effect(Tail(o.vals), o.mem)
                [] OTHER -> o.mem,
              IF e.kind \in CallKinds THEN Append(o.calls, o.vals) ELSE o.calls)

Evaluated(meaning, e, m) ==
    CASE e.kind \in {"const", "addrof"} -> Does(e.of, m, <<>>)
      [] e.kind = "ident" -> Does(m[e.of], m, <<>>)
      [] e.kind \in {"and", "or"} -> Logical(meaning, e, m)
      [] OTHER -> Applied(e, InOrder(meaning, e.ops, m), m)

Meaning[e \in Syntax] == [m \in Memory |-> Evaluated(Meaning, e, m)]

Meant == Meaning[expr][start]

-----------------------------------------------------------------------------
(* Where && and || stand: the compiler keeps its promise for those that are *)
(* compiled when no other value is pending.                                 *)

\* The operands that are compiled with nothing more pending than the whole.
First(e) == CASE e.kind \in {"and", "or", "comma"} -> {1, 2}
              [] e.kind = "neg" -> {}
              [] OTHER -> {1}

Fits[e \in Syntax] ==
    [alone \in BOOLEAN |->
        /\ e.kind \in {"and", "or"} => alone
        /\ \A k \in 1 .. Len(e.ops) : Fits[e.ops[k]][alone /\ k \in First(e)]]

Alone(e) == Fits[e][TRUE]

-----------------------------------------------------------------------------
(* Properties *)

\* The emitted code does what the expression means: it leaves the memory the
\* expression leaves, calls what it calls with the same arguments in the same
\* order, and hands the statement around it the expression's value.  Nothing
\* is promised of an undefined expression, or of a void one in a condition.
CodeMeansExpr ==
    Finished /\ Meant.ok /\ (use = "condition" => Meant.val # Junk) =>
        /\ mem = Meant.mem
        /\ calls = Meant.calls
        /\ use = "return" /\ Meant.val # Junk => out = Meant.val
        /\ use = "condition" => out = Truth(Meant.val)
====
