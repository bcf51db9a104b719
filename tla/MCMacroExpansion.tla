---- MODULE MCMacroExpansion ----
(* Small sets of macros that use each other and themselves. *)
EXTENDS MacroExpansion, MacroReference, TLC

f == Ident("f")
g == Ident("g")
m == Ident("m")
x == Ident("x")
y == Ident("y")
one == Number("1")
two == Number("2")
lp == Mark("(")
rp == Mark(")")
comma == Mark(",")
hash == Mark("#")
glue == Mark("##")
va == Ident("__VA_ARGS__")
defd == Ident("defined")

MCIdentifiers == {"f", "g", "m", "x", "y", "defined", "__VA_ARGS__"}
MCNumbers == {"0", "1", "2"}

Macros(F, G, M) == (<<"f">> :> F) @@ (<<"g">> :> G) @@ (<<"m">> :> M)

OneParam(body)  == Function(<<"x">>, FALSE, body)
TwoParams(body) == Function(<<"x", "y">>, FALSE, body)

MCPrograms == {
    \* calls left open by one replacement list and closed by another
    Macros(OneParam(<<x, m, f>>), OneParam(<<f, lp, x, rp>>), Object(<<g, lp, f>>)),
    Macros(OneParam(<<g, lp, x>>), OneParam(<<x, f, m>>), Object(<<f, lp, one, rp, m>>)),
    \* operands of # and ##
    Macros(TwoParams(<<x, glue, y>>), OneParam(<<hash, x, x>>), Object(<<f, lp, m, comma, two, rp>>)),
    Macros(TwoParams(<<one, glue, y, x>>), OneParam(<<m, x, glue, one>>), Object(<<g, glue, one, g>>)),
    Macros(Function(<<"x">>, TRUE, <<va, g, lp, x, rp>>), Function(<<>>, TRUE, <<hash, va>>),
           Object(<<one, comma, f>>)),
    \* f and g name each other, m itself
    Macros(Object(<<g>>), Object(<<f>>), Object(<<m>>)),
    \* operators without operands
    Macros(OneParam(<<one, glue>>), OneParam(<<hash, one>>), Object(<<glue, hash>>)) }

MCAlphabet == [b \in BOOLEAN |-> IF b THEN {f, m, defd, lp, rp} ELSE {f, g, m, lp, rp, comma}]

\* The output is what C says it is, and the program stops with a diagnostic
\* only where C gives the tokens no meaning.
OutputIsC ==
    LET meaning == Meaning(macros, inIf, file) IN
    ~early =>
        /\ status = "done" =>
            /\ HasMeaning(meaning)
            /\ [k \in 1 .. Len(Inner.out) |-> Plainly(Inner.out[k])] = meaning
        /\ status = "dead" => ~HasMeaning(meaning)

====
