---- MODULE MCFrame ----
EXTENDS Frame

MCTargets     == {X86_64, I686, Riscv64, Aarch64}
MCTargetsRisc == {Riscv64, Aarch64}

Ty(class, size, align) == [class |-> class, size |-> size, align |-> align]

\* char, int, double or pointer, long double of two sizes, a struct of three
\* ints and a union of char[3] and short
MCObjects ==
    {Ty("int", 1, 1), Ty("int", 4, 4), Ty("float", 8, 8),
     Ty("other", 16, 16), Ty("other", 10, 16),
     Ty("other", 12, 4), Ty("other", 3, 2)}

\* From no parameter to more than any target has registers for.
Times(n, kind) == [k \in 1 .. n |-> kind]
MCSignatures ==
    {<<>>, <<"char", "double">>, <<"long double", "int", "long double">>,
     Times(9, "int"), Times(9, "double"), Times(5, "long double"),
     Times(6, "char") \o <<"long double", "int", "long double", "int">>}
====
