---- MODULE MCSlotStack ----
EXTENDS SlotStack

CONSTANTS x, fun, junk

MCInts == {0, 1}
MCVal  == {0, 1, x, fun, junk}
\* An operator of two integers that tells them and the operators apart.
MCFn(op, a, b) ==
    IF a \in MCInts /\ b \in MCInts
    THEN CASE op = "sub" -> (a + 2 - b) % 2
           [] op = "shl" -> IF b = 0 THEN a ELSE 0
           [] op = "div" -> IF b = 0 THEN 1 ELSE a
           [] OTHER      -> IF b = 0 THEN a ELSE 0
    ELSE junk
====
