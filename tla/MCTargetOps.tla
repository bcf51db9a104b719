---------------------------- MODULE MCTargetOps ----------------------------
(* Bytes of one bit, ints of four, long longs of eight.                    *)
EXTENDS TargetOps

MCTargets == TargetNames
MCPlaces == [k \in {"bool", "uchar", "sshort", "uint", "sllong"} |->
               CASE k = "bool" -> 0 [] k = "uchar" -> 1 [] k = "sshort" -> 2 [] k = "uint" -> 4 [] k = "sllong" -> 8]
MCContents == [k \in {"bool", "uchar", "sshort", "uint", "sllong"} |->
               CASE k = "bool" -> 1 [] k = "uchar" -> 1 [] k = "sshort" -> - 2 [] k = "uint" -> 12 [] k = "sllong" -> - 96]
MCConstants == {[kind |-> "sint", val |-> 1], [kind |-> "uint", val |-> 7],
                [kind |-> "sllong", val |-> 26], [kind |-> "ullong", val |-> 154]}
Variables == {Variable(k) : k \in DOMAIN MCPlaces}
Operands == {Literal(l.kind, l.val) : l \in MCConstants} \cup Variables
Targeted == {Address(k) : k \in DOMAIN MCPlaces}
MCPending == {<<x>> : x \in Operands} \cup {<<x, y>> : x \in Operands \cup Targeted, y \in Operands}
             \cup {<<x, y, z>> : x \in {Literal("sint", 1), Address("sllong")}, y \in Operands, z \in Variables}
MCCastTypes == {Basic(k) : k \in {"bool", "schar", "ushort", "sint", "uint", "ullong"}} \cup {PtrTo("uint")}
=============================================================================
