---------------------------- MODULE MCArithmetic ----------------------------
(* Limbs of four bits: 64-bit numbers have 8 bits here, significands 16,   *)
(* of which 13 are kept.                                                   *)
EXTENDS Arithmetic

MCOperands == {0, 1, 2, 3, 5, 15, 16, 17, 100, 127, 128, 129, 240, 254, 255}
Mant(n) == [i \in 1 .. 4 |-> (n \div 16 ^ (4 - i)) % 16]
MCFloats ==
  {Float(s, 31 + e, Mant(16 * m)) : s \in BOOLEAN, e \in {-1, 3}, m \in {0, 2049, 4095}}
  \cup {Float(FALSE, 31, Mant(16 * 1)), Float(TRUE, 32, Mant(16 * 1365)), Float(FALSE, 35, Mant(16 * 6))}
MCGarbage == {WideZero, <<15, 15, 15, 15>>}
Lit(n, decimal, u, l) ==
  [op |-> "int", number |-> FromNumber(n), decimal |-> decimal, u |-> u, l |-> l]
MCLiterals ==
  {Lit(0, TRUE, FALSE, 0), Lit(3, TRUE, TRUE, 0),
   Lit(16, TRUE, FALSE, 1), Lit(200, FALSE, FALSE, 0),
   [op |-> "char", number |-> FromNumber(5), wide |-> TRUE],
   [op |-> "enumerator", number |-> FromNumber(254)], [op |-> "name"]}
=============================================================================
