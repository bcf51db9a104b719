------------------------------ MODULE SoftU128 ------------------------------
(***************************************************************************)
(* The 128-bit integers that hold significands (soft_u128.c): the tuple of *)
(* limbs <<a, b, c, d>>, most significant first.                           *)
(***************************************************************************)
EXTENDS SoftU64, SequencesExt

Wide == [1 .. 4 -> Limb]
WideWidth == 4 * LimbBits
WideZero == <<0, 0, 0, 0>>
Small(x) == <<0, 0, 0, x>>
IsZeroWide(n) == n = WideZero

ClzWide(n) ==
  LET first == {i \in 1 .. 3 : n[i] # 0}
      i == IF first = {} THEN 4 ELSE CHOOSE j \in first : \A k \in first : j <= k
  IN  (i - 1) * LimbBits + LimbClz(n[i])

(* dst is what the destination held.  The bits that move from one limb to  *)
(* the next are taken from there and not from src, which is the same only  *)
(* when a number is shifted in place.                                      *)
LshWide(dst, src, by) ==
  LET count == by % WideWidth  k == count \div LimbBits  s == count % LimbBits
  IN  [i \in 1 .. 4 |->
         IF i + k > 4 THEN 0
         ELSE IF i + k = 4 THEN Shl(src[4], s)
         ELSE Or(Shl(src[i + k], s), Shr(dst[i + k + 1], LimbBits - s))]

RshWide(dst, src, by) ==
  LET count == by % WideWidth  k == count \div LimbBits  s == count % LimbBits
  IN  [i \in 1 .. 4 |->
         IF i - k < 1 THEN 0
         ELSE IF i - k = 1 THEN Shr(src[1], s)
         ELSE Or(Shr(src[i - k], s), Shl(dst[i - k - 1], LimbBits - s))]

LshHere(n, by) == LshWide(n, n, by)
RshHere(n, by) == RshWide(n, n, by)
OrSmall(n, x) == [n EXCEPT ![4] = Or(n[4], x)]

(* A carry out of limb i that has been added already goes on upwards.      *)
Ripple(sum, i) ==
  LET up[j \in 0 .. 4] ==      \* add one to limb j
        IF j = i THEN [limbs |-> sum, out |-> TRUE]
        ELSE LET s == up[j + 1]
             IN  IF ~s.out THEN s
                 ELSE LET v == (s.limbs[j + 1] + 1) % Base
                      IN  [limbs |-> [s.limbs EXCEPT ![j + 1] = v], out |-> v = 0]
  IN  up[0]

(* The sum and whether it overflowed.                                      *)
AddWide(x, y) ==
  LET add[i \in 1 .. 5] ==     \* limbs 1 .. i - 1 are added
        IF i = 1 THEN [limbs |-> WideZero, out |-> FALSE]
        ELSE LET s == add[i - 1]
                 v == (x[i - 1] + y[i - 1]) % Base
                 put == [s.limbs EXCEPT ![i - 1] = v]
             IN  IF v >= x[i - 1] THEN [s EXCEPT !.limbs = put]
                 ELSE LET r == Ripple(put, i - 2)
                      IN  [limbs |-> r.limbs, out |-> s.out \/ r.out]
  IN  add[5]

Unripple(diff, i) ==
  LET up[j \in 0 .. 4] ==      \* take one from limb j
        IF j = i THEN [limbs |-> diff, out |-> TRUE]
        ELSE LET s == up[j + 1]
             IN  IF ~s.out THEN s
                 ELSE LET v == (s.limbs[j + 1] - 1) % Base
                      IN  [limbs |-> [s.limbs EXCEPT ![j + 1] = v], out |-> v = Base - 1]
  IN  up[0].limbs

SubWide(x, y) ==
  LET sub[i \in 1 .. 5] ==
        IF i = 1 THEN WideZero
        ELSE LET v == (x[i - 1] - y[i - 1]) % Base
                 put == [sub[i - 1] EXCEPT ![i - 1] = v]
             IN  IF v <= x[i - 1] THEN put ELSE Unripple(put, i - 2)
  IN  sub[5]

UgeWide(x, y) ==
  \/ x = y
  \/ \E i \in 1 .. 4 : x[i] > y[i] /\ \A j \in 1 .. i - 1 : x[j] = y[j]

(* Schoolbook multiplication in columns of half a limb.  Half 0 is the     *)
(* least significant.  In the even columns a product is added to one limb, *)
(* in the odd ones its lower half is, and its upper half to the limb above.*)
HalfBits == LimbBits \div 2
Half(n, i) == LET limb == n[4 - (i \div 2)]
              IN  IF i % 2 = 0 THEN limb % 2 ^ HalfBits ELSE Shr(limb, HalfBits)
AtLimb(x, place) == [i \in 1 .. 4 |-> IF i = 4 - place THEN x ELSE 0]
Column(k) == LET first == IF k > 7 THEN k - 7 ELSE 0
             IN  [i \in 1 .. k + 1 - 2 * first |-> <<first + i - 1, k + 1 - first - i>>]
Addends(x, y, k) ==     \* <<limb of the product, addend>>
  LET product(p) == Half(x, p[1]) * Half(y, p[2])
      pairs == Column(k)
      lows == [i \in DOMAIN pairs |-> <<k \div 2, Shl(product(pairs[i]), HalfBits)>>]
      highs == [i \in DOMAIN pairs |-> <<k \div 2 + 1, Shr(product(pairs[i]), HalfBits)>>]
  IN  IF k % 2 = 0 THEN [i \in DOMAIN pairs |-> <<k \div 2, product(pairs[i])>>]
      ELSE lows \o highs

(* The carries out of the lower number are counted while limb 3 is added   *)
(* to, and start the upper number.                                         *)
MulWidening(x, y) ==
  LET columns == [k \in 0 .. 14 |-> Addends(x, y, k)]
      place(acc, a) ==
        IF a[1] <= 3
        THEN LET s == AddWide(acc.low, AtLimb(a[2], a[1]))
             IN  [acc EXCEPT !.low = s.limbs,
                             !.carries = @ + IF a[1] = 3 /\ s.out THEN 1 ELSE 0]
        ELSE [acc EXCEPT !.high = AddWide(acc.high, AtLimb(a[2], a[1] - 4)).limbs]
      sum[k \in 0 .. 15] ==     \* the columns below k are added
        IF k = 0 THEN [low |-> WideZero, high |-> WideZero, carries |-> 0]
        ELSE LET part[i \in 0 .. Len(columns[k - 1])] ==
                   IF i = 0 THEN sum[k - 1] ELSE place(part[i - 1], columns[k - 1][i])
             IN  part[Len(columns[k - 1])]
  IN  [low |-> sum[15].low, high |-> AddWide(sum[15].high, Small(sum[15].carries)).limbs]
=============================================================================
