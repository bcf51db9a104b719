----------------------------- MODULE Slots_proofs -----------------------------
(***************************************************************************)
(* Lemmas about Slots, for every set of volatile registers, every set of   *)
(* values and any number of pending operands.  A generator state is good   *)
(* when its slots name different registers that hold the values meant;     *)
(* allocation gives out a register that no slot of a good state names, and *)
(* every operation is a chain of allocations and moves.                    *)
(***************************************************************************)
EXTENDS Slots, WellFoundedInduction, TLAPS

Good(c) == c \in State /\ Runs(c) /\ RegistersDistinct(c) /\ PlacesExist(c) /\ PlacesHold(c)

\* The same operands, in the same order.
SameOperands(c, d) ==
    /\ Len(d.stack) = Len(c.stack)
    /\ \A k \in 1 .. Len(c.stack) : d.stack[k].val = c.stack[k].val

\* Slots outside D stay where they are; the others may have been spilled.
Spares(c, d, D) ==
    \A k \in 1 .. Len(c.stack) :
        d.stack[k] = c.stack[k] \/ (UsesReg(c, k, D) /\ d.stack[k].kind = "scratch")

\* No slot names register r.
Free(c, r) == \A j \in 1 .. Len(c.stack) : c.stack[j].kind = "reg" => c.stack[j].at # r

\* Numbers are ordered: what Lowest and Oldest choose exists.
LEMMA Least ==
    ASSUME NEW D \in SUBSET Nat, D # {}
    PROVE  \E r \in D : \A q \in D : r <= q
<1>1. IsWellFoundedOn(OpToRel(<, Nat), Nat)
  BY NatLessThanWellFounded
<1>2. PICK r \in D : \A q \in D : ~(<<q, r>> \in OpToRel(<, Nat))
  BY <1>1, WFMin
<1>3. \A q \in D : ~(q < r)
  BY <1>2 DEF OpToRel
<1> QED BY <1>3

\* Lowest chooses a register of the set.
LEMMA LowestIn ==
    ASSUME NEW D \in SUBSET Nat, D # {}
    PROVE  Lowest(D) \in D
BY Least DEF Lowest

\* Oldest chooses a slot that uses a register of the set.
LEMMA OldestUses ==
    ASSUME NEW c \in State, NEW D, D \subseteq Occupied(c), D # {}
    PROVE  Oldest(c, D) \in 1 .. Len(c.stack) /\ UsesReg(c, Oldest(c, D), D)
<1> DEFINE Users == {k \in 1 .. Len(c.stack) : UsesReg(c, k, D)}
<1>1. Users # {} /\ Users \in SUBSET Nat
  BY DEF State, Occupied, UsesReg
<1>2. PICK k \in Users : \A j \in Users : k <= j
  BY <1>1, Least
<1>3. k \in 1 .. Len(c.stack) /\ UsesReg(c, k, D) /\ \A j \in 1 .. k - 1 : ~UsesReg(c, j, D)
  BY <1>2 DEF State
<1> QED BY <1>3 DEF Oldest

\* Spilling saves the value of a slot and frees its register.
LEMMA SpillGood ==
    ASSUME NEW c, Good(c), NEW k \in 1 .. Len(c.stack)
    PROVE  /\ Good(Spill(c, k))
           /\ SameOperands(c, Spill(c, k))
           /\ Spill(c, k).regs = c.regs
           /\ Spill(c, k).stack[k].kind # "reg"
           /\ \A j \in 1 .. Len(c.stack) : j # k => Spill(c, k).stack[j] = c.stack[j]
           /\ c.stack[k].kind # "reg" => Spill(c, k) = c
           /\ c.stack[k].kind = "reg" => Spill(c, k).stack[k].kind = "scratch"
<1> DEFINE s == c.stack[k]
           d == Spill(c, k)
<1>1. c.stack \in Seq(Slot) /\ c.frame \in Seq(Val) /\ c.regs \in [Volatile -> Val] /\ c.skip = 0
  BY DEF Good, State, Runs
<1>2. CASE s.kind # "reg"
  BY <1>2 DEF Spill, SameOperands
<1>3. CASE s.kind = "reg"
  <2>0. s \in Slot /\ s.at \in Volatile /\ c.regs[s.at] \in Val /\ c.regs[s.at] \in Val
    BY <1>1, <1>3 DEF Good, PlacesExist
  <2>1. d.stack = [c.stack EXCEPT ![k] = InScratch(Len(c.frame) + 1, s.val)]
    BY <1>1, <1>3 DEF Spill, Good, State
  <2>2. d.frame = Append(c.frame, c.regs[s.at]) /\ d.regs = c.regs /\ d.skip = 0
    BY <1>1, <1>3 DEF Spill, Good, State, Runs
  <2>3. d.stack \in Seq(Slot) /\ Len(d.stack) = Len(c.stack) /\ d.frame \in Seq(Val)
    BY <1>1, <2>0, <2>1, <2>2 DEF InScratch, Slot, Kinds
  <2>4. d \in State
    BY <1>1, <1>3, <2>2, <2>3 DEF Spill, State, Good
  <2>5. \A j \in 1 .. Len(c.stack) : d.stack[j] = IF j = k THEN InScratch(Len(c.frame) + 1, s.val)
                                                   ELSE c.stack[j]
    BY <1>1, <2>1
  <2>6. SameOperands(c, d)
    BY <2>3, <2>5 DEF SameOperands, InScratch
  <2>7. RegistersDistinct(d)
    BY <2>3, <2>5 DEF Good, RegistersDistinct, InScratch
  <2>8. PlacesExist(d)
    BY <1>1, <2>2, <2>3, <2>5 DEF Good, PlacesExist, InScratch
  <2>9. PlacesHold(d)
    <3> SUFFICES ASSUME NEW j \in 1 .. Len(c.stack), d.stack[j].val # Junk
                 PROVE  Content(d, d.stack[j]) = d.stack[j].val
      BY <2>3 DEF PlacesHold
    <3>1. CASE j = k
      BY <1>1, <1>3, <2>0, <2>2, <2>5, <3>1 DEF Content, InScratch, Good, PlacesHold
    <3>2. CASE j # k
      <4>1. d.stack[j] = c.stack[j] /\ Content(c, c.stack[j]) = c.stack[j].val
        BY <2>5, <3>2 DEF Good, PlacesHold
      <4>2. c.stack[j].kind = "scratch" => c.stack[j].at \in 1 .. Len(c.frame)
        BY DEF Good, PlacesExist
      <4>3. \A o \in 1 .. Len(c.frame) : d.frame[o] = c.frame[o]
        BY <1>1, <2>0, <2>2
      <4> QED BY <2>2, <4>1, <4>2, <4>3 DEF Content
    <3> QED BY <3>1, <3>2
  <2>10. Good(d)
    BY <2>2, <2>4, <2>7, <2>8, <2>9 DEF Good, Runs
  <2> QED BY <1>3, <2>2, <2>5, <2>6, <2>10 DEF InScratch
<1> QED BY <1>2, <1>3

\* A register of D is given out that no slot names; at most a slot whose
\* register is in D has been spilled for it.
LEMMA AllocGood ==
    ASSUME NEW c, Good(c), NEW D, D \subseteq Volatile, D # {}
    PROVE  LET a == AllocReg(c, D) IN
           /\ a.reg \in D
           /\ Good(a.cg)
           /\ SameOperands(c, a.cg)
           /\ a.cg.regs = c.regs
           /\ Spares(c, a.cg, D)
           /\ Free(a.cg, a.reg)
<1> DEFINE a == AllocReg(c, D)
<1>1. c \in State /\ D \in SUBSET Nat /\ c.stack \in Seq(Slot)
  BY SlotsAssumption DEF Good, State
<1>2. CASE D \subseteq Occupied(c)
  <2> DEFINE k == Oldest(c, D)
  <2>1. k \in 1 .. Len(c.stack) /\ c.stack[k].kind = "reg" /\ c.stack[k].at \in D
    BY <1>1, <1>2, OldestUses DEF UsesReg
  <2>2. a.reg = c.stack[k].at /\ a.cg = Spill(c, k)
    BY <1>2 DEF AllocReg
  <2> HIDE DEF k
  <2>3. /\ Good(a.cg) /\ SameOperands(c, a.cg) /\ a.cg.regs = c.regs
        /\ a.cg.stack[k].kind = "scratch"
        /\ \A j \in 1 .. Len(c.stack) : j # k => a.cg.stack[j] = c.stack[j]
    BY <2>1, <2>2, SpillGood
  <2>4. Spares(c, a.cg, D)
    BY <2>1, <2>3 DEF Spares, UsesReg
  <2>5. Free(a.cg, a.reg)
    BY <2>1, <2>2, <2>3 DEF Free, Good, RegistersDistinct, SameOperands
  <2> QED BY <2>1, <2>2, <2>3, <2>4, <2>5
<1>3. CASE ~(D \subseteq Occupied(c))
  <2>1. a.reg = Lowest(D \ Occupied(c)) /\ a.cg = c
    BY <1>3 DEF AllocReg
  <2>2. a.reg \in D \ Occupied(c)
    BY <1>1, <1>3, <2>1, LowestIn
  <2>3. Free(c, a.reg)
    BY <2>2 DEF Free, Occupied
  <2> QED BY <2>1, <2>2, <2>3 DEF SameOperands, Spares
<1> QED BY <1>2, <1>3

\* What an operation leaves in the registers when it has written register r,
\* which only slot k names.
LEMMA WriteGood ==
    ASSUME NEW c, Good(c), NEW r \in Volatile, NEW v \in Val,
           Free(c, r)
    PROVE  /\ Good(Write(c, r, v))
           /\ Write(c, r, v).stack = c.stack /\ Write(c, r, v).frame = c.frame
           /\ Write(c, r, v).regs = [c.regs EXCEPT ![r] = v]
<1> DEFINE d == Write(c, r, v)
<1>1. c \in State /\ c.skip = 0 /\ Runs(c)
  BY DEF Good, Runs
<1>2. d.stack = c.stack /\ d.frame = c.frame /\ d.regs = [c.regs EXCEPT ![r] = v] /\ d.skip = 0
  BY <1>1 DEF Write, State
<1>3. d \in State
  BY <1>1 DEF Write, State
<1>4. RegistersDistinct(d) /\ PlacesExist(d)
  BY <1>2 DEF Good, RegistersDistinct, PlacesExist
<1>5. PlacesHold(d)
  <2> SUFFICES ASSUME NEW j \in 1 .. Len(c.stack), c.stack[j].val # Junk
               PROVE  Content(d, c.stack[j]) = c.stack[j].val
    BY <1>2 DEF PlacesHold
  <2>1. Content(c, c.stack[j]) = c.stack[j].val
    BY DEF Good, PlacesHold
  <2>2. c.stack[j].kind = "reg" => d.regs[c.stack[j].at] = c.regs[c.stack[j].at]
    BY <1>1, <1>2 DEF Free, Good, PlacesExist, State
  <2> QED BY <1>2, <2>1, <2>2 DEF Content
<1> QED BY <1>2, <1>3, <1>4, <1>5 DEF Good, Runs

\* Slot k moves to register r, into which the code puts v.
Moved(c, k, r, v) == Write([c EXCEPT !.stack[k] = InReg(r, @.val)], r, v)

\* The slot k of a good state may be given a fresh register r that holds its
\* value.
LEMMA MoveGood ==
    ASSUME NEW c, Good(c), NEW k \in 1 .. Len(c.stack), NEW r \in Volatile,
           NEW v \in Val, c.stack[k].val # Junk => v = c.stack[k].val,
           Free(c, r)
    PROVE  LET d == Moved(c, k, r, v) IN
           /\ Good(d)
           /\ SameOperands(c, d)
           /\ d.stack[k].kind = "reg" /\ d.stack[k].at = r
           /\ \A j \in 1 .. Len(c.stack) : j # k => d.stack[j] = c.stack[j]
<1> DEFINE d == Moved(c, k, r, v)
<1>0. c \in State /\ c.skip = 0 /\ Runs(c) /\ c.stack \in Seq(Slot) /\ c.regs \in [Volatile -> Val]
  BY DEF Good, Runs, State
<1>1. c.stack[k] \in Slot /\ c.stack[k].val \in Val /\ r \in Nat
  <2>1. c.stack[k] \in Slot
    BY <1>0
  <2>2. r \in Nat
    BY SlotsAssumption
  <2> QED BY <2>1, <2>2 DEF Slot
<1>2. /\ d.stack = [c.stack EXCEPT ![k] = InReg(r, c.stack[k].val)]
      /\ d.frame = c.frame /\ d.regs = [c.regs EXCEPT ![r] = v] /\ d.skip = 0
  BY <1>0, <1>1 DEF Moved, Write, State, Runs
<1>3. InReg(r, c.stack[k].val) \in Slot
  BY <1>0, <1>1 DEF InReg, Slot, Kinds
<1>4. d.stack \in Seq(Slot) /\ Len(d.stack) = Len(c.stack)
  BY <1>0, <1>1, <1>2, <1>3
<1>5. d \in State
  BY <1>0, <1>1, <1>2, <1>4 DEF Moved, Write, State, Runs
<1> HIDE DEF d
<1>6. \A j \in 1 .. Len(c.stack) : d.stack[j] = IF j = k THEN InReg(r, c.stack[k].val) ELSE c.stack[j]
  BY <1>0, <1>1, <1>2
<1>7. SameOperands(c, d)
  BY <1>4, <1>6 DEF SameOperands, InReg
<1>8. RegistersDistinct(d) /\ PlacesExist(d)
  BY <1>2, <1>4, <1>6 DEF Good, RegistersDistinct, PlacesExist, InReg, Free
<1>9. PlacesHold(d)
  <2> SUFFICES ASSUME NEW j \in 1 .. Len(c.stack), d.stack[j].val # Junk
               PROVE  Content(d, d.stack[j]) = d.stack[j].val
    BY <1>4 DEF PlacesHold
  <2>1. CASE j = k
    BY <1>0, <1>1, <1>2, <1>6, <2>1 DEF Content, InReg
  <2>2. CASE j # k
    <3>1. d.stack[j] = c.stack[j] /\ Content(c, c.stack[j]) = c.stack[j].val
      BY <1>6, <2>2 DEF Good, PlacesHold
    <3>2. c.stack[j].kind = "reg" => d.regs[c.stack[j].at] = c.regs[c.stack[j].at]
      BY <1>0, <1>1, <1>2 DEF Free, Good, PlacesExist
    <3> QED BY <1>2, <3>1, <3>2 DEF Content
  <2> QED BY <2>1, <2>2
<1> QED BY <1>2, <1>5, <1>6, <1>7, <1>8, <1>9 DEF Good, Runs, InReg, d

\* The operand of slot k is brought into a register of D; no slot outside D
\* moves.
LEMMA EnsureGood ==
    ASSUME NEW c, Good(c), NEW k \in 1 .. Len(c.stack),
           NEW D, D \subseteq Volatile, D # {}
    PROVE  LET d == EnsureReg(c, k, D) IN
           /\ Good(d)
           /\ SameOperands(c, d)
           /\ UsesReg(d, k, D)
           /\ \A j \in 1 .. Len(c.stack) :
                 j # k => d.stack[j] = c.stack[j]
                          \/ (UsesReg(c, j, D) /\ d.stack[j].kind = "scratch")
<1> DEFINE a == AllocReg(c, D)
           d == EnsureReg(c, k, D)
<1>1. CASE UsesReg(c, k, D)
  BY <1>1 DEF EnsureReg, SameOperands
<1>2. CASE ~UsesReg(c, k, D)
  <2>1. /\ a.reg \in D /\ Good(a.cg) /\ SameOperands(c, a.cg) /\ a.cg.regs = c.regs
        /\ Spares(c, a.cg, D)
        /\ Free(a.cg, a.reg)
    BY AllocGood
  <2> DEFINE v == Content(c, c.stack[k])
  <2>2. d = Moved(a.cg, k, a.reg, v)
    BY <1>2 DEF EnsureReg, Moved
  <2>3. a.cg.stack[k] = c.stack[k] /\ Len(a.cg.stack) = Len(c.stack)
    BY <1>2, <2>1 DEF Spares, SameOperands
  <2>4. v \in Val /\ (c.stack[k].val # Junk => v = c.stack[k].val)
    BY SlotsAssumption DEF Good, Content, PlacesExist, PlacesHold, State
  <2> HIDE DEF a, v, d
  <2>6. /\ a.reg \in Volatile /\ k \in 1 .. Len(a.cg.stack)
        /\ (a.cg.stack[k].val # Junk => v = a.cg.stack[k].val)
        /\ Free(a.cg, a.reg)
    BY <2>1, <2>3, <2>4
  <2>5. /\ Good(d) /\ SameOperands(a.cg, d)
        /\ d.stack[k].kind = "reg" /\ d.stack[k].at = a.reg
        /\ \A j \in 1 .. Len(c.stack) : j # k => d.stack[j] = a.cg.stack[j]
    <3> DEFINE b == a.cg
               r == a.reg
    <3>1. /\ Good(b) /\ k \in 1 .. Len(b.stack) /\ r \in Volatile /\ v \in Val
          /\ (b.stack[k].val # Junk => v = b.stack[k].val)
          /\ Free(b, r)
      BY <2>1, <2>4, <2>6
    <3>2. d = Moved(b, k, r, v) /\ Len(b.stack) = Len(c.stack)
      BY <2>2, <2>3
    <3> HIDE DEF b, r
    <3>3. /\ Good(d) /\ SameOperands(b, d) /\ d.stack[k].kind = "reg" /\ d.stack[k].at = r
          /\ \A j \in 1 .. Len(b.stack) : j # k => d.stack[j] = b.stack[j]
      BY <3>1, <3>2, MoveGood
    <3> QED BY <3>2, <3>3 DEF b, r
  <2> QED BY <2>1, <2>3, <2>5 DEF SameOperands, UsesReg, Spares, d
<1> QED BY <1>1, <1>2

-----------------------------------------------------------------------------
(* Shuffling *)

\* The parts of a state and the bounds of its slots.
LEMMA Parts ==
    ASSUME NEW c, Good(c)
    PROVE  /\ c \in State /\ c.skip = 0 /\ Runs(c)
           /\ c.stack \in Seq(Slot) /\ c.frame \in Seq(Val) /\ c.regs \in [Volatile -> Val]
           /\ Top(c) \in Nat /\ Top(c) = Len(c.stack)
BY DEF Good, State, Runs, Top

\* The stack of d consists of slots of c, the one at j taken from p[j].
TakenFrom(c, d, p) ==
    /\ d \in State /\ d.skip = 0 /\ d.regs = c.regs /\ d.frame = c.frame
    /\ \A j \in 1 .. Len(d.stack) : p[j] \in 1 .. Len(c.stack)
    /\ \A j \in 1 .. Len(d.stack) : d.stack[j] = c.stack[p[j]]
    /\ \A i, j \in 1 .. Len(d.stack) : i # j => p[i] # p[j]

\* A stack made of other slots of a good state, each used once, is good.
LEMMA RearrangedGood ==
    ASSUME NEW c, Good(c), NEW d, NEW p, TakenFrom(c, d, p)
    PROVE  Good(d)
<1>0. /\ d \in State /\ d.skip = 0 /\ d.regs = c.regs /\ d.frame = c.frame
      /\ \A j \in 1 .. Len(d.stack) : p[j] \in 1 .. Len(c.stack)
      /\ \A j \in 1 .. Len(d.stack) : d.stack[j] = c.stack[p[j]]
      /\ \A i, j \in 1 .. Len(d.stack) : i # j => p[i] # p[j]
  BY DEF TakenFrom
<1>1. RegistersDistinct(d)
  <2> SUFFICES ASSUME NEW i \in 1 .. Len(d.stack), NEW j \in 1 .. Len(d.stack), i # j,
                      d.stack[i].kind = "reg", d.stack[j].kind = "reg"
               PROVE  d.stack[i].at # d.stack[j].at
    BY DEF RegistersDistinct
  <2>1. p[i] \in 1 .. Len(c.stack) /\ p[j] \in 1 .. Len(c.stack) /\ p[i] # p[j]
    BY <1>0
  <2>2. d.stack[i] = c.stack[p[i]] /\ d.stack[j] = c.stack[p[j]]
    BY <1>0
  <2>3. RegistersDistinct(c)
    BY DEF Good
  <2> QED BY <2>1, <2>2, <2>3 DEF RegistersDistinct
<1>2. PlacesExist(d)
  <2> SUFFICES ASSUME NEW j \in 1 .. Len(d.stack)
               PROVE  /\ d.stack[j].kind = "reg" => d.stack[j].at \in Volatile
                      /\ d.stack[j].kind = "scratch" => d.stack[j].at \in 1 .. Len(d.frame)
    BY DEF PlacesExist
  <2>1. p[j] \in 1 .. Len(c.stack) /\ d.stack[j] = c.stack[p[j]]
    BY <1>0
  <2> QED BY <1>0, <2>1 DEF Good, PlacesExist
<1>3. PlacesHold(d)
  <2> SUFFICES ASSUME NEW j \in 1 .. Len(d.stack), d.stack[j].val # Junk
               PROVE  Content(d, d.stack[j]) = d.stack[j].val
    BY DEF PlacesHold
  <2>1. p[j] \in 1 .. Len(c.stack) /\ d.stack[j] = c.stack[p[j]]
    BY <1>0
  <2>2. PlacesHold(c) /\ Runs(c)
    BY DEF Good
  <2>3. Content(c, c.stack[p[j]]) = c.stack[p[j]].val
    BY <2>1, <2>2 DEF PlacesHold
  <2> QED BY <1>0, <2>1, <2>3 DEF Content
<1> QED BY <1>0, <1>1, <1>2, <1>3 DEF Good, Runs

\* A slot may be pushed whose place holds its value and whose register no
\* other slot names.
LEMMA PushGood ==
    ASSUME NEW c, Good(c), NEW s \in Slot,
           s.kind = "reg" => s.at \in Volatile /\ Free(c, s.at),
           s.kind = "scratch" => s.at \in 1 .. Len(c.frame),
           s.val # Junk => Content(c, s) = s.val
    PROVE  /\ Good(Push(c, s))
           /\ Push(c, s).stack = Append(c.stack, s)
           /\ Push(c, s).regs = c.regs /\ Push(c, s).frame = c.frame
<1> DEFINE d == Push(c, s)
           n == Len(c.stack)
<1>1. /\ c \in State /\ c.skip = 0 /\ Runs(c)
      /\ c.stack \in Seq(Slot) /\ c.frame \in Seq(Val) /\ c.regs \in [Volatile -> Val]
  BY Parts
<1>2. /\ d.stack = Append(c.stack, s) /\ d.frame = c.frame /\ d.regs = c.regs /\ d.skip = 0
  BY <1>1 DEF Push, State
<1>3. Append(c.stack, s) \in Seq(Slot) /\ n \in Nat
  BY <1>1
<1>4. d = [c EXCEPT !.stack = Append(c.stack, s)]
  BY <1>1 DEF Push
<1>5. d \in State
  BY <1>1, <1>3, <1>4 DEF State
<1> HIDE DEF d
<1>6. /\ Len(d.stack) = n + 1 /\ d.stack[n + 1] = s
      /\ \A j \in 1 .. n : d.stack[j] = c.stack[j]
  BY <1>1, <1>2
<1> HIDE DEF n
<1>7. RegistersDistinct(d)
  <2> SUFFICES ASSUME NEW i \in 1 .. n + 1, NEW j \in 1 .. n + 1, i # j,
                      d.stack[i].kind = "reg", d.stack[j].kind = "reg"
               PROVE  d.stack[i].at # d.stack[j].at
    BY <1>6 DEF RegistersDistinct
  <2>1. CASE i \in 1 .. n /\ j \in 1 .. n
    BY <1>6, <2>1 DEF Good, RegistersDistinct, n
  <2>2. CASE i = n + 1 /\ j \in 1 .. n
    BY <1>6, <2>2 DEF Free, n
  <2>3. CASE j = n + 1 /\ i \in 1 .. n
    BY <1>6, <2>3 DEF Free, n
  <2> QED BY <1>3, <2>1, <2>2, <2>3
<1>8. PlacesExist(d)
  BY <1>2, <1>3, <1>6 DEF Good, PlacesExist, n
<1>9. PlacesHold(d)
  BY <1>1, <1>2, <1>3, <1>6 DEF Good, PlacesHold, Content, n
<1>10. Good(d)
  BY <1>2, <1>5, <1>7, <1>8, <1>9 DEF Good, Runs
<1> QED BY <1>2, <1>10 DEF d

\* The newest slot goes; the others stay as they are.
LEMMA PopGood ==
    ASSUME NEW c, Good(c), Len(c.stack) > 0
    PROVE  LET d == Pop(c) IN
           /\ Good(d)
           /\ Len(d.stack) = Len(c.stack) - 1
           /\ \A j \in 1 .. Len(c.stack) - 1 : d.stack[j] = c.stack[j]
           /\ d.regs = c.regs /\ d.frame = c.frame
<1> DEFINE d == Pop(c)
           p == [j \in 1 .. Len(d.stack) |-> j]
<1>1. /\ c \in State /\ c.skip = 0 /\ Runs(c)
      /\ c.stack \in Seq(Slot) /\ c.frame \in Seq(Val) /\ c.regs \in [Volatile -> Val]
      /\ Len(c.stack) \in Nat /\ Len(c.stack) > 0
  BY Parts
<1>2. /\ d.stack = SubSeq(c.stack, 1, Len(c.stack) - 1)
      /\ d.frame = c.frame /\ d.regs = c.regs /\ d.skip = 0
  BY <1>1 DEF Pop, State
<1>3. /\ d.stack \in Seq(Slot) /\ Len(d.stack) = Len(c.stack) - 1
      /\ \A j \in 1 .. Len(c.stack) - 1 : d.stack[j] = c.stack[j]
  BY <1>1, <1>2
<1>4. d \in State
  BY <1>1, <1>2, <1>3 DEF Pop, State
<1> HIDE DEF d
<1>5. TakenFrom(c, d, p)
  <2>1. \A j \in 1 .. Len(d.stack) : p[j] \in 1 .. Len(c.stack)
    BY <1>1, <1>3
  <2>2. \A j \in 1 .. Len(d.stack) : d.stack[j] = c.stack[p[j]]
    BY <1>1, <1>3
  <2>3. \A i, j \in 1 .. Len(d.stack) : i # j => p[i] # p[j]
    BY <1>1, <1>3
  <2> QED BY <1>2, <1>4, <2>1, <2>2, <2>3 DEF TakenFrom
<1>6. Good(d)
  BY <1>5, RearrangedGood
<1> QED BY <1>2, <1>3, <1>6 DEF d

\* The two newest slots trade places.
LEMMA SwapGood ==
    ASSUME NEW c, Good(c), Top(c) > 1
    PROVE  Good(Swap(c))
<1> DEFINE d == Swap(c)
           n == Len(c.stack)
           p == [j \in 1 .. n |-> IF j = n THEN n - 1 ELSE IF j = n - 1 THEN n ELSE j]
<1>1. /\ c \in State /\ c.skip = 0 /\ Runs(c)
      /\ c.stack \in Seq(Slot) /\ c.frame \in Seq(Val) /\ c.regs \in [Volatile -> Val]
      /\ n \in Nat /\ n > 1 /\ Top(c) = n /\ Over(c) = n - 1
  BY Parts DEF Over, Top
<1>2. /\ d.stack = [[c.stack EXCEPT ![n] = c.stack[n - 1]] EXCEPT ![n - 1] = c.stack[n]]
      /\ d.frame = c.frame /\ d.regs = c.regs /\ d.skip = 0
  BY <1>1 DEF Swap, State
<1>3. c.stack[n] \in Slot /\ c.stack[n - 1] \in Slot
  BY <1>1
<1>4. /\ d.stack \in Seq(Slot) /\ Len(d.stack) = n
      /\ \A j \in 1 .. n : d.stack[j] = IF j = n THEN c.stack[n - 1]
                                        ELSE IF j = n - 1 THEN c.stack[n] ELSE c.stack[j]
  BY <1>1, <1>2, <1>3
<1>5. d \in State
  BY <1>1, <1>2, <1>4 DEF Swap, State
<1> HIDE DEF d
<1>6. TakenFrom(c, d, p)
  <2>1. \A j \in 1 .. Len(d.stack) : p[j] \in 1 .. Len(c.stack)
    BY <1>1, <1>4
  <2>2. \A j \in 1 .. Len(d.stack) : d.stack[j] = c.stack[p[j]]
    BY <1>1, <1>4
  <2>3. \A i, j \in 1 .. Len(d.stack) : i # j => p[i] # p[j]
    BY <1>1, <1>4
  <2> QED BY <1>2, <1>5, <2>1, <2>2, <2>3 DEF TakenFrom
<1>7. Good(d)
  BY <1>6, RearrangedGood
<1> QED BY <1>7 DEF d

\* The three newest slots rotate.
LEMMA RotGood ==
    ASSUME NEW c, Good(c), Top(c) > 2
    PROVE  Good(Rot(c))
<1> DEFINE d == Rot(c)
           n == Len(c.stack)
           p == [j \in 1 .. n |-> IF j = n THEN n - 2 ELSE IF j = n - 1 THEN n
                                  ELSE IF j = n - 2 THEN n - 1 ELSE j]
<1>1. /\ c \in State /\ c.skip = 0 /\ Runs(c)
      /\ c.stack \in Seq(Slot) /\ c.frame \in Seq(Val) /\ c.regs \in [Volatile -> Val]
      /\ n \in Nat /\ n > 2 /\ Top(c) = n /\ Over(c) = n - 1
  BY Parts DEF Over, Top
<1>2. /\ d.stack = [[[c.stack EXCEPT ![n - 2] = c.stack[n - 1]] EXCEPT ![n - 1] = c.stack[n]]
                     EXCEPT ![n] = c.stack[n - 2]]
      /\ d.frame = c.frame /\ d.regs = c.regs /\ d.skip = 0
  BY <1>1 DEF Rot, State
<1>3. c.stack[n] \in Slot /\ c.stack[n - 1] \in Slot /\ c.stack[n - 2] \in Slot
  BY <1>1
<1>4. /\ d.stack \in Seq(Slot) /\ Len(d.stack) = n
      /\ \A j \in 1 .. n : d.stack[j] = IF j = n THEN c.stack[n - 2]
                                        ELSE IF j = n - 1 THEN c.stack[n]
                                        ELSE IF j = n - 2 THEN c.stack[n - 1] ELSE c.stack[j]
  <2> DEFINE s == [c.stack EXCEPT ![n - 2] = c.stack[n - 1]]
             t == [s EXCEPT ![n - 1] = c.stack[n]]
  <2>1. /\ s \in Seq(Slot) /\ Len(s) = n
        /\ \A j \in 1 .. n : s[j] = IF j = n - 2 THEN c.stack[n - 1] ELSE c.stack[j]
    BY <1>1, <1>3
  <2> HIDE DEF s
  <2>2. /\ t \in Seq(Slot) /\ Len(t) = n
        /\ \A j \in 1 .. n : t[j] = IF j = n - 1 THEN c.stack[n] ELSE s[j]
    BY <1>1, <1>3, <2>1
  <2> HIDE DEF t
  <2>3. d.stack = [t EXCEPT ![n] = c.stack[n - 2]]
    BY <1>2 DEF s, t
  <2> HIDE DEF d
  <2>4. /\ d.stack \in Seq(Slot) /\ Len(d.stack) = n
        /\ \A j \in 1 .. n : d.stack[j] = IF j = n THEN c.stack[n - 2] ELSE t[j]
    BY <1>1, <1>3, <2>2, <2>3
  <2> QED BY <1>1, <2>1, <2>2, <2>4
<1>5. d \in State
  BY <1>1, <1>2, <1>4 DEF Rot, State
<1> HIDE DEF d
<1>6. TakenFrom(c, d, p)
  <2>1. \A j \in 1 .. Len(d.stack) : p[j] \in 1 .. Len(c.stack)
    BY <1>1, <1>4
  <2>2. \A j \in 1 .. Len(d.stack) : d.stack[j] = c.stack[p[j]]
    BY <1>1, <1>4
  <2>3. \A i, j \in 1 .. Len(d.stack) : i # j => p[i] # p[j]
    BY <1>1, <1>4
  <2> QED BY <1>2, <1>5, <2>1, <2>2, <2>3 DEF TakenFrom
<1>7. Good(d)
  BY <1>6, RearrangedGood
<1> QED BY <1>7 DEF d

\* A good state stays good when only registers change that no slot names.
LEMMA AgreesGood ==
    ASSUME NEW c, Good(c), NEW d \in State, d.skip = 0,
           d.stack = c.stack, d.frame = c.frame,
           \A j \in 1 .. Len(c.stack) :
               c.stack[j].kind = "reg" => d.regs[c.stack[j].at] = c.regs[c.stack[j].at]
    PROVE  Good(d)
<1>1. RegistersDistinct(d) /\ PlacesExist(d)
  BY DEF Good, RegistersDistinct, PlacesExist
<1>2. PlacesHold(d)
  <2> SUFFICES ASSUME NEW j \in 1 .. Len(c.stack), c.stack[j].val # Junk
               PROVE  Content(d, c.stack[j]) = c.stack[j].val
    BY DEF PlacesHold
  <2>1. Content(c, c.stack[j]) = c.stack[j].val
    BY DEF Good, PlacesHold
  <2> QED BY <2>1 DEF Content
<1> QED BY <1>1, <1>2 DEF Good, Runs

\* A scratch position that no slot names may be added.
LEMMA FrameGood ==
    ASSUME NEW c, Good(c), NEW v \in Val
    PROVE  LET d == [c EXCEPT !.frame = Append(@, v)] IN
           Good(d) /\ d.stack = c.stack /\ d.regs = c.regs /\ d.skip = 0
<1> DEFINE d == [c EXCEPT !.frame = Append(@, v)]
<1>1. /\ c \in State /\ c.skip = 0 /\ Runs(c)
      /\ c.stack \in Seq(Slot) /\ c.frame \in Seq(Val) /\ c.regs \in [Volatile -> Val]
  BY Parts
<1>2. /\ d.stack = c.stack /\ d.frame = Append(c.frame, v) /\ d.regs = c.regs /\ d.skip = 0
  BY <1>1 DEF State
<1>3. Append(c.frame, v) \in Seq(Val)
  BY <1>1
<1>4. d \in State
  BY <1>1, <1>3 DEF State
<1> HIDE DEF d
<1>5. /\ Len(d.frame) = Len(c.frame) + 1 /\ Len(c.frame) \in Nat
      /\ \A o \in 1 .. Len(c.frame) : d.frame[o] = c.frame[o]
  BY <1>1, <1>2
<1>6. RegistersDistinct(d)
  BY <1>2 DEF Good, RegistersDistinct
<1>7. PlacesExist(d)
  BY <1>2, <1>5 DEF Good, PlacesExist
<1>8. PlacesHold(d)
  <2> SUFFICES ASSUME NEW j \in 1 .. Len(c.stack), c.stack[j].val # Junk
               PROVE  Content(d, c.stack[j]) = c.stack[j].val
    BY <1>2 DEF PlacesHold
  <2>1. Content(c, c.stack[j]) = c.stack[j].val
    BY DEF Good, PlacesHold
  <2>2. c.stack[j].kind = "scratch" => c.stack[j].at \in 1 .. Len(c.frame)
    BY DEF Good, PlacesExist
  <2> QED BY <1>2, <1>5, <2>1, <2>2 DEF Content
<1>9. Good(d)
  BY <1>2, <1>4, <1>6, <1>7, <1>8 DEF Good, Runs
<1> QED BY <1>2, <1>9 DEF d

\* A register r that no slot names is loaded with v, and a slot is pushed
\* that names it and has the value w.
LEMMA FillGood ==
    ASSUME NEW c, Good(c), NEW r \in Volatile, Free(c, r), NEW v \in Val, NEW w \in Val,
           w # Junk => v = w
    PROVE  Good(Push(Write(c, r, v), InReg(r, w)))
<1> DEFINE d == Write(c, r, v)
           s == InReg(r, w)
<1>1. Good(d) /\ d.stack = c.stack /\ d.regs = [c.regs EXCEPT ![r] = v]
  BY WriteGood
<1>2. c.regs \in [Volatile -> Val] /\ r \in Nat
  BY SlotsAssumption, Parts
<1>3. d.regs[r] = v
  BY <1>1, <1>2
<1>4. Free(d, r)
  BY <1>1 DEF Free
<1>5. s \in Slot /\ s.kind = "reg" /\ s.at = r /\ s.val = w
  BY <1>2 DEF InReg, Slot, Kinds
<1>6. Content(d, s) = v
  BY <1>3, <1>5 DEF Content
<1> HIDE DEF d, s
<1>7. Good(Push(d, s))
  BY <1>1, <1>4, <1>5, <1>6, PushGood
<1> QED BY <1>7 DEF d, s

\* A constant is loaded into an allocated register and pushed.
LEMMA LoadGood ==
    ASSUME NEW c, Good(c), NEW v \in Val
    PROVE  Good(Load(c, v))
<1> DEFINE a == AllocReg(c, Volatile)
<1>1. a.reg \in Volatile /\ Good(a.cg) /\ Free(a.cg, a.reg)
  BY AllocGood, SlotsAssumption
<1>2. Load(c, v) = Push(Write(a.cg, a.reg, v), InReg(a.reg, v))
  BY DEF Load
<1> HIDE DEF a
<1> QED BY <1>1, <1>2, FillGood

\* A void value has no place.
LEMMA PushVoidGood ==
    ASSUME NEW c, Good(c)
    PROVE  Good(Push(c, Void))
<1>1. Void \in Slot /\ Void.kind = "none" /\ Void.val = Junk
  BY SlotsAssumption DEF Void, Slot, Kinds
<1> QED BY <1>1, PushGood

\* What a slot's place contains is a value.
LEMMA ContentIsVal ==
    ASSUME NEW c, Good(c), NEW k \in 1 .. Len(c.stack)
    PROVE  /\ Content(c, c.stack[k]) \in Val
           /\ c.stack[k].val # Junk => Content(c, c.stack[k]) = c.stack[k].val
           /\ c.stack[k] \in Slot
BY SlotsAssumption DEF Good, Content, PlacesExist, PlacesHold, State

\* The top may be duplicated, wherever it is.
LEMMA DupGood ==
    ASSUME NEW c, Good(c), Top(c) > 0
    PROVE  Good(Dup(c))
<1> DEFINE n == Top(c)
           s == c.stack[n]
<1>1. c \in State /\ Runs(c) /\ n \in 1 .. Len(c.stack) /\ c.stack \in Seq(Slot)
  BY Parts
<1>2. /\ Content(c, s) \in Val /\ s \in Slot
      /\ s.val # Junk => Content(c, s) = s.val
  BY <1>1, ContentIsVal
<1>3. s.val \in Val /\ s.kind \in Kinds
  BY <1>2 DEF Slot
<1> HIDE DEF n, s
<1>4. CASE s.kind = "none"
  <2>1. Dup(c) = Push(c, Void)
    BY <1>4 DEF Dup, n, s
  <2> QED BY <2>1, PushVoidGood
<1>5. CASE s.kind = "reg"
  <2> DEFINE r == s.at
             a == AllocReg(c, Volatile \ {r})
  <2>1. r \in Volatile /\ UsesReg(c, n, Volatile)
    BY <1>1, <1>5 DEF s, Good, PlacesExist, UsesReg
  <2>2. EnsureReg(c, n, Volatile) = c
    BY <2>1 DEF EnsureReg
  <2>3. Dup(c) = Push(Write(a.cg, a.reg, c.regs[r]), InReg(a.reg, s.val))
    BY <1>5, <2>2 DEF Dup, n, s, RegOf
  <2>4. Volatile \ {r} \subseteq Volatile /\ Volatile \ {r} # {}
    BY SlotsAssumption
  <2>5. a.reg \in Volatile /\ Good(a.cg) /\ Free(a.cg, a.reg)
    <3> DEFINE D == Volatile \ {r}
    <3> HIDE DEF D
    <3>1. D \subseteq Volatile /\ D # {}
      BY <2>4 DEF D
    <3>2. AllocReg(c, D).reg \in D /\ Good(AllocReg(c, D).cg) /\ Free(AllocReg(c, D).cg, AllocReg(c, D).reg)
      BY <3>1, AllocGood
    <3> QED BY <3>1, <3>2 DEF D
  <2>6. c.regs[r] = Content(c, s)
    BY <1>5 DEF Content
  <2> HIDE DEF a, r
  <2> QED BY <1>2, <1>3, <2>3, <2>5, <2>6, FillGood
<1>6. CASE s.kind = "scratch"
  <2> DEFINE v == Content(c, s)
             f == [c EXCEPT !.frame = Append(@, v)]
             m == AllocReg(f, Volatile)
             w == Write(m.cg, m.reg, v)
             p == InScratch(s.at, s.val)
  <2>1. Dup(c) = Push(w, p)
    BY <1>1, <1>6 DEF Dup, n, s
  <2>2. p = s
    BY <1>2, <1>6 DEF InScratch, Slot
  <2>3. v \in Val
    BY <1>2
  <2> HIDE DEF v, p
  <2>4. Good(f) /\ f.stack = c.stack
    BY <2>3, FrameGood
  <2> HIDE DEF f
  <2>5. m.reg \in Volatile /\ Good(m.cg) /\ Free(m.cg, m.reg) /\ Spares(f, m.cg, Volatile)
        /\ SameOperands(f, m.cg)
    BY <2>4, SlotsAssumption, AllocGood
  <2> HIDE DEF m
  <2>6. Good(w) /\ w.stack = m.cg.stack
    BY <2>3, <2>5, WriteGood
  <2> HIDE DEF w
  <2>7. n \in 1 .. Len(w.stack) /\ w.stack[n] = s
    BY <1>1, <1>6, <2>4, <2>5, <2>6 DEF Spares, SameOperands, UsesReg, s
  <2>8. s.at \in 1 .. Len(w.frame)
    BY <1>6, <2>6, <2>7 DEF Good, PlacesExist
  <2>9. s.val # Junk => Content(w, s) = s.val
    BY <2>6, <2>7 DEF Good, PlacesHold
  <2>10. Good(Push(w, s))
    BY <1>2, <1>6, <2>6, <2>8, <2>9, PushGood
  <2> QED BY <2>1, <2>2, <2>10
<1> QED BY <1>3, <1>4, <1>5, <1>6 DEF Kinds

-----------------------------------------------------------------------------
(* Operators *)

\* The two newest slots go.
LEMMA PopTwoGood ==
    ASSUME NEW c, Good(c), Len(c.stack) > 1
    PROVE  LET d == Pop(Pop(c)) IN
           /\ Good(d)
           /\ Len(d.stack) = Len(c.stack) - 2
           /\ \A j \in 1 .. Len(c.stack) - 2 : d.stack[j] = c.stack[j]
           /\ d.regs = c.regs /\ d.frame = c.frame
<1> DEFINE b == Pop(c)
           d == Pop(b)
<1>1. Len(c.stack) \in Nat
  BY Parts
<1>2. /\ Good(b) /\ Len(b.stack) = Len(c.stack) - 1
      /\ \A j \in 1 .. Len(c.stack) - 1 : b.stack[j] = c.stack[j]
      /\ b.regs = c.regs /\ b.frame = c.frame
  BY <1>1, PopGood
<1> HIDE DEF b
<1>3. Len(b.stack) > 0
  BY <1>1, <1>2
<1>4. /\ Good(d) /\ Len(d.stack) = Len(b.stack) - 1
      /\ \A j \in 1 .. Len(b.stack) - 1 : d.stack[j] = b.stack[j]
      /\ d.regs = b.regs /\ d.frame = b.frame
  BY <1>2, <1>3, PopGood
<1> HIDE DEF d
<1>5. /\ Good(d) /\ Len(d.stack) = Len(c.stack) - 2
      /\ \A j \in 1 .. Len(c.stack) - 2 : d.stack[j] = c.stack[j]
      /\ d.regs = c.regs /\ d.frame = c.frame
  BY <1>1, <1>2, <1>4
<1> QED BY <1>5 DEF d, b

\* w is c after the instructions of an operator: register out, which no slot
\* below the operands names, has the result, and those slots' registers are
\* as they were.
Computed(c, w, out, v) ==
    /\ w \in State /\ w.skip = 0 /\ w.stack = c.stack /\ w.frame = c.frame
    /\ \A j \in 1 .. Len(c.stack) - 2 :
          c.stack[j].kind = "reg" =>
              c.stack[j].at # out /\ w.regs[c.stack[j].at] = c.regs[c.stack[j].at]
    /\ out \in Volatile /\ v \in Val
    /\ v # Junk => w.regs[out] = v

\* The operands are replaced by the result.
LEMMA ResultGood ==
    ASSUME NEW c, Good(c), Len(c.stack) > 1, NEW w, NEW out, NEW v,
           Computed(c, w, out, v)
    PROVE  Good(Push(Pop(Pop(w)), InReg(out, v)))
<1> DEFINE b == Pop(Pop(c))
           e == Pop(Pop(w))
           s == InReg(out, v)
<1>1. /\ Good(b) /\ Len(b.stack) = Len(c.stack) - 2
      /\ \A j \in 1 .. Len(c.stack) - 2 : b.stack[j] = c.stack[j]
      /\ b.regs = c.regs /\ b.frame = c.frame
  BY PopTwoGood
<1>2. w \in State /\ w.skip = 0 /\ w.stack = c.stack /\ w.frame = c.frame
  BY DEF Computed
<1>3. c \in State /\ c.skip = 0 /\ c.stack \in Seq(Slot) /\ Len(c.stack) \in Nat
  BY Parts
<1>4. e.stack = b.stack
  BY <1>2, <1>3 DEF Pop, State
<1>5. e.skip = 0 /\ e.frame = w.frame /\ e.regs = w.regs
  BY <1>2 DEF Pop, State
<1>6. e = [w EXCEPT !.stack = b.stack]
  BY <1>2, <1>3, <1>4 DEF Pop, State
<1>7. b.stack \in Seq(Slot)
  BY <1>1 DEF Good, State
<1> HIDE DEF b, e
<1>8. e \in State
  BY <1>2, <1>6, <1>7 DEF State
<1>9. \A j \in 1 .. Len(b.stack) :
          b.stack[j].kind = "reg" =>
              b.stack[j].at # out /\ e.regs[b.stack[j].at] = b.regs[b.stack[j].at]
  BY <1>1, <1>5 DEF Computed
<1>10. Good(e)
  BY <1>1, <1>2, <1>4, <1>5, <1>8, <1>9, AgreesGood
<1>11. Free(e, out)
  BY <1>4, <1>9 DEF Free
<1>12. s \in Slot /\ s.kind = "reg" /\ s.at = out /\ s.val = v
  BY SlotsAssumption DEF InReg, Slot, Kinds, Computed
<1>13. s.val # Junk => Content(e, s) = s.val
  BY <1>5, <1>12 DEF Content, Computed
<1> HIDE DEF s
<1>14. Good(Push(e, s))
  BY <1>10, <1>11, <1>12, <1>13, PushGood DEF Computed
<1> QED BY <1>14 DEF e, s

\* Both operands of c are in registers of d: the left one in l, the right one
\* in r.
InRegisters(c, d, l, r) ==
    /\ Good(d) /\ SameOperands(c, d) /\ Len(c.stack) > 1
    /\ d.stack[Over(d)].kind = "reg" /\ d.stack[Over(d)].at = l
    /\ d.stack[Top(d)].kind = "reg" /\ d.stack[Top(d)].at = r
    /\ l # r /\ l \in Volatile /\ r \in Volatile
    /\ c.stack[Over(c)].val # Junk => d.regs[l] = c.stack[Over(c)].val
    /\ c.stack[Top(c)].val # Junk => d.regs[r] = c.stack[Top(c)].val

\* A register of D, then one of E: the second allocation leaves the first
\* slot alone, since its register is not in E.
LEMMA EnsureTwo ==
    ASSUME NEW c, Good(c), NEW j \in 1 .. Len(c.stack), NEW k \in 1 .. Len(c.stack), j # k,
           NEW D, D \subseteq Volatile, D # {},
           NEW E, E \subseteq Volatile, E # {},
           RegOf(EnsureReg(c, j, D), j) \notin E
    PROVE  LET c1 == EnsureReg(c, j, D)
               c2 == EnsureReg(c1, k, E)
           IN  /\ Good(c2) /\ SameOperands(c, c2)
               /\ c2.stack[j].kind = "reg" /\ c2.stack[j].at = RegOf(c1, j) /\ RegOf(c1, j) \in D
               /\ c2.stack[k].kind = "reg" /\ c2.stack[k].at \in E
               /\ c.stack[j].val # Junk => c2.regs[c2.stack[j].at] = c.stack[j].val
               /\ c.stack[k].val # Junk => c2.regs[c2.stack[k].at] = c.stack[k].val
<1> DEFINE c1 == EnsureReg(c, j, D)
           c2 == EnsureReg(c1, k, E)
<1>1. Good(c1) /\ SameOperands(c, c1) /\ UsesReg(c1, j, D)
  BY EnsureGood
<1>2. RegOf(c1, j) \notin E
  OBVIOUS
<1> HIDE DEF c1
<1>3. k \in 1 .. Len(c1.stack) /\ j \in 1 .. Len(c1.stack)
  BY <1>1 DEF SameOperands
<1>4. /\ Good(c2) /\ SameOperands(c1, c2) /\ UsesReg(c2, k, E)
      /\ \A i \in 1 .. Len(c1.stack) :
            i # k => c2.stack[i] = c1.stack[i]
                     \/ (UsesReg(c1, i, E) /\ c2.stack[i].kind = "scratch")
  BY <1>1, <1>3, EnsureGood
<1> HIDE DEF c2
<1>5. c2.stack[j] = c1.stack[j]
  BY <1>2, <1>3, <1>4 DEF UsesReg, RegOf
<1>6. SameOperands(c, c2)
  BY <1>1, <1>4 DEF SameOperands
<1>7. /\ c2.stack[j].kind = "reg" /\ c2.stack[j].at = RegOf(c1, j) /\ RegOf(c1, j) \in D
      /\ c2.stack[k].kind = "reg" /\ c2.stack[k].at \in E
  BY <1>1, <1>4, <1>5 DEF UsesReg, RegOf
<1>8. \A i \in {j, k} : c.stack[i].val # Junk => c2.regs[c2.stack[i].at] = c.stack[i].val
  <2> SUFFICES ASSUME NEW i \in 1 .. Len(c.stack), i = j \/ i = k, c.stack[i].val # Junk
               PROVE  c2.regs[c2.stack[i].at] = c.stack[i].val
    OBVIOUS
  <2>1. i \in 1 .. Len(c2.stack) /\ c2.stack[i].val = c.stack[i].val /\ c2.stack[i].kind = "reg"
    BY <1>6, <1>7 DEF SameOperands
  <2> QED BY <1>4, <2>1, ContentIsVal DEF Content
<1> QED BY <1>4, <1>6, <1>7, <1>8 DEF c1, c2

\* The common end of the operators that leave their result in a register of
\* an operand, or in one that no slot names.
LEMMA OneWrite ==
    ASSUME NEW c, Good(c), Len(c.stack) > 1, NEW out \in Volatile, NEW x \in Val, NEW v \in Val,
           v # Junk => x = v,
           \A j \in 1 .. Len(c.stack) - 2 : c.stack[j].kind = "reg" => c.stack[j].at # out
    PROVE  Computed(c, Write(c, out, x), out, v)
<1> DEFINE w == Write(c, out, x)
<1>1. c \in State /\ c.skip = 0 /\ Runs(c) /\ c.regs \in [Volatile -> Val]
  BY Parts
<1>2. /\ w.stack = c.stack /\ w.frame = c.frame /\ w.skip = 0
      /\ w.regs = [c.regs EXCEPT ![out] = x]
  BY <1>1 DEF Write, State
<1>3. w \in State
  BY <1>1 DEF Write, State
<1> HIDE DEF w
<1>4. w.regs[out] = x /\ \A q \in Volatile : q # out => w.regs[q] = c.regs[q]
  BY <1>1, <1>2
<1>5. \A j \in 1 .. Len(c.stack) - 2 : j \in 1 .. Len(c.stack)
  BY Parts
<1>6. \A j \in 1 .. Len(c.stack) - 2 :
          c.stack[j].kind = "reg" =>
              c.stack[j].at # out /\ w.regs[c.stack[j].at] = c.regs[c.stack[j].at]
  BY <1>4, <1>5 DEF Good, PlacesExist
<1>7. Computed(c, w, out, v)
  BY <1>2, <1>3, <1>4, <1>6 DEF Computed
<1> QED BY <1>7 DEF w

\* Slots below an operand name other registers than the operand.
LEMMA BelowDistinct ==
    ASSUME NEW c, Good(c), Len(c.stack) > 1, NEW k \in {Over(c), Top(c)},
           c.stack[k].kind = "reg"
    PROVE  \A j \in 1 .. Len(c.stack) - 2 : c.stack[j].kind = "reg" => c.stack[j].at # c.stack[k].at
<1>1. Len(c.stack) \in Nat /\ Top(c) = Len(c.stack) /\ Over(c) = Len(c.stack) - 1
  BY Parts DEF Over
<1>2. SUFFICES ASSUME NEW j \in 1 .. Len(c.stack) - 2, c.stack[j].kind = "reg"
               PROVE  c.stack[j].at # c.stack[k].at
  OBVIOUS
<1>3. j \in 1 .. Len(c.stack) /\ k \in 1 .. Len(c.stack) /\ j # k
  BY <1>1
<1> QED BY <1>2, <1>3 DEF Good, RegistersDistinct

\* What Result does when both operands are in registers.
LEMMA OperatorGood ==
    ASSUME NEW c, NEW d, NEW l, NEW r, InRegisters(c, d, l, r), NEW op \in BinOps,
           c.stack[Over(c)].val # Junk, c.stack[Top(c)].val # Junk
    PROVE  Good(Result(d, l, r, l, op))
<1> DEFINE v == Fn(op, d.stack[Over(d)].val, d.stack[Top(d)].val)
           x == Fn(op, d.regs[l], d.regs[r])
<1>1. Result(d, l, r, l, op) = Push(Pop(Pop(Write(d, l, x))), InReg(l, v))
  BY DEF Result
<1>2. Good(d) /\ SameOperands(c, d) /\ Len(c.stack) > 1 /\ l \in Volatile /\ r \in Volatile
  BY DEF InRegisters
<1>3. Len(d.stack) \in Nat /\ Top(d) = Len(d.stack) /\ Over(d) = Len(d.stack) - 1
  BY <1>2, Parts DEF Over
<1>4. Len(d.stack) = Len(c.stack) /\ Top(c) = Top(d) /\ Over(c) = Over(d)
  BY <1>2 DEF SameOperands, Top, Over
<1>5. d.stack[Over(d)].val = c.stack[Over(c)].val /\ d.stack[Top(d)].val = c.stack[Top(c)].val
  BY <1>2, <1>3, <1>4 DEF SameOperands
<1>6. v = x
  BY <1>5 DEF InRegisters
<1>7. d.regs[l] \in Val /\ d.regs[r] \in Val
  BY <1>2, Parts
<1>8. x \in Val
  BY <1>7, SlotsAssumption
<1> HIDE DEF x, v
<1>9. \A j \in 1 .. Len(d.stack) - 2 : d.stack[j].kind = "reg" => d.stack[j].at # l
  BY <1>2, <1>4, BelowDistinct DEF InRegisters
<1>10. Computed(d, Write(d, l, x), l, v)
  BY <1>2, <1>4, <1>6, <1>8, <1>9, OneWrite
<1> QED BY <1>1, <1>2, <1>4, <1>10, ResultGood

\* The left operand's register receives the result.
LEMMA BinopGood ==
    ASSUME NEW c, Good(c), Len(c.stack) > 1, NEW op \in BinOps,
           c.stack[Over(c)].val # Junk, c.stack[Top(c)].val # Junk
    PROVE  Good(Binop(c, op))
<1> DEFINE c1 == EnsureReg(c, Over(c), Volatile)
           l  == RegOf(c1, Over(c1))
           D  == Volatile \ {l}
           c2 == EnsureReg(c1, Top(c1), D)
           r  == RegOf(c2, Top(c2))
<1>1. Len(c.stack) \in Nat /\ Top(c) = Len(c.stack) /\ Over(c) = Len(c.stack) - 1
  BY Parts DEF Over
<1>2. Over(c) \in 1 .. Len(c.stack) /\ Top(c) \in 1 .. Len(c.stack) /\ Over(c) # Top(c)
  BY <1>1
<1>3. D \subseteq Volatile /\ D # {} /\ l \notin D /\ Volatile \subseteq Volatile /\ Volatile # {}
  BY SlotsAssumption
<1>4. Good(c1) /\ SameOperands(c, c1)
  BY <1>2, <1>3, EnsureGood
<1>5. Top(c1) = Top(c) /\ Over(c1) = Over(c) /\ RegOf(c1, Over(c)) = l
  BY <1>4 DEF SameOperands, Top, Over
<1> HIDE DEF D
<1>6. /\ Good(c2) /\ SameOperands(c, c2)
      /\ c2.stack[Over(c)].kind = "reg" /\ c2.stack[Over(c)].at = l /\ l \in Volatile
      /\ c2.stack[Top(c)].kind = "reg" /\ c2.stack[Top(c)].at \in D
      /\ c.stack[Over(c)].val # Junk => c2.regs[c2.stack[Over(c)].at] = c.stack[Over(c)].val
      /\ c.stack[Top(c)].val # Junk => c2.regs[c2.stack[Top(c)].at] = c.stack[Top(c)].val
  <2> HIDE DEF l
  <2>1. RegOf(EnsureReg(c, Over(c), Volatile), Over(c)) \notin D
    BY <1>3, <1>5
  <2>2. c2 = EnsureReg(EnsureReg(c, Over(c), Volatile), Top(c), D)
    BY <1>5
  <2> QED BY <1>2, <1>3, <1>5, <2>1, <2>2, EnsureTwo, SMTT(30)
<1>7. Binop(c, op) = Result(c2, l, r, l, op)
  BY DEF Binop, D
<1> HIDE DEF c1, c2, l
<1>8. Top(c2) = Top(c) /\ Over(c2) = Over(c)
  BY <1>6 DEF SameOperands, Top, Over
<1>9. InRegisters(c, c2, l, r)
  BY <1>3, <1>6, <1>8 DEF InRegisters, RegOf
<1> QED BY <1>7, <1>9, OperatorGood

\* The count goes to %cl first, then the left operand elsewhere.
LEMMA ShiftGood ==
    ASSUME NEW c, Good(c), Len(c.stack) > 1, NEW op \in BinOps,
           c.stack[Over(c)].val # Junk, c.stack[Top(c)].val # Junk
    PROVE  Good(Shift(c, op))
<1> DEFINE C  == {RCX}
           D  == Volatile \ {RCX}
           c1 == EnsureReg(c, Top(c), C)
           c2 == EnsureReg(c1, Over(c1), D)
           l  == RegOf(c2, Over(c2))
<1>1. Len(c.stack) \in Nat /\ Top(c) = Len(c.stack) /\ Over(c) = Len(c.stack) - 1
  BY Parts DEF Over
<1>2. Over(c) \in 1 .. Len(c.stack) /\ Top(c) \in 1 .. Len(c.stack) /\ Over(c) # Top(c)
  BY <1>1
<1>3. /\ D \subseteq Volatile /\ D # {} /\ RCX \notin D
      /\ C \subseteq Volatile /\ C # {} /\ \A q \in C : q = RCX
  BY SlotsAssumption
<1>4. Shift(c, op) = Result(c2, l, RCX, l, op)
  BY DEF Shift
<1> HIDE DEF C, D
<1>5. Good(c1) /\ SameOperands(c, c1) /\ UsesReg(c1, Top(c), C)
  BY <1>2, <1>3, EnsureGood
<1>6. Top(c1) = Top(c) /\ Over(c1) = Over(c)
  BY <1>5 DEF SameOperands, Top, Over
<1>7. RegOf(c1, Top(c)) = RCX
  BY <1>3, <1>5 DEF UsesReg, RegOf
<1>8. /\ Good(c2) /\ SameOperands(c, c2)
      /\ c2.stack[Top(c)].kind = "reg" /\ c2.stack[Top(c)].at = RCX
      /\ c2.stack[Over(c)].kind = "reg" /\ c2.stack[Over(c)].at \in D
      /\ c.stack[Top(c)].val # Junk => c2.regs[c2.stack[Top(c)].at] = c.stack[Top(c)].val
      /\ c.stack[Over(c)].val # Junk => c2.regs[c2.stack[Over(c)].at] = c.stack[Over(c)].val
  BY <1>2, <1>3, <1>6, <1>7, EnsureTwo
<1> HIDE DEF c1, c2
<1>9. Top(c2) = Top(c) /\ Over(c2) = Over(c)
  BY <1>8 DEF SameOperands, Top, Over
<1>10. RCX \in Volatile
  BY SlotsAssumption
<1>11. InRegisters(c, c2, l, RCX)
  BY <1>3, <1>8, <1>9, <1>10 DEF InRegisters, RegOf
<1> HIDE DEF l
<1> QED BY <1>4, <1>11, OperatorGood

\* The division overwrites %rax, where the dividend was, and %rdx, which has
\* been vacated.
LEMMA DivideGood ==
    ASSUME NEW c, Good(c), Len(c.stack) > 1, NEW op \in {"div", "rem"},
           c.stack[Over(c)].val # Junk, c.stack[Top(c)].val # Junk
    PROVE  Good(Divide(c, op))
<1> DEFINE A  == {RAX}
           B  == {RDX}
           D  == Volatile \ {RAX, RDX}
           c1 == EnsureReg(c, Over(c), A)
           c2 == EnsureReg(c1, Top(c1), D)
           a  == AllocReg(c2, B)
           c3 == a.cg
           r  == RegOf(c3, Top(c3))
           quot == Fn("div", c3.regs[RAX], c3.regs[r])
           rem  == Fn("rem", c3.regs[RAX], c3.regs[r])
           v    == Fn(op, c3.stack[Over(c3)].val, c3.stack[Top(c3)].val)
           out  == IF op = "div" THEN RAX ELSE RDX
           w1   == Write(c3, RAX, quot)
           w2   == Write(w1, RDX, rem)
<1>1. Len(c.stack) \in Nat /\ Top(c) = Len(c.stack) /\ Over(c) = Len(c.stack) - 1
  BY Parts DEF Over
<1>2. Over(c) \in 1 .. Len(c.stack) /\ Top(c) \in 1 .. Len(c.stack) /\ Over(c) # Top(c)
  BY <1>1
<1>3. /\ D \subseteq Volatile /\ D # {} /\ RAX \notin D /\ RDX \notin D
      /\ A \subseteq Volatile /\ A # {} /\ \A q \in A : q = RAX
      /\ B \subseteq Volatile /\ B # {} /\ \A q \in B : q = RDX
      /\ RAX \notin B /\ RAX \in Volatile /\ RDX \in Volatile /\ RAX # RDX
  BY SlotsAssumption
<1>4. Divide(c, op) = Push(Pop(Pop(w2)), InReg(out, v))
  BY DEF Divide
<1> HIDE DEF A, B, D
<1>5. Good(c1) /\ SameOperands(c, c1) /\ UsesReg(c1, Over(c), A)
  BY <1>2, <1>3, EnsureGood
<1>6. Top(c1) = Top(c) /\ Over(c1) = Over(c)
  BY <1>5 DEF SameOperands, Top, Over
<1>7. RegOf(c1, Over(c)) = RAX
  BY <1>3, <1>5 DEF UsesReg, RegOf
<1>8. /\ Good(c2) /\ SameOperands(c, c2)
      /\ c2.stack[Over(c)].kind = "reg" /\ c2.stack[Over(c)].at = RAX
      /\ c2.stack[Top(c)].kind = "reg" /\ c2.stack[Top(c)].at \in D
  BY <1>2, <1>3, <1>6, <1>7, EnsureTwo
<1> HIDE DEF c1, c2
<1>9. /\ a.reg \in B /\ Good(c3) /\ SameOperands(c2, c3) /\ Spares(c2, c3, B) /\ Free(c3, a.reg)
  BY <1>3, <1>8, AllocGood
<1> HIDE DEF a
<1>10. SameOperands(c, c3) /\ Top(c3) = Top(c) /\ Over(c3) = Over(c) /\ a.reg = RDX
  BY <1>3, <1>8, <1>9 DEF SameOperands, Top, Over
<1>11. c3.stack[Over(c)] = c2.stack[Over(c)] /\ c3.stack[Top(c)] = c2.stack[Top(c)]
  BY <1>2, <1>3, <1>8, <1>9 DEF Spares, UsesReg, SameOperands
<1>12. /\ c3.stack[Over(c)].kind = "reg" /\ c3.stack[Over(c)].at = RAX
       /\ c3.stack[Top(c)].kind = "reg" /\ c3.stack[Top(c)].at = r /\ r \in D
  BY <1>8, <1>10, <1>11 DEF RegOf
<1>13. /\ c3.stack[Over(c)].val = c.stack[Over(c)].val /\ c3.stack[Top(c)].val = c.stack[Top(c)].val
       /\ Over(c) \in 1 .. Len(c3.stack) /\ Top(c) \in 1 .. Len(c3.stack)
       /\ Len(c3.stack) = Len(c.stack)
  BY <1>2, <1>10 DEF SameOperands
<1>14. /\ c3.regs[RAX] = c3.stack[Over(c)].val
       /\ c3.regs[r] = c3.stack[Top(c)].val
  BY <1>9, <1>12, <1>13, ContentIsVal DEF Content
<1>15. /\ c3 \in State /\ c3.skip = 0 /\ Runs(c3) /\ c3.regs \in [Volatile -> Val]
  BY <1>9, Parts
<1> HIDE DEF c3, r
<1>16. r \in Volatile /\ c3.regs[RAX] \in Val /\ c3.regs[r] \in Val
  BY <1>3, <1>12, <1>15
<1>17. quot \in Val /\ rem \in Val /\ "div" \in BinOps /\ "rem" \in BinOps
  BY <1>16, SlotsAssumption DEF BinOps
<1>18. v = IF op = "div" THEN quot ELSE rem
  BY <1>10, <1>14
<1> HIDE DEF quot, rem, v
<1>19. /\ w1 \in State /\ w1.skip = 0 /\ w1.stack = c3.stack /\ w1.frame = c3.frame
       /\ w1.regs = [c3.regs EXCEPT ![RAX] = quot]
  BY <1>3, <1>15, <1>17 DEF Write, State, Runs
<1> HIDE DEF w1
<1>20. /\ w2 \in State /\ w2.skip = 0 /\ w2.stack = w1.stack /\ w2.frame = w1.frame
       /\ w2.regs = [w1.regs EXCEPT ![RDX] = rem]
  BY <1>3, <1>17, <1>19 DEF Write, State, Runs
<1> HIDE DEF w2
<1>21. /\ w2.regs[RAX] = quot /\ w2.regs[RDX] = rem
       /\ \A q \in Volatile : q # RAX /\ q # RDX => w2.regs[q] = c3.regs[q]
  BY <1>3, <1>15, <1>19, <1>20
<1>22. \A j \in 1 .. Len(c3.stack) - 2 :
           c3.stack[j].kind = "reg" => c3.stack[j].at # RAX /\ c3.stack[j].at # RDX
                                       /\ c3.stack[j].at \in Volatile
  <2>1. \A j \in 1 .. Len(c3.stack) - 2 : j \in 1 .. Len(c3.stack)
    BY <1>1, <1>13
  <2>2. \A j \in 1 .. Len(c3.stack) - 2 : c3.stack[j].kind = "reg" => c3.stack[j].at # RAX
    BY <1>9, <1>10, <1>12, <1>13, BelowDistinct
  <2>3. \A j \in 1 .. Len(c3.stack) - 2 : c3.stack[j].kind = "reg" => c3.stack[j].at # RDX
    BY <1>9, <1>10, <2>1 DEF Free
  <2> QED BY <1>9, <2>1, <2>2, <2>3 DEF Good, PlacesExist
<1>23. out \in Volatile /\ v \in Val /\ w2.regs[out] = v /\ out \in {RAX, RDX}
  BY <1>3, <1>17, <1>18, <1>21
<1> HIDE DEF out
<1>24. Computed(c3, w2, out, v)
  BY <1>19, <1>20, <1>21, <1>22, <1>23 DEF Computed
<1> QED BY <1>4, <1>9, <1>13, <1>24, ResultGood

-----------------------------------------------------------------------------
(* Memory and calls *)

\* The register that slot k of a good state names receives v, and the slot
\* has that value.
LEMMA RefillGood ==
    ASSUME NEW c, Good(c), NEW k \in 1 .. Len(c.stack), c.stack[k].kind = "reg",
           NEW v \in Val
    PROVE  Good([Write(c, c.stack[k].at, v) EXCEPT !.stack[k].val = v])
<1> DEFINE s == c.stack[k]
           d == [Write(c, s.at, v) EXCEPT !.stack[k].val = v]
<1>1. /\ c \in State /\ c.skip = 0 /\ Runs(c) /\ c.stack \in Seq(Slot) /\ c.regs \in [Volatile -> Val]
  BY Parts
<1>2. s \in Slot /\ s.at \in Volatile /\ s.kind = "reg"
  BY <1>1 DEF Good, PlacesExist
<1>3. InReg(s.at, v) = [s EXCEPT !.val = v] /\ InReg(s.at, v) \in Slot
  BY <1>2 DEF InReg, Slot
<1>4. /\ d.stack = [c.stack EXCEPT ![k] = InReg(s.at, v)]
      /\ d.frame = c.frame /\ d.regs = [c.regs EXCEPT ![s.at] = v] /\ d.skip = 0
  BY <1>1, <1>3 DEF Write, State
<1> DEFINE st == [c.stack EXCEPT ![k] = InReg(s.at, v)]
           rg == [c.regs EXCEPT ![s.at] = v]
<1>5. st \in Seq(Slot) /\ Len(st) = Len(c.stack)
      /\ \A j \in 1 .. Len(c.stack) : st[j] = IF j = k THEN InReg(s.at, v) ELSE c.stack[j]
  BY <1>1, <1>3
<1>6. rg \in [Volatile -> Val] /\ rg[s.at] = v /\ \A q \in Volatile : q # s.at => rg[q] = c.regs[q]
  BY <1>1, <1>2
<1>7. d = [[c EXCEPT !.regs = rg] EXCEPT !.stack = st]
  BY <1>1, <1>3, <1>4 DEF Write, State
<1> HIDE DEF st, rg
<1>8. d \in State /\ d.stack = st /\ d.regs = rg /\ d.frame = c.frame /\ d.skip = 0
  BY <1>1, <1>5, <1>6, <1>7 DEF State
<1> HIDE DEF d, s
<1>9. InReg(s.at, v).kind = "reg" /\ InReg(s.at, v).at = s.at /\ InReg(s.at, v).val = v
  BY DEF InReg
<1>10. \A j \in 1 .. Len(c.stack) : j # k /\ c.stack[j].kind = "reg" => c.stack[j].at # s.at
  BY <1>2 DEF Good, RegistersDistinct, s
<1>11. RegistersDistinct(d)
  <2> SUFFICES ASSUME NEW i \in 1 .. Len(c.stack), NEW j \in 1 .. Len(c.stack), i # j,
                      d.stack[i].kind = "reg", d.stack[j].kind = "reg"
               PROVE  d.stack[i].at # d.stack[j].at
    BY <1>5, <1>8 DEF RegistersDistinct
  <2>1. CASE i = k
    BY <1>5, <1>8, <1>9, <1>10, <2>1
  <2>2. CASE j = k
    BY <1>5, <1>8, <1>9, <1>10, <2>2
  <2>3. CASE i # k /\ j # k
    BY <1>5, <1>8, <2>3 DEF Good, RegistersDistinct
  <2> QED BY <2>1, <2>2, <2>3
<1>12. PlacesExist(d)
  BY <1>2, <1>5, <1>8, <1>9 DEF Good, PlacesExist
<1>13. PlacesHold(d)
  <2> SUFFICES ASSUME NEW j \in 1 .. Len(c.stack), d.stack[j].val # Junk
               PROVE  Content(d, d.stack[j]) = d.stack[j].val
    BY <1>5, <1>8 DEF PlacesHold
  <2>1. CASE j = k
    BY <1>5, <1>6, <1>8, <1>9, <2>1 DEF Content
  <2>2. CASE j # k
    <3>1. d.stack[j] = c.stack[j] /\ Content(c, c.stack[j]) = c.stack[j].val
      BY <1>5, <1>8, <2>2, ContentIsVal
    <3>2. c.stack[j].kind = "reg" => c.stack[j].at \in Volatile /\ c.stack[j].at # s.at
      BY <1>10, <2>2 DEF Good, PlacesExist
    <3> QED BY <1>6, <1>8, <3>1, <3>2 DEF Content
  <2> QED BY <2>1, <2>2
<1>14. Good(d)
  BY <1>8, <1>11, <1>12, <1>13 DEF Good, Runs
<1> QED BY <1>14 DEF d, s

\* A load through a pointer that names a variable yields its value.
LEMMA DerefGood ==
    ASSUME NEW c, Good(c), Top(c) > 0, NEW A, NEW m \in [A -> Val],
           c.stack[Top(c)].val \in A, c.stack[Top(c)].val # Junk
    PROVE  Good(Deref(c, m, m))
<1> DEFINE n == Top(c)
           t == EnsureReg(c, n, Volatile)
           r == RegOf(t, Top(t))
           p == t.stack[Top(t)].val
           loaded == IF t.regs[r] \in DOMAIN m THEN m[t.regs[r]] ELSE Junk
           meaning == IF Runs(t) /\ p \in DOMAIN m THEN m[p] ELSE Junk
<1>1. n \in 1 .. Len(c.stack) /\ Volatile \subseteq Volatile /\ Volatile # {} /\ Runs(c)
  BY Parts, SlotsAssumption
<1>2. Good(t) /\ SameOperands(c, t) /\ UsesReg(t, n, Volatile)
  BY <1>1, EnsureGood
<1>3. Deref(c, m, m) = [Write(t, r, loaded) EXCEPT !.stack[Top(t)].val =
                           IF Runs(c) /\ p \in DOMAIN m THEN m[p] ELSE Junk]
  BY DEF Deref
<1> HIDE DEF t
<1>4. Top(t) = n /\ n \in 1 .. Len(t.stack) /\ t.stack[n].val = c.stack[n].val /\ t.stack[n].kind = "reg"
      /\ r = t.stack[n].at
  BY <1>1, <1>2 DEF SameOperands, Top, UsesReg, RegOf
<1>5. c.stack[n].val # Junk
  OBVIOUS
<1>6. t.regs[t.stack[n].at] = c.stack[n].val
  BY <1>2, <1>4, <1>5, ContentIsVal DEF Content
<1>7. p = c.stack[n].val /\ t.regs[r] = p /\ p \in A
  BY <1>4, <1>6
<1>8. loaded = m[p] /\ m[p] \in Val
  BY <1>7
<1>9. Deref(c, m, m) = [Write(t, t.stack[n].at, m[p]) EXCEPT !.stack[n].val = m[p]]
  BY <1>1, <1>3, <1>4, <1>7, <1>8
<1> HIDE DEF loaded, p, r, n
<1>10. Good([Write(t, t.stack[n].at, m[p]) EXCEPT !.stack[n].val = m[p]])
  BY <1>2, <1>4, <1>8, RefillGood
<1> QED BY <1>9, <1>10

\* The store finds the address and the value meant.
LEMMA StoreGood ==
    ASSUME NEW c, Good(c), Len(c.stack) > 1, NEW A, NEW m \in [A -> Val],
           c.stack[Over(c)].val \in A, c.stack[Over(c)].val # Junk,
           c.stack[Top(c)].val # Junk
    PROVE  /\ Good(Pop(Pop(StoreOperands(c))))
           /\ Stored(StoreOperands(c), m) = [m EXCEPT ![c.stack[Over(c)].val] = c.stack[Top(c)].val]
<1> DEFINE t  == EnsureReg(c, Top(c), Volatile)
           D  == Volatile \ {RegOf(t, Top(t))}
           c2 == EnsureReg(t, Over(t), D)
<1>1. Len(c.stack) \in Nat /\ Top(c) = Len(c.stack) /\ Over(c) = Len(c.stack) - 1
  BY Parts DEF Over
<1>2. Over(c) \in 1 .. Len(c.stack) /\ Top(c) \in 1 .. Len(c.stack) /\ Over(c) # Top(c)
  BY <1>1
<1>3. D \subseteq Volatile /\ D # {} /\ RegOf(t, Top(t)) \notin D
      /\ Volatile \subseteq Volatile /\ Volatile # {}
  BY SlotsAssumption
<1>4. StoreOperands(c) = c2
  BY DEF StoreOperands
<1> HIDE DEF D
<1>5. Good(t) /\ SameOperands(c, t)
  BY <1>2, <1>3, EnsureGood
<1>6. Top(t) = Top(c) /\ Over(t) = Over(c)
  BY <1>5 DEF SameOperands, Top, Over
<1>7. /\ Good(c2) /\ SameOperands(c, c2)
      /\ c2.stack[Top(c)].kind = "reg"
      /\ c2.stack[Over(c)].kind = "reg"
      /\ c.stack[Top(c)].val # Junk => c2.regs[c2.stack[Top(c)].at] = c.stack[Top(c)].val
      /\ c.stack[Over(c)].val # Junk => c2.regs[c2.stack[Over(c)].at] = c.stack[Over(c)].val
  <2>1. RegOf(EnsureReg(c, Top(c), Volatile), Top(c)) \notin D
    BY <1>3, <1>6
  <2>2. c2 = EnsureReg(EnsureReg(c, Top(c), Volatile), Over(c), D)
    BY <1>6
  <2> HIDE DEF c2, t
  <2> QED BY <1>2, <1>3, <2>1, <2>2, EnsureTwo, SMTT(30)
<1> HIDE DEF c2, t
<1>8. Top(c2) = Top(c) /\ Over(c2) = Over(c) /\ Len(c2.stack) > 1 /\ Runs(c2)
  BY <1>7 DEF SameOperands, Top, Over, Good
<1>9. c.stack[Top(c)].val # Junk /\ c.stack[Over(c)].val # Junk
  OBVIOUS
<1>10. Stored(c2, m) = [m EXCEPT ![c.stack[Over(c)].val] = c.stack[Top(c)].val]
  BY <1>7, <1>8, <1>9 DEF Stored, RegOf
<1>11. Good(Pop(Pop(c2)))
  BY <1>7, <1>8, PopTwoGood
<1> QED BY <1>4, <1>10, <1>11

\* After a flush no slot is in a register and every value is in scratch.
LEMMA FlushGood ==
    ASSUME NEW c, Good(c)
    PROVE  /\ Good(Flush(c)) /\ SameOperands(c, Flush(c))
           /\ Flush(c).regs = c.regs
           /\ \A k \in 1 .. Len(c.stack) : Flush(c).stack[k].kind # "reg"
<1> DEFINE n == Len(c.frame)
           h == Len(c.stack)
           st == [k \in 1 .. h |-> IF c.stack[k].kind = "reg"
                                   THEN InScratch(n + k, c.stack[k].val) ELSE c.stack[k]]
           fr == [o \in 1 .. n + h |-> IF o <= n THEN c.frame[o]
                                       ELSE IF Runs(c) /\ c.stack[o - n].kind = "reg"
                                       THEN c.regs[c.stack[o - n].at] ELSE Junk]
           d == Flush(c)
<1>1. /\ c \in State /\ c.skip = 0 /\ Runs(c)
      /\ c.stack \in Seq(Slot) /\ c.frame \in Seq(Val) /\ c.regs \in [Volatile -> Val]
      /\ n \in Nat /\ h \in Nat
  BY Parts
<1>2. d = [c EXCEPT !.stack = st, !.frame = fr]
  BY DEF Flush
<1> HIDE DEF n
<1>3. ASSUME NEW k \in 1 .. h
      PROVE  /\ c.stack[k] \in Slot /\ c.stack[k].val \in Val
             /\ c.stack[k].kind = "reg" => c.regs[c.stack[k].at] \in Val
             /\ InScratch(n + k, c.stack[k].val) \in Slot
  <2>1. c.stack[k] \in Slot
    BY <1>1
  <2>2. c.stack[k].val \in Val
    BY <2>1 DEF Slot
  <2>3. c.stack[k].kind = "reg" => c.stack[k].at \in Volatile
    BY DEF Good, PlacesExist
  <2>4. InScratch(n + k, c.stack[k].val) \in Slot
    BY <1>1, <2>2 DEF InScratch, Slot, Kinds
  <2> QED BY <1>1, <2>1, <2>2, <2>3, <2>4
<1> HIDE DEF h
<1>4. st \in Seq(Slot) /\ Len(st) = h
      /\ \A k \in 1 .. h : st[k] = IF c.stack[k].kind = "reg"
                                   THEN InScratch(n + k, c.stack[k].val) ELSE c.stack[k]
  <2>1. \A k \in 1 .. h : (IF c.stack[k].kind = "reg"
                           THEN InScratch(n + k, c.stack[k].val) ELSE c.stack[k]) \in Slot
    BY <1>3
  <2> QED BY <1>1, <2>1
<1>5. /\ fr \in Seq(Val) /\ Len(fr) = n + h
      /\ \A o \in 1 .. n : fr[o] = c.frame[o]
      /\ \A k \in 1 .. h : c.stack[k].kind = "reg" => fr[n + k] = c.regs[c.stack[k].at]
  <2> DEFINE B(o) == IF o <= n THEN c.frame[o]
                     ELSE IF Runs(c) /\ c.stack[o - n].kind = "reg"
                     THEN c.regs[c.stack[o - n].at] ELSE Junk
  <2>1. ASSUME NEW o \in 1 .. n + h PROVE B(o) \in Val
    <3>1. CASE o <= n
      <4>1. n = Len(c.frame) /\ o \in 1 .. Len(c.frame)
        BY <1>1, <3>1 DEF n
      <4>2. c.frame[o] \in Val
        BY <1>1, <4>1
      <4> QED BY <3>1, <4>2
    <3>2. CASE ~(o <= n)
      <4>1. o - n \in 1 .. h
        BY <1>1, <3>2
      <4>2. c.stack[o - n].kind = "reg" => c.regs[c.stack[o - n].at] \in Val
        BY <1>3, <4>1
      <4>3. Junk \in Val
        BY SlotsAssumption
      <4> QED BY <3>2, <4>2, <4>3
    <3> QED BY <3>1, <3>2
  <2>2. ASSUME NEW o \in 1 .. n PROVE o \in 1 .. n + h /\ B(o) = c.frame[o]
    BY <1>1
  <2>3. ASSUME NEW k \in 1 .. h, c.stack[k].kind = "reg"
        PROVE  n + k \in 1 .. n + h /\ B(n + k) = c.regs[c.stack[k].at]
    <3>1. n + k \in 1 .. n + h /\ ~(n + k <= n) /\ (n + k) - n = k
      BY <1>1
    <3> QED BY <1>1, <2>3, <3>1
  <2>4. fr = [o \in 1 .. n + h |-> B(o)]
    BY DEF fr
  <2> HIDE DEF B, fr
  <2>5. fr \in Seq(Val) /\ Len(fr) = n + h
    BY <1>1, <2>1, <2>4
  <2> QED BY <2>2, <2>3, <2>4, <2>5
<1>6. n = Len(c.frame) /\ h = Len(c.stack)
  BY DEF n, h
<1> HIDE DEF st, fr
<1>7. d \in State /\ d.stack = st /\ d.frame = fr /\ d.regs = c.regs /\ d.skip = 0
  BY <1>1, <1>2, <1>4, <1>5 DEF State
<1> HIDE DEF d
<1>8. \A k \in 1 .. h : st[k].kind # "reg" /\ st[k].val = c.stack[k].val
  BY <1>4 DEF InScratch
<1>9. SameOperands(c, d) /\ \A k \in 1 .. h : d.stack[k].kind # "reg"
  BY <1>6, <1>4, <1>7, <1>8 DEF SameOperands
<1>10. RegistersDistinct(d)
  BY <1>4, <1>7, <1>8 DEF RegistersDistinct
<1>11. PlacesExist(d)
  <2> SUFFICES ASSUME NEW k \in 1 .. h, st[k].kind = "scratch" PROVE st[k].at \in 1 .. n + h
    BY <1>4, <1>5, <1>7, <1>8 DEF PlacesExist
  <2>1. CASE c.stack[k].kind = "reg"
    BY <1>1, <1>4, <2>1 DEF InScratch
  <2>2. CASE c.stack[k].kind # "reg"
    <3>1. n \in Nat /\ h \in Nat
      BY <1>1
    <3>2. st[k] = c.stack[k]
      BY <1>4, <2>2
    <3>3. c.stack[k].at \in 1 .. n
      BY <1>6, <3>2 DEF Good, PlacesExist
    <3> QED BY <3>1, <3>2, <3>3
  <2> QED BY <2>1, <2>2
<1>12. PlacesHold(d)
  <2>1. Len(d.stack) = h /\ d.stack = st
    BY <1>4, <1>7
  <2> SUFFICES ASSUME NEW k \in 1 .. h, st[k].val # Junk PROVE Content(d, st[k]) = st[k].val
    BY <2>1 DEF PlacesHold
  <2>2. st[k].val = c.stack[k].val /\ Content(c, c.stack[k]) = c.stack[k].val
    BY <1>6, <1>8, ContentIsVal
  <2>3. CASE c.stack[k].kind = "reg"
    <3>1. st[k] = InScratch(n + k, c.stack[k].val)
      BY <1>1, <1>4, <2>3
    <3>2. fr[n + k] = c.regs[c.stack[k].at]
      BY <1>5, <2>3
    <3>3. st[k].kind = "scratch" /\ st[k].at = n + k
      BY <3>1 DEF InScratch
    <3>4. Content(d, st[k]) = fr[n + k]
      BY <1>7, <3>3 DEF Content
    <3> QED BY <2>2, <2>3, <3>2, <3>4 DEF Content
  <2>4. CASE c.stack[k].kind # "reg"
    <3>1. st[k] = c.stack[k]
      BY <1>4, <2>4
    <3>2. c.stack[k].kind = "scratch" => c.stack[k].at \in 1 .. n
      BY <1>6 DEF Good, PlacesExist
    <3> QED BY <1>5, <1>7, <2>2, <2>4, <3>1, <3>2 DEF Content
  <2> QED BY <2>3, <2>4
<1>13. Good(d)
  BY <1>7, <1>10, <1>11, <1>12 DEF Good, Runs
<1> QED BY <1>6, <1>7, <1>9, <1>13 DEF d

\* A call gets what the program passed.
LEMMA PassedMeant ==
    ASSUME NEW c, Good(c), NEW n \in 0 .. Top(c) - 1,
           \A j \in 0 .. n : c.stack[Top(c) - n + j].val # Junk
    PROVE  Passed(c, n) = [j \in 0 .. n |-> c.stack[Top(c) - n + j].val]
<1> DEFINE f == Flush(c)
<1>1. Good(f) /\ SameOperands(c, f)
  BY FlushGood
<1>2. Passed(c, n) = [j \in 0 .. n |-> Content(f, f.stack[Top(f) - n + j])]
  BY DEF Passed
<1> HIDE DEF f
<1>3. Top(f) = Top(c) /\ Top(c) \in Nat /\ Top(c) = Len(c.stack) /\ Len(f.stack) = Len(c.stack)
  BY <1>1, Parts DEF SameOperands, Top
<1>4. ASSUME NEW j \in 0 .. n
      PROVE  Content(f, f.stack[Top(f) - n + j]) = c.stack[Top(c) - n + j].val
  <2>1. Top(c) - n + j \in 1 .. Len(c.stack)
    BY <1>3
  <2>2. f.stack[Top(c) - n + j].val = c.stack[Top(c) - n + j].val
    BY <1>1, <2>1 DEF SameOperands
  <2>3. Content(f, f.stack[Top(c) - n + j]) = f.stack[Top(c) - n + j].val
    BY <1>1, <1>3, <2>1, <2>2, ContentIsVal
  <2> QED BY <1>3, <2>2, <2>3
<1> QED BY <1>2, <1>4

\* The call pops its operands, leaves nothing in the volatile registers but
\* its result, and pushes that.
LEMMA CallGood ==
    ASSUME NEW c, Good(c), NEW n \in 0 .. Top(c) - 1, NEW result \in Val, NEW void \in BOOLEAN
    PROVE  Good(Call(c, n, result, void))
<1> DEFINE f == Flush(c)
           st == SubSeq(f.stack, 1, Len(f.stack) - n - 1)
           rest == [f EXCEPT !.stack = st]
           rg == [r \in Volatile |-> IF r = RAX /\ ~void THEN result ELSE Junk]
           back == [rest EXCEPT !.regs = rg]
           p == [j \in 1 .. Len(st) |-> j]
<1>1. /\ Good(f) /\ SameOperands(c, f)
      /\ \A k \in 1 .. Len(c.stack) : f.stack[k].kind # "reg"
  BY FlushGood
<1>2. Runs(c) /\ Top(c) = Len(c.stack)
  BY Parts
<1>3. Call(c, n, result, void) = Push(back, IF void THEN Void ELSE InReg(RAX, result))
  BY <1>2 DEF Call
<1> HIDE DEF f
<1>4. /\ f \in State /\ f.skip = 0 /\ Runs(f) /\ f.stack \in Seq(Slot)
      /\ Len(f.stack) = Len(c.stack) /\ Len(f.stack) \in Nat /\ n \in Nat /\ n + 1 <= Len(f.stack)
  BY <1>1, <1>2, Parts DEF SameOperands
<1>5. /\ st \in Seq(Slot) /\ Len(st) = Len(f.stack) - n - 1
      /\ \A j \in 1 .. Len(st) : st[j] = f.stack[j] /\ j \in 1 .. Len(f.stack)
  BY <1>4
<1> HIDE DEF st
<1>6. rest \in State /\ rest.stack = st /\ rest.frame = f.frame /\ rest.regs = f.regs /\ rest.skip = 0
  BY <1>4, <1>5 DEF State
<1>7. rg \in [Volatile -> Val] /\ (~void => rg[RAX] = result) /\ RAX \in Volatile /\ RAX \in Nat
  BY SlotsAssumption
<1> HIDE DEF rest, rg
<1>8. TakenFrom(f, rest, p)
  BY <1>5, <1>6 DEF TakenFrom
<1> HIDE DEF p
<1>9. Good(rest)
  BY <1>1, <1>8, RearrangedGood
<1>10. back \in State /\ back.stack = st /\ back.frame = rest.frame /\ back.regs = rg /\ back.skip = 0
  BY <1>6, <1>7 DEF State
<1> HIDE DEF back
<1>11. \A j \in 1 .. Len(st) : st[j].kind # "reg"
  BY <1>1, <1>4, <1>5
<1>12. Good(back)
  BY <1>6, <1>9, <1>10, <1>11, AgreesGood
<1>13. CASE void
  BY <1>3, <1>12, <1>13, PushVoidGood
<1>14. CASE ~void
  <2> DEFINE s == InReg(RAX, result)
  <2>1. s \in Slot /\ s.kind = "reg" /\ s.at = RAX /\ s.val = result
    BY <1>7 DEF InReg, Slot, Kinds
  <2>2. Free(back, RAX)
    BY <1>10, <1>11 DEF Free
  <2>3. Content(back, s) = result
    BY <1>7, <1>10, <1>14, <2>1 DEF Content
  <2> HIDE DEF s
  <2>4. Good(Push(back, s))
    BY <1>7, <1>12, <2>1, <2>2, <2>3, PushGood
  <2> QED BY <1>3, <1>14, <2>4 DEF s
<1> QED BY <1>13, <1>14

-----------------------------------------------------------------------------
(* Sequences of slots, whatever values they are meant to hold *)

IsSlot(x) == \E k, a, v : k \in Kinds /\ x = [kind |-> k, at |-> a, val |-> v]

IsStack(s) == \E S : s \in Seq(S) /\ \A x \in S : IsSlot(x)

LEMMA SlotMade ==
    ASSUME NEW k \in Kinds, NEW a, NEW v
    PROVE  IsSlot([kind |-> k, at |-> a, val |-> v])
<1>1. \E j, b, w : j \in Kinds /\ [kind |-> k, at |-> a, val |-> v]
                                  = [kind |-> j, at |-> b, val |-> w]
  <2> WITNESS k, a, v
  <2> QED OBVIOUS
<1> QED BY <1>1 DEF IsSlot

LEMMA SlotOf ==
    ASSUME NEW s, IsStack(s), NEW k \in 1 .. Len(s)
    PROVE  IsSlot(s[k])
BY DEF IsStack

\* One more slot at the end.
LEMMA Appended ==
    ASSUME NEW s, IsStack(s), NEW x, IsSlot(x)
    PROVE  IsStack(Append(s, x)) /\ Len(Append(s, x)) = Len(s) + 1 /\ Len(s) \in Nat
<1>1. PICK S : s \in Seq(S) /\ \A y \in S : IsSlot(y)
  BY DEF IsStack
<1>2. s \in Seq(S \cup {x}) /\ \A y \in S \cup {x} : IsSlot(y)
  BY <1>1
<1>3. Append(s, x) \in Seq(S \cup {x}) /\ Len(Append(s, x)) = Len(s) + 1
  BY <1>2
<1> QED BY <1>1, <1>2, <1>3 DEF IsStack

\* A slot changed.
LEMMA Changed ==
    ASSUME NEW s, IsStack(s), NEW k, NEW x, IsSlot(x)
    PROVE  IsStack([s EXCEPT ![k] = x]) /\ Len([s EXCEPT ![k] = x]) = Len(s)
<1>1. PICK S : s \in Seq(S) /\ \A y \in S : IsSlot(y)
  BY DEF IsStack
<1>2. s \in [1 .. Len(s) -> S \cup {x}] /\ Len(s) \in Nat /\ \A y \in S \cup {x} : IsSlot(y)
  BY <1>1
<1>3. [s EXCEPT ![k] = x] \in [1 .. Len(s) -> S \cup {x}]
  BY <1>2
<1>4. [s EXCEPT ![k] = x] \in Seq(S \cup {x}) /\ Len([s EXCEPT ![k] = x]) = Len(s)
  BY <1>2, <1>3
<1> QED BY <1>2, <1>4 DEF IsStack

\* The first n slots.
LEMMA Shortened ==
    ASSUME NEW s, IsStack(s), NEW n \in 0 .. Len(s)
    PROVE  IsStack(SubSeq(s, 1, n)) /\ Len(SubSeq(s, 1, n)) = n
<1>1. PICK S : s \in Seq(S) /\ \A y \in S : IsSlot(y)
  BY DEF IsStack
<1>2. SubSeq(s, 1, n) \in Seq(S) /\ Len(SubSeq(s, 1, n)) = n
  BY <1>1
<1> QED BY <1>1, <1>2 DEF IsStack

LEMMA Places ==
    ASSUME NEW r, NEW v
    PROVE  IsSlot(InReg(r, v)) /\ IsSlot(InScratch(r, v)) /\ IsSlot(Void)
BY SlotMade DEF InReg, InScratch, Void, Kinds

-----------------------------------------------------------------------------
(* What each operation does to the number of slots.  None of them starts   *)
(* or ends a jump but the branch.                                          *)

Whole(c) ==
    /\ c = [stack |-> c.stack, frame |-> c.frame, regs |-> c.regs, skip |-> c.skip]
    /\ IsStack(c.stack)

\* d has n slots and jumps as c does.  Code that is jumped over writes to no
\* register.
Sized(c, d, n) ==
    /\ Whole(d) /\ Len(d.stack) = n /\ d.skip = c.skip
    /\ c.skip # 0 => d.regs = c.regs /\ (c.frame \in Seq(Val) => d.frame \in Seq(Val))

Same(c, d) == Sized(c, d, Len(c.stack))

LEMMA LenNat ==
    ASSUME NEW c, Whole(c)
    PROVE  Len(c.stack) \in Nat /\ \A k \in 1 .. Len(c.stack) : IsSlot(c.stack[k])
BY SlotOf DEF Whole, IsStack

LEMMA SameWrite == ASSUME NEW c, Whole(c), NEW r, NEW v PROVE Same(c, Write(c, r, v))
<1>1. Write(c, r, v).stack = c.stack /\ Write(c, r, v).skip = c.skip
  BY DEF Whole, Write
<1>2. c.skip # 0 => Write(c, r, v) = c
  BY DEF Write, Runs
<1>3. Whole(Write(c, r, v))
  BY <1>1 DEF Whole, Write
<1> QED BY <1>1, <1>2, <1>3 DEF Same, Sized

\* A slot's place changes, and anything outside the stack.
LEMMA SameSet ==
    ASSUME NEW c, Whole(c), NEW k, NEW s, IsSlot(s)
    PROVE  Same(c, [c EXCEPT !.stack[k] = s])
<1> DEFINE d == [c EXCEPT !.stack[k] = s]
<1>1. d.stack = [c.stack EXCEPT ![k] = s] /\ d.skip = c.skip
      /\ d = [stack |-> d.stack, frame |-> d.frame, regs |-> d.regs, skip |-> d.skip]
  BY DEF Whole
<1>0. IsStack([c.stack EXCEPT ![k] = s]) /\ Len([c.stack EXCEPT ![k] = s]) = Len(c.stack)
  BY Changed DEF Whole
<1> HIDE DEF d
<1>2. IsStack(d.stack) /\ Len(d.stack) = Len(c.stack)
  BY <1>0, <1>1
<1> QED BY <1>1, <1>2 DEF Same, Sized, Whole, d

\* Another stack, and another frame
LEMMA Restacked ==
    ASSUME NEW c, Whole(c), NEW s, IsStack(s), NEW p,
           c.skip # 0 /\ c.frame \in Seq(Val) => p \in Seq(Val)
    PROVE  /\ Sized(c, [c EXCEPT !.stack = s, !.frame = p], Len(s))
           /\ Sized(c, [c EXCEPT !.stack = s], Len(s))
<1>1. PICK t, f, r, l : c = [stack |-> t, frame |-> f, regs |-> r, skip |-> l]
  BY DEF Whole
<1>2. ASSUME NEW g, c.skip # 0 /\ c.frame \in Seq(Val) => g \in Seq(Val)
      PROVE  Sized(c, [stack |-> s, frame |-> g, regs |-> r, skip |-> l], Len(s))
  <2> DEFINE d == [stack |-> s, frame |-> g, regs |-> r, skip |-> l]
  <2>1. d.stack = s /\ d.frame = g /\ d.regs = r /\ d.skip = l
    OBVIOUS
  <2>2. c.frame = f /\ c.regs = r /\ c.skip = l
    BY <1>1
  <2>3. Whole(d)
    BY <2>1 DEF Whole
  <2> HIDE DEF d
  <2>4. Sized(c, d, Len(s))
    BY <1>2, <2>1, <2>2, <2>3 DEF Sized
  <2> QED BY <2>4 DEF d
<1>3. [c EXCEPT !.stack = s] = [stack |-> s, frame |-> f, regs |-> r, skip |-> l]
  BY <1>1
<1>4. [c EXCEPT !.stack = s, !.frame = p] = [[c EXCEPT !.stack = s] EXCEPT !.frame = p]
  OBVIOUS
<1>5. [[stack |-> s, frame |-> f, regs |-> r, skip |-> l] EXCEPT !.frame = p]
      = [stack |-> s, frame |-> p, regs |-> r, skip |-> l]
  OBVIOUS
<1>6. [c EXCEPT !.stack = s, !.frame = p] = [stack |-> s, frame |-> p, regs |-> r, skip |-> l]
  BY ONLY <1>3, <1>4, <1>5
<1> QED BY <1>1, <1>2, <1>3, <1>6

LEMMA SameSpill == ASSUME NEW c, Whole(c), NEW k PROVE Same(c, Spill(c, k))
<1>1. CASE c.stack[k].kind # "reg"
  BY <1>1 DEF Spill, Same, Sized
<1>2. CASE c.stack[k].kind = "reg"
  <2> DEFINE d == Spill(c, k)
             s == InScratch(Len(c.frame) + 1, c.stack[k].val)
  <2>1. d.stack = [c.stack EXCEPT ![k] = s] \/ d.stack = c.stack
    BY <1>2 DEF Whole, Spill
  <2>2. d.skip = c.skip
        /\ d = [stack |-> d.stack, frame |-> d.frame, regs |-> d.regs, skip |-> d.skip]
    BY <1>2 DEF Whole, Spill
  <2>0. IsSlot(s)
    BY Places
  <2> HIDE DEF d, s
  <2>3. IsStack([c.stack EXCEPT ![k] = s]) /\ Len([c.stack EXCEPT ![k] = s]) = Len(c.stack)
    BY <2>0, Changed DEF Whole
  <2>4. IsStack(d.stack) /\ Len(d.stack) = Len(c.stack)
    BY <2>1, <2>3 DEF Whole
  <2>5. c.skip # 0 => d.regs = c.regs /\ d.frame = Append(c.frame, Junk)
    BY <1>2 DEF Whole, Spill, Runs, d
  <2>6. c.frame \in Seq(Val) => Append(c.frame, Junk) \in Seq(Val)
    BY SlotsAssumption
  <2> QED BY <2>2, <2>4, <2>5, <2>6 DEF Same, Sized, Whole, d
<1> QED BY <1>1, <1>2

LEMMA SameAlloc == ASSUME NEW c, Whole(c), NEW D PROVE Same(c, AllocReg(c, D).cg)
BY SameSpill DEF AllocReg, Same, Sized

LEMMA SameTrans ==
    ASSUME NEW c, NEW d, NEW e, Same(c, d), NEW n, Sized(d, e, n) PROVE Sized(c, e, n)
BY DEF Same, Sized

LEMMA SameEnsure ==
    ASSUME NEW c, Whole(c), NEW k, NEW D PROVE Same(c, EnsureReg(c, k, D))
<1>1. CASE UsesReg(c, k, D)
  BY <1>1 DEF EnsureReg, Same, Sized
<1>2. CASE ~UsesReg(c, k, D)
  <2> DEFINE a == AllocReg(c, D)
             s == InReg(a.reg, a.cg.stack[k].val)
             m == [a.cg EXCEPT !.stack[k] = s]
  <2>1. Same(c, a.cg)
    BY SameAlloc
  <2>2. Same(a.cg, m)
    <3>1. Whole(a.cg) /\ IsSlot(s)
      BY <2>1, Places DEF Same, Sized
    <3> HIDE DEF a, s
    <3> QED BY <3>1, SameSet
  <2>3. Same(c, m)
    BY <2>1, <2>2 DEF Same, Sized
  <2>4. Same(m, Write(m, a.reg, Content(c, c.stack[k])))
    BY <2>3, SameWrite DEF Same, Sized
  <2>5. EnsureReg(c, k, D) = Write([a.cg EXCEPT !.stack[k] = InReg(a.reg, @.val)],
                                   a.reg, Content(c, c.stack[k]))
    BY <1>2 DEF EnsureReg
  <2>6. [a.cg EXCEPT !.stack[k] = InReg(a.reg, @.val)] = m
    BY <2>1 DEF Same, Sized, Whole
  <2> QED BY <2>3, <2>4, <2>5, <2>6 DEF Same, Sized
<1> QED BY <1>1, <1>2

LEMMA SizedPush ==
    ASSUME NEW c, Whole(c), NEW s, IsSlot(s)
    PROVE  Sized(c, Push(c, s), Len(c.stack) + 1)
<1> DEFINE t == IF Runs(c) THEN s ELSE [s EXCEPT !.val = Junk]
<1>0. Push(c, s) = [c EXCEPT !.stack = Append(c.stack, t)]
  BY DEF Push, Whole
<1>1. IsSlot(t)
  <2>1. PICK k, a, v : k \in Kinds /\ s = [kind |-> k, at |-> a, val |-> v]
    BY DEF IsSlot
  <2>2. [s EXCEPT !.val = Junk] = [kind |-> k, at |-> a, val |-> Junk]
    BY <2>1
  <2> QED BY <2>1, <2>2, SlotMade
<1> HIDE DEF t
<1>2. IsStack(Append(c.stack, t)) /\ Len(Append(c.stack, t)) = Len(c.stack) + 1
  BY <1>1, Appended DEF Whole
<1> QED BY <1>0, <1>2 DEF Sized, Whole

LEMMA SizedPop ==
    ASSUME NEW c, Whole(c), Len(c.stack) >= 1 PROVE Sized(c, Pop(c), Len(c.stack) - 1)
<1>0. IsStack(c.stack) /\ Len(c.stack) - 1 \in 0 .. Len(c.stack)
  BY LenNat DEF Whole
<1>1. IsStack(SubSeq(c.stack, 1, Len(c.stack) - 1))
      /\ Len(SubSeq(c.stack, 1, Len(c.stack) - 1)) = Len(c.stack) - 1
  BY <1>0, Shortened
<1> QED BY <1>1, SMTT(30) DEF Sized, Whole, Pop

LEMMA SizedPopTwo ==
    ASSUME NEW c, Whole(c), Len(c.stack) >= 2
    PROVE  Sized(c, Pop(Pop(c)), Len(c.stack) - 2)
<1>1. Sized(c, Pop(c), Len(c.stack) - 1)
  BY SizedPop, LenNat
<1>2. Sized(Pop(c), Pop(Pop(c)), Len(Pop(c).stack) - 1)
  BY <1>1, SizedPop, LenNat DEF Sized
<1> QED BY <1>1, <1>2, LenNat DEF Sized

\* The operations of the compiler
LEMMA SizedLoad ==
    ASSUME NEW c, Whole(c), NEW v PROVE Sized(c, Load(c, v), Len(c.stack) + 1)
<1> DEFINE a == AllocReg(c, Volatile)
           w == Write(a.cg, a.reg, v)
<1>1. Same(c, a.cg)
  BY SameAlloc
<1>2. Same(a.cg, w)
  BY <1>1, SameWrite DEF Same, Sized
<1>3. Sized(w, Push(w, InReg(a.reg, v)), Len(w.stack) + 1)
  BY <1>2, SizedPush, Places DEF Same, Sized
<1>4. Load(c, v) = Push(w, InReg(a.reg, v))
  BY DEF Load
<1> QED BY <1>1, <1>2, <1>3, <1>4 DEF Same, Sized

LEMMA SameExtend == ASSUME NEW c, Whole(c) PROVE Same(c, Extend(c))
BY SameEnsure DEF Extend

LEMMA SameSwap ==
    ASSUME NEW c, Whole(c), Len(c.stack) >= 2 PROVE Same(c, Swap(c))
<1> DEFINE d == [c EXCEPT !.stack[Top(c)] = c.stack[Over(c)]]
<1>0. /\ IsSlot(c.stack[Top(c)]) /\ IsSlot(c.stack[Over(c)])
      /\ Len(c.stack) >= 3 => IsSlot(c.stack[Top(c) - 2])
  BY LenNat DEF Top, Over
<1>1. Same(c, d)
  BY <1>0, SameSet
<1>2. Same(d, [d EXCEPT !.stack[Over(c)] = c.stack[Top(c)]])
  BY <1>0, <1>1, SameSet DEF Same, Sized
<1> QED BY <1>1, <1>2 DEF Swap, Same, Sized

LEMMA SameRot ==
    ASSUME NEW c, Whole(c), Len(c.stack) >= 3 PROVE Same(c, Rot(c))
<1> DEFINE d == [c EXCEPT !.stack[Top(c) - 2] = c.stack[Over(c)]]
           e == [d EXCEPT !.stack[Over(c)] = c.stack[Top(c)]]
<1>0. /\ IsSlot(c.stack[Top(c)]) /\ IsSlot(c.stack[Over(c)])
      /\ Len(c.stack) >= 3 => IsSlot(c.stack[Top(c) - 2])
  BY LenNat DEF Top, Over
<1>1. Same(c, d)
  BY <1>0, SameSet
<1>2. Same(d, e)
  BY <1>0, <1>1, SameSet DEF Same, Sized
<1>3. Same(e, [e EXCEPT !.stack[Top(c)] = c.stack[Top(c) - 2]])
  BY <1>0, <1>2, SameSet DEF Same, Sized
<1> QED BY <1>1, <1>2, <1>3 DEF Rot, Same, Sized

LEMMA SizedDup ==
    ASSUME NEW c, Whole(c), Len(c.stack) >= 1
    PROVE  Sized(c, Dup(c), Len(c.stack) + 1)
<1> DEFINE t == EnsureReg(c, Top(c), Volatile)
           r == RegOf(t, Top(t))
           a == AllocReg(t, Volatile \ {r})
           s == c.stack[Top(c)]
           copied == IF Runs(c) THEN Content(c, s) ELSE Junk
           f == [c EXCEPT !.frame = Append(@, copied)]
           m == AllocReg(f, Volatile)
<1>1. CASE s.kind = "none"
  <2>1. Dup(c) = Push(c, Void)
    BY <1>1 DEF Dup
  <2> QED BY <2>1, SizedPush, Places
<1>2. CASE s.kind = "reg"
  <2> DEFINE w == Write(a.cg, a.reg, t.regs[r])
  <2>1. Same(c, t)
    BY SameEnsure
  <2>2. Same(t, a.cg)
    BY <2>1, SameAlloc DEF Same, Sized
  <2>3. Same(a.cg, w)
    BY <2>2, SameWrite DEF Same, Sized
  <2>4. Sized(w, Push(w, InReg(a.reg, s.val)), Len(w.stack) + 1)
    BY <2>3, SizedPush, Places DEF Same, Sized
  <2>5. Dup(c) = Push(w, InReg(a.reg, s.val))
    BY <1>2 DEF Dup
  <2> QED BY <2>1, <2>2, <2>3, <2>4, <2>5 DEF Same, Sized
<1>3. CASE s.kind = "scratch"
  <2> DEFINE w == Write(m.cg, m.reg, copied)
  <2>1. Same(c, f)
    <3>1. c.skip # 0 => copied = Junk
      BY DEF Runs
    <3> HIDE DEF copied
    <3>2. f.stack = c.stack /\ f.skip = c.skip /\ f.regs = c.regs
          /\ f.frame = Append(c.frame, copied)
      BY DEF Whole
    <3>4. Whole(f)
      BY DEF Whole
    <3>3. c.skip # 0 /\ c.frame \in Seq(Val) => f.frame \in Seq(Val)
      BY <3>1, <3>2, SlotsAssumption
    <3> HIDE DEF f
    <3> QED BY <3>2, <3>3, <3>4 DEF Same, Sized
  <2>2. Same(f, m.cg)
    <3>1. Whole(f)
      BY <2>1 DEF Same, Sized
    <3> HIDE DEF f
    <3> QED BY <3>1, SameAlloc
  <2>3. Same(m.cg, w)
    BY <2>2, SameWrite DEF Same, Sized
  <2>4. Sized(w, Push(w, InScratch(s.at, s.val)), Len(w.stack) + 1)
    BY <2>3, SizedPush, Places DEF Same, Sized
  <2>5. Dup(c) = Push(w, InScratch(s.at, s.val))
    BY <1>3 DEF Dup
  <2> QED BY <2>1, <2>2, <2>3, <2>4, <2>5 DEF Same, Sized
<1>4. s.kind \in Kinds
  <2>1. IsSlot(s)
    BY LenNat DEF Top
  <2> HIDE DEF s
  <2> QED BY <2>1 DEF IsSlot
<1> QED BY <1>1, <1>2, <1>3, <1>4 DEF Kinds

\* The common end of the binary operators
LEMMA SizedResult ==
    ASSUME NEW c, Whole(c), Len(c.stack) >= 2, NEW l, NEW r, NEW o, NEW op
    PROVE  Sized(c, Result(c, l, r, o, op), Len(c.stack) - 1)
<1> DEFINE v == Fn(op, c.stack[Over(c)].val, c.stack[Top(c)].val)
           w == Write(c, o, Fn(op, c.regs[l], c.regs[r]))
           p == Pop(Pop(w))
<1>1. Same(c, w)
  BY SameWrite
<1>2. Sized(w, p, Len(w.stack) - 2)
  BY <1>1, SizedPopTwo DEF Same, Sized
<1>3. Sized(p, Push(p, InReg(o, v)), Len(p.stack) + 1)
  BY <1>2, SizedPush, Places DEF Sized
<1>4. Result(c, l, r, o, op) = Push(p, InReg(o, v))
  BY DEF Result
<1> QED BY <1>1, <1>2, <1>3, <1>4, LenNat DEF Same, Sized

LEMMA SizedBinop ==
    ASSUME NEW c, Whole(c), Len(c.stack) >= 2, NEW op
    PROVE  Sized(c, Binop(c, op), Len(c.stack) - 1)
<1> DEFINE c1 == EnsureReg(c, Over(c), Volatile)
           l  == RegOf(c1, Over(c1))
           c2 == EnsureReg(c1, Top(c1), Volatile \ {l})
<1>1. Same(c, c1)
  BY SameEnsure
<1>2. Same(c1, c2)
  BY <1>1, SameEnsure DEF Same, Sized
<1>3. Sized(c2, Result(c2, l, RegOf(c2, Top(c2)), l, op), Len(c2.stack) - 1)
  BY <1>1, <1>2, SizedResult DEF Same, Sized
<1>4. Binop(c, op) = Result(c2, l, RegOf(c2, Top(c2)), l, op)
  BY DEF Binop
<1> QED BY <1>1, <1>2, <1>3, <1>4 DEF Same, Sized

LEMMA SizedShift ==
    ASSUME NEW c, Whole(c), Len(c.stack) >= 2, NEW op
    PROVE  Sized(c, Shift(c, op), Len(c.stack) - 1)
<1> DEFINE c1 == EnsureReg(c, Top(c), {RCX})
           c2 == EnsureReg(c1, Over(c1), Volatile \ {RCX})
           l  == RegOf(c2, Over(c2))
<1>1. Same(c, c1)
  BY SameEnsure
<1>2. Same(c1, c2)
  BY <1>1, SameEnsure DEF Same, Sized
<1>3. Sized(c2, Result(c2, l, RCX, l, op), Len(c2.stack) - 1)
  BY <1>1, <1>2, SizedResult DEF Same, Sized
<1>4. Shift(c, op) = Result(c2, l, RCX, l, op)
  BY DEF Shift
<1> QED BY <1>1, <1>2, <1>3, <1>4 DEF Same, Sized

LEMMA SizedDivide ==
    ASSUME NEW c, Whole(c), Len(c.stack) >= 2, NEW op
    PROVE  Sized(c, Divide(c, op), Len(c.stack) - 1)
<1> DEFINE c1 == EnsureReg(c, Over(c), {RAX})
           c2 == EnsureReg(c1, Top(c1), Volatile \ {RAX, RDX})
           c3 == AllocReg(c2, {RDX}).cg
           r  == RegOf(c3, Top(c3))
           quot == Fn("div", c3.regs[RAX], c3.regs[r])
           rem  == Fn("rem", c3.regs[RAX], c3.regs[r])
           v    == Fn(op, c3.stack[Over(c3)].val, c3.stack[Top(c3)].val)
           half == Write(c3, RAX, quot)
           done == Write(half, RDX, rem)
           s    == InReg(IF op = "div" THEN RAX ELSE RDX, v)
           p    == Pop(Pop(done))
<1>1. Same(c, c1)
  BY SameEnsure
<1>2. Same(c1, c2)
  BY <1>1, SameEnsure DEF Same, Sized
<1>3. Same(c2, c3)
  BY <1>2, SameAlloc DEF Same, Sized
<1>4. Same(c3, half)
  BY <1>3, SameWrite DEF Same, Sized
<1>5. Same(half, done)
  <2>1. Whole(half)
    BY <1>4 DEF Same, Sized
  <2> HIDE DEF half, rem
  <2> QED BY <2>1, SameWrite
<1>6. Same(c, done)
  BY <1>1, <1>2, <1>3, <1>4, <1>5 DEF Same, Sized
<1>7. Sized(done, p, Len(done.stack) - 2)
  BY <1>6, SizedPopTwo DEF Same, Sized
<1>8. Sized(p, Push(p, s), Len(p.stack) + 1)
  <2>2. IsSlot(s)
    BY Places
  <2> HIDE DEF done, p, s
  <2>1. Whole(p)
    BY <1>7 DEF Sized
  <2> QED BY ONLY <2>1, <2>2, SizedPush
<1>9. Divide(c, op) = Push(p, s)
  BY DEF Divide
<1> HIDE DEF done, p, s
<1> QED BY <1>6, <1>7, <1>8, <1>9, LenNat DEF Same, Sized

LEMMA SameDeref ==
    ASSUME NEW c, Whole(c), Len(c.stack) >= 1, NEW memory, NEW reference
    PROVE  Same(c, Deref(c, memory, reference))
<1> DEFINE t == EnsureReg(c, Top(c), Volatile)
           r == RegOf(t, Top(t))
           p == t.stack[Top(t)].val
           loaded == IF t.regs[r] \in DOMAIN memory THEN memory[t.regs[r]] ELSE Junk
           meant  == IF Runs(c) /\ p \in DOMAIN reference THEN reference[p] ELSE Junk
           w == Write(t, r, loaded)
           s == [w.stack[Top(t)] EXCEPT !.val = meant]
<1>1. Same(c, t)
  BY SameEnsure
<1>2. Same(t, w)
  BY <1>1, SameWrite DEF Same, Sized
<1>3. IsSlot(w.stack[Top(t)])
  BY <1>1, <1>2, LenNat DEF Same, Sized, Top
<1>4. IsSlot(s)
  <2>1. PICK k, a, v : k \in Kinds /\ w.stack[Top(t)] = [kind |-> k, at |-> a, val |-> v]
    BY <1>3 DEF IsSlot
  <2>2. s = [kind |-> k, at |-> a, val |-> meant]
    <3> HIDE DEF meant, w
    <3> QED BY <2>1
  <2> HIDE DEF meant, w, s
  <2> QED BY <2>1, <2>2, SlotMade
<1>5. Same(w, [w EXCEPT !.stack[Top(t)] = s])
  <2> HIDE DEF s, w
  <2> QED BY <1>2, <1>4, SameSet DEF Same, Sized
<1>6. Deref(c, memory, reference) = [w EXCEPT !.stack[Top(t)].val = meant]
  BY DEF Deref
<1>7. [w EXCEPT !.stack[Top(t)].val = meant] = [w EXCEPT !.stack[Top(t)] = s]
  BY <1>2 DEF Same, Sized, Whole
<1> QED BY <1>1, <1>2, <1>5, <1>6, <1>7 DEF Same, Sized

LEMMA SameStoreOperands == ASSUME NEW c, Whole(c) PROVE Same(c, StoreOperands(c))
<1> DEFINE t == EnsureReg(c, Top(c), Volatile)
<1>1. Same(c, t)
  BY SameEnsure
<1>2. Same(t, EnsureReg(t, Over(t), Volatile \ {RegOf(t, Top(t))}))
  BY <1>1, SameEnsure DEF Same, Sized
<1> QED BY <1>1, <1>2 DEF Same, Sized, StoreOperands

LEMMA SameFlush == ASSUME NEW c, Whole(c) PROVE Same(c, Flush(c))
<1> DEFINE n == Len(c.frame)
           s == [k \in 1 .. Len(c.stack) |-> IF c.stack[k].kind = "reg"
                    THEN InScratch(n + k, c.stack[k].val) ELSE c.stack[k]]
           S == {s[k] : k \in 1 .. Len(c.stack)}
           p == [o \in 1 .. n + Len(c.stack) |->
                    IF o <= n THEN c.frame[o]
                    ELSE IF Runs(c) /\ c.stack[o - n].kind = "reg"
                    THEN c.regs[c.stack[o - n].at] ELSE Junk]
           d == [c EXCEPT !.stack = s, !.frame = p]
<1>1. Len(c.stack) \in Nat /\ \A k \in 1 .. Len(c.stack) : IsSlot(c.stack[k])
  BY LenNat
<1>2. \A k \in 1 .. Len(c.stack) : IsSlot(s[k])
  BY <1>1, Places
<1>3. s \in Seq(S) /\ Len(s) = Len(c.stack)
  <2>1. s \in [1 .. Len(c.stack) -> S]
    OBVIOUS
  <2> QED BY <1>1, <2>1
<1>4. IsStack(s)
  <2>1. \A x \in S : IsSlot(x)
    BY <1>2
  <2> HIDE DEF S, s
  <2> QED BY <1>3, <2>1 DEF IsStack
<1>5. Flush(c) = d
  BY DEF Flush
<1>6. c.skip # 0 /\ c.frame \in Seq(Val) => p \in Seq(Val)
  <2>1. SUFFICES ASSUME c.skip # 0, c.frame \in Seq(Val)
                 PROVE  p \in Seq(Val)
    OBVIOUS
  <2> DEFINE z == n + Len(c.stack)
  <2>2. Len(c.frame) \in Nat
    BY <2>1
  <2>3. z \in Nat
    <3>1. \A i, j \in Nat : i + j \in Nat
      OBVIOUS
    <3>2. Len(c.stack) \in Nat
      BY <1>1
    <3> QED BY <2>2, <3>1, <3>2
  <2>4. \A o \in 1 .. n : c.frame[o] \in Val
    BY <2>1
  <2>5. p = [o \in 1 .. z |-> IF o <= n THEN c.frame[o] ELSE Junk]
    BY <2>1 DEF Runs
  <2> HIDE DEF p, z
  <2>6. p \in [1 .. z -> Val]
    BY <2>2, <2>3, <2>4, <2>5, SlotsAssumption
  <2> QED BY <2>3, <2>6
<1> HIDE DEF s, p
<1>7. Sized(c, d, Len(s))
  BY <1>4, <1>6, Restacked
<1> HIDE DEF d
<1> QED BY <1>3, <1>5, <1>7 DEF Same

\* A call of n arguments takes them and the callee and leaves its result.
LEMMA SizedCall ==
    ASSUME NEW c, Whole(c), NEW n \in Nat, Len(c.stack) >= n + 1, NEW result, NEW void
    PROVE  Sized(c, Call(c, n, result, void), Len(c.stack) - n)
<1> DEFINE f == Flush(c)
           rest == [f EXCEPT !.stack = SubSeq(@, 1, Len(@) - n - 1)]
           back == IF Runs(c)
                   THEN [rest EXCEPT !.regs = [r \in Volatile |->
                            IF r = RAX /\ ~void THEN result ELSE Junk]]
                   ELSE rest
           s == IF void THEN Void ELSE InReg(RAX, result)
<1>1. Same(c, f) /\ Len(c.stack) \in Nat
  BY SameFlush, LenNat
<1>2. IsStack(f.stack) /\ Len(f.stack) - n - 1 \in 0 .. Len(f.stack)
  BY <1>1 DEF Same, Sized, Whole
<1>3. /\ IsStack(SubSeq(f.stack, 1, Len(f.stack) - n - 1))
      /\ Len(SubSeq(f.stack, 1, Len(f.stack) - n - 1)) = Len(f.stack) - n - 1
  BY <1>2, Shortened
<1>4. rest = [f EXCEPT !.stack = SubSeq(f.stack, 1, Len(f.stack) - n - 1)]
  <2> HIDE DEF f
  <2> QED BY <1>1 DEF Same, Sized, Whole
<1>5. Sized(c, rest, Len(c.stack) - n - 1)
  <2> HIDE DEF f, rest
  <2>1. Whole(f)
    BY <1>1 DEF Same, Sized
  <2>2. Sized(f, rest, Len(f.stack) - n - 1)
    BY <1>3, <1>4, <2>1, Restacked
  <2> QED BY <1>1, <2>2 DEF Same, Sized
<1> HIDE DEF rest, f
<1>6. Sized(c, back, Len(c.stack) - n - 1)
  BY <1>5 DEF Sized, Whole, Runs
<1>7. Sized(back, Push(back, s), Len(back.stack) + 1)
  BY <1>6, SizedPush, Places DEF Sized
<1>8. Call(c, n, result, void) = Push(back, s)
  BY DEF Call, rest, f
<1> QED BY <1>1, <1>6, <1>7, <1>8 DEF Sized

\* A branch takes what it tests; the code runs on or has jumped to the label.
LEMMA SizedBranch ==
    ASSUME NEW c, Whole(c), Len(c.stack) >= 1, NEW onZero, NEW zero, NEW label
    PROVE  LET d == BranchSavingReg(c, onZero, zero, label) IN
           /\ Whole(d) /\ Len(d.stack) = Len(c.stack) - 1 /\ d.skip \in {c.skip, label}
           /\ c.skip # 0 => Sized(c, d, Len(c.stack) - 1)
<1> DEFINE t == EnsureReg(c, Top(c), Volatile)
           taken == Runs(c) /\ (onZero <=> t.regs[RegOf(t, Top(t))] = zero)
           p == Pop(t)
<1>1. Same(c, t)
  BY SameEnsure
<1>2. Sized(t, p, Len(t.stack) - 1)
  BY <1>1, SizedPop DEF Same, Sized
<1>3. BranchSavingReg(c, onZero, zero, label) = [p EXCEPT !.skip = IF taken THEN label ELSE p.skip]
  BY <1>2 DEF BranchSavingReg, Sized, Whole
<1>4. c.skip # 0 => taken = FALSE
  BY DEF Runs
<1> HIDE DEF p, taken, t
<1>5. c.skip # 0 => Sized(c, BranchSavingReg(c, onZero, zero, label), Len(c.stack) - 1)
  BY <1>1, <1>2, <1>3, <1>4 DEF Same, Sized, Whole
<1> QED BY <1>1, <1>2, <1>3, <1>5 DEF Same, Sized, Whole

-----------------------------------------------------------------------------
(* What the slots of a running state hold: the values s, oldest first *)

Stands(c, s) ==
    /\ c \in State /\ Runs(c) /\ s \in Seq(Val) /\ Len(c.stack) = Len(s)
    /\ \A k \in 1 .. Len(s) : c.stack[k].val = s[k]

Holds(c, s) == Good(c) /\ Stands(c, s)

\* Two sequences that end alike.
LEMMA TopOf ==
    ASSUME NEW t \in Seq(Val), NEW x \in Val
    PROVE  /\ Append(t, x) \in Seq(Val) /\ Len(Append(t, x)) = Len(t) + 1 /\ Len(t) \in Nat
           /\ Append(t, x)[Len(t) + 1] = x
           /\ \A k \in 1 .. Len(t) : Append(t, x)[k] = t[k]
OBVIOUS

LEMMA TopTwoOf ==
    ASSUME NEW t \in Seq(Val), NEW x \in Val, NEW y \in Val
    PROVE  LET s == Append(Append(t, x), y) IN
           /\ s \in Seq(Val) /\ Len(s) = Len(t) + 2 /\ Len(t) \in Nat
           /\ s[Len(t) + 1] = x /\ s[Len(t) + 2] = y
           /\ \A k \in 1 .. Len(t) : s[k] = t[k]
OBVIOUS

LEMMA TopThreeOf ==
    ASSUME NEW t \in Seq(Val), NEW x \in Val, NEW y \in Val, NEW z \in Val
    PROVE  LET s == Append(Append(Append(t, x), y), z) IN
           /\ s \in Seq(Val) /\ Len(s) = Len(t) + 3 /\ Len(t) \in Nat
           /\ s[Len(t) + 1] = x /\ s[Len(t) + 2] = y /\ s[Len(t) + 3] = z
           /\ \A k \in 1 .. Len(t) : s[k] = t[k]
OBVIOUS

\* The same operands hold the same values.
LEMMA StandsSame ==
    ASSUME NEW c, NEW s, Stands(c, s), NEW d, d \in State, Runs(d), SameOperands(c, d)
    PROVE  Stands(d, s)
BY DEF Stands, SameOperands

LEMMA HoldsSame ==
    ASSUME NEW c, NEW s, Holds(c, s), NEW d, Good(d), SameOperands(c, d)
    PROVE  Holds(d, s)
BY StandsSame, Parts DEF Holds

\* Pushing, popping and writing to a register
LEMMA StandsPush ==
    ASSUME NEW c, NEW s, Stands(c, s), NEW x \in Slot
    PROVE  Stands(Push(c, x), Append(s, x.val))
<1> DEFINE d == Push(c, x)
           n == Len(s)
<1>1. /\ c \in State /\ c.skip = 0 /\ Runs(c) /\ s \in Seq(Val) /\ Len(c.stack) = n /\ n \in Nat
      /\ c.stack \in Seq(Slot) /\ x.val \in Val
      /\ \A k \in 1 .. n : c.stack[k].val = s[k]
  BY DEF Stands, Runs, State, Slot
<1>2. d = [c EXCEPT !.stack = Append(c.stack, x)]
  BY <1>1 DEF Push
<1>3. Append(c.stack, x) \in Seq(Slot) /\ Append(s, x.val) \in Seq(Val)
  BY <1>1
<1>4. d \in State /\ d.stack = Append(c.stack, x) /\ d.skip = 0
  BY <1>1, <1>2, <1>3 DEF State
<1>5. /\ Len(d.stack) = n + 1 /\ d.stack[n + 1] = x /\ \A k \in 1 .. n : d.stack[k] = c.stack[k]
      /\ Len(Append(s, x.val)) = n + 1 /\ Append(s, x.val)[n + 1] = x.val
      /\ \A k \in 1 .. n : Append(s, x.val)[k] = s[k]
  BY <1>1, <1>4
<1> HIDE DEF d, n
<1>6. ASSUME NEW k \in 1 .. n + 1 PROVE d.stack[k].val = Append(s, x.val)[k]
  <2>1. k = n + 1 \/ k \in 1 .. n
    BY <1>1
  <2> QED BY <1>1, <1>5, <2>1
<1>7. Stands(d, Append(s, x.val))
  BY <1>3, <1>4, <1>5, <1>6 DEF Stands, Runs
<1> QED BY <1>7 DEF d

LEMMA StandsPop ==
    ASSUME NEW c, NEW t \in Seq(Val), NEW x \in Val, Stands(c, Append(t, x))
    PROVE  Stands(Pop(c), t)
<1> DEFINE d == Pop(c)
           n == Len(t)
<1>1. /\ c \in State /\ c.skip = 0 /\ Len(c.stack) = n + 1 /\ n \in Nat
      /\ c.stack \in Seq(Slot)
      /\ \A k \in 1 .. n : c.stack[k].val = t[k]
  BY TopOf DEF Stands, Runs, State
<1>2. d = [c EXCEPT !.stack = SubSeq(c.stack, 1, n)]
  BY <1>1 DEF Pop
<1> HIDE DEF n
<1>3. /\ SubSeq(c.stack, 1, n) \in Seq(Slot) /\ Len(SubSeq(c.stack, 1, n)) = n
      /\ \A k \in 1 .. n : SubSeq(c.stack, 1, n)[k] = c.stack[k]
  BY <1>1
<1>4. d \in State /\ d.stack = SubSeq(c.stack, 1, n) /\ d.skip = 0
  BY <1>1, <1>2, <1>3 DEF State
<1> HIDE DEF d
<1>5. Stands(d, t)
  BY <1>1, <1>3, <1>4 DEF Stands, Runs, n
<1> QED BY <1>5 DEF d

LEMMA StandsWrite ==
    ASSUME NEW c, NEW s, Stands(c, s), NEW r \in Volatile, NEW v \in Val
    PROVE  Stands(Write(c, r, v), s)
BY DEF Stands, Write, State, Runs

\* A slot in a register
LEMMA RegSlot ==
    ASSUME NEW r \in Volatile, NEW v \in Val
    PROVE  InReg(r, v) \in Slot /\ InReg(r, v).val = v
BY SlotsAssumption DEF InReg, Slot, Kinds

\* Bringing a value to a register changes no value.
LEMMA HoldsEnsure ==
    ASSUME NEW c, NEW s, Holds(c, s), NEW k \in 1 .. Len(s), NEW D, D \subseteq Volatile, D # {}
    PROVE  LET d == EnsureReg(c, k, D) IN
           /\ Holds(d, s) /\ RegOf(d, k) \in D
           /\ s[k] # Junk => d.regs[RegOf(d, k)] = s[k]
<1> DEFINE d == EnsureReg(c, k, D)
<1>1. k \in 1 .. Len(c.stack) /\ Good(c)
  BY DEF Holds, Stands
<1>2. Good(d) /\ SameOperands(c, d) /\ UsesReg(d, k, D)
  BY <1>1, EnsureGood
<1> HIDE DEF d
<1>3. Holds(d, s)
  BY <1>2, HoldsSame
<1>4. k \in 1 .. Len(d.stack) /\ d.stack[k].val = s[k]
  BY <1>3 DEF Holds, Stands
<1>5. d.stack[k].kind = "reg" /\ d.stack[k].at \in D
  BY <1>2 DEF UsesReg
<1>6. s[k] # Junk => d.regs[d.stack[k].at] = s[k]
  BY <1>2, <1>4, <1>5, ContentIsVal DEF Content
<1> QED BY <1>3, <1>5, <1>6 DEF d, RegOf

\* Each operation on the values it works on
LEMMA HoldsExtend ==
    ASSUME NEW c, NEW t \in Seq(Val), NEW x \in Val, Holds(c, Append(t, x))
    PROVE  Holds(Extend(c), Append(t, x))
<1> DEFINE s == Append(t, x)
<1>1. Top(c) \in 1 .. Len(s)
  BY TopOf DEF Holds, Stands, Top
<1>2. Volatile \subseteq Volatile /\ Volatile # {}
  BY SlotsAssumption
<1> HIDE DEF s
<1>3. Holds(c, s)
  BY DEF s
<1>4. Holds(EnsureReg(c, Top(c), Volatile), s)
  BY <1>1, <1>2, <1>3, HoldsEnsure
<1> QED BY <1>4 DEF Extend, s

LEMMA HoldsLoad ==
    ASSUME NEW c, NEW s, Holds(c, s), NEW v \in Val
    PROVE  Holds(Load(c, v), Append(s, v))
<1> DEFINE a == AllocReg(c, Volatile)
           w == Write(a.cg, a.reg, v)
<1>1. a.reg \in Volatile /\ Good(a.cg) /\ SameOperands(c, a.cg)
  BY AllocGood, SlotsAssumption DEF Holds
<1>2. Load(c, v) = Push(w, InReg(a.reg, v))
  BY DEF Load
<1> HIDE DEF a
<1>3. Holds(a.cg, s)
  BY <1>1, HoldsSame
<1>4. Stands(w, s)
  BY <1>1, <1>3, StandsWrite DEF Holds
<1> HIDE DEF w
<1>5. Stands(Push(w, InReg(a.reg, v)), Append(s, InReg(a.reg, v).val))
  BY <1>1, <1>4, StandsPush, RegSlot
<1>6. Good(Load(c, v))
  BY LoadGood DEF Holds
<1> QED BY <1>1, <1>2, <1>5, <1>6, RegSlot DEF Holds

LEMMA HoldsPop ==
    ASSUME NEW c, NEW t \in Seq(Val), NEW x \in Val, Holds(c, Append(t, x))
    PROVE  Holds(Pop(c), t)
<1>1. Stands(Pop(c), t)
  BY StandsPop DEF Holds
<1>2. Len(c.stack) > 0
  BY TopOf DEF Holds, Stands
<1>3. Good(Pop(c))
  BY <1>2, PopGood DEF Holds
<1> QED BY <1>1, <1>3 DEF Holds

LEMMA HoldsSwap ==
    ASSUME NEW c, NEW t \in Seq(Val), NEW x \in Val, NEW y \in Val,
           Holds(c, Append(Append(t, x), y))
    PROVE  Holds(Swap(c), Append(Append(t, y), x))
<1> DEFINE d == Swap(c)
           n == Len(t)
           s == Append(Append(t, x), y)
           z == Append(Append(t, y), x)
<1>0. /\ s \in Seq(Val) /\ Len(s) = n + 2 /\ n \in Nat /\ s[n + 1] = x /\ s[n + 2] = y
      /\ \A k \in 1 .. n : s[k] = t[k]
  BY TopTwoOf
<1>00. /\ z \in Seq(Val) /\ Len(z) = n + 2 /\ z[n + 1] = y /\ z[n + 2] = x
       /\ \A k \in 1 .. n : z[k] = t[k]
  BY TopTwoOf
<1>a. Holds(c, s)
  OBVIOUS
<1> HIDE DEF s, z, n
<1>1. /\ c \in State /\ c.skip = 0 /\ c.stack \in Seq(Slot) /\ Len(c.stack) = n + 2
      /\ Top(c) = n + 2 /\ Over(c) = n + 1 /\ \A k \in 1 .. n + 2 : c.stack[k].val = s[k]
  BY <1>0, <1>a DEF Holds, Stands, State, Runs, Top, Over
<1>2. /\ d.stack = [[c.stack EXCEPT ![n + 2] = c.stack[n + 1]] EXCEPT ![n + 1] = c.stack[n + 2]]
      /\ d.skip = 0
  BY <1>1 DEF Swap, State
<1>3. /\ Len(d.stack) = n + 2
      /\ d.stack[n + 2] = c.stack[n + 1] /\ d.stack[n + 1] = c.stack[n + 2]
      /\ \A k \in 1 .. n : d.stack[k] = c.stack[k]
  BY <1>0, <1>1, <1>2
<1>4. Good(d)
  BY <1>0, <1>1, <1>a, SwapGood DEF Holds
<1> HIDE DEF d
<1>5. ASSUME NEW k \in 1 .. n + 2 PROVE d.stack[k].val = z[k]
  <2>1. k = n + 2 \/ k = n + 1 \/ k \in 1 .. n
    BY <1>0
  <2> QED BY <1>0, <1>00, <1>1, <1>3, <2>1
<1>6. Stands(d, z)
  BY <1>00, <1>3, <1>4, <1>5, Parts DEF Stands
<1> QED BY <1>4, <1>6 DEF Holds, d, z

LEMMA HoldsRot ==
    ASSUME NEW c, NEW t \in Seq(Val), NEW x \in Val, NEW y \in Val, NEW w \in Val,
           Holds(c, Append(Append(Append(t, x), y), w))
    PROVE  Holds(Rot(c), Append(Append(Append(t, y), w), x))
<1> DEFINE d == Rot(c)
           n == Len(t)
           s == Append(Append(Append(t, x), y), w)
           z == Append(Append(Append(t, y), w), x)
<1>0. /\ s \in Seq(Val) /\ Len(s) = n + 3 /\ n \in Nat /\ s[n + 1] = x /\ s[n + 2] = y /\ s[n + 3] = w
      /\ \A k \in 1 .. n : s[k] = t[k]
  BY TopThreeOf
<1>00. /\ z \in Seq(Val) /\ Len(z) = n + 3 /\ z[n + 1] = y /\ z[n + 2] = w /\ z[n + 3] = x
       /\ \A k \in 1 .. n : z[k] = t[k]
  BY TopThreeOf
<1>a. Holds(c, s)
  OBVIOUS
<1> HIDE DEF s, z, n
<1>1. /\ c \in State /\ c.skip = 0 /\ c.stack \in Seq(Slot) /\ Len(c.stack) = n + 3
      /\ Top(c) = n + 3 /\ Over(c) = n + 2 /\ Top(c) - 2 = n + 1
      /\ \A k \in 1 .. n + 3 : c.stack[k].val = s[k]
  BY <1>0, <1>a DEF Holds, Stands, State, Runs, Top, Over
<1>2. /\ d.stack = [[[c.stack EXCEPT ![n + 1] = c.stack[n + 2]]
                              EXCEPT ![n + 2] = c.stack[n + 3]]
                              EXCEPT ![n + 3] = c.stack[n + 1]]
      /\ d.skip = 0
  BY <1>1 DEF Rot, State
<1>4. Good(d)
  BY <1>0, <1>1, <1>a, RotGood DEF Holds
<1>3. /\ Len(d.stack) = n + 3
      /\ d.stack[n + 1] = c.stack[n + 2] /\ d.stack[n + 2] = c.stack[n + 3]
      /\ d.stack[n + 3] = c.stack[n + 1]
      /\ \A k \in 1 .. n : d.stack[k] = c.stack[k]
  <2> DEFINE e == [c.stack EXCEPT ![n + 1] = c.stack[n + 2]]
             f == [e EXCEPT ![n + 2] = c.stack[n + 3]]
             g == [f EXCEPT ![n + 3] = c.stack[n + 1]]
  <2>0. n + 1 \in 1 .. Len(c.stack) /\ n + 2 \in 1 .. Len(c.stack) /\ n + 3 \in 1 .. Len(c.stack)
        /\ n + 1 # n + 2 /\ n + 1 # n + 3 /\ n + 2 # n + 3
        /\ \A k \in 1 .. n : k \in 1 .. Len(c.stack) /\ k # n + 1 /\ k # n + 2 /\ k # n + 3
    BY <1>0, <1>1
  <2>1. DOMAIN c.stack = 1 .. Len(c.stack)
    BY <1>1
  <2>2. /\ DOMAIN e = 1 .. Len(c.stack) /\ e[n + 1] = c.stack[n + 2]
        /\ \A k \in 1 .. Len(c.stack) : k # n + 1 => e[k] = c.stack[k]
    BY <2>0, <2>1
  <2>3. d.stack = g
    BY <1>2
  <2> HIDE DEF e
  <2>4. /\ DOMAIN f = 1 .. Len(c.stack) /\ f[n + 2] = c.stack[n + 3]
        /\ \A k \in 1 .. Len(c.stack) : k # n + 2 => f[k] = e[k]
    BY <2>0, <2>2
  <2> HIDE DEF f
  <2>5. /\ DOMAIN g = 1 .. Len(c.stack) /\ g[n + 3] = c.stack[n + 1]
        /\ \A k \in 1 .. Len(c.stack) : k # n + 3 => g[k] = f[k]
    BY <2>0, <2>4
  <2> HIDE DEF g
  <2>6. Len(d.stack) = n + 3
    <3> HIDE DEF d
    <3>1. d.stack \in Seq(Slot) /\ DOMAIN d.stack = 1 .. n + 3
      BY <1>1, <1>4, <2>3, <2>5, Parts
    <3> QED BY <1>0, <3>1
  <2> QED BY <2>0, <2>2, <2>3, <2>4, <2>5, <2>6
<1> HIDE DEF d
<1>5. ASSUME NEW k \in 1 .. n + 3 PROVE d.stack[k].val = z[k]
  <2>1. k = n + 3 \/ k = n + 2 \/ k = n + 1 \/ k \in 1 .. n
    BY <1>0
  <2>2. CASE k \in 1 .. n
    BY <1>0, <1>00, <1>1, <1>3, <2>2
  <2>3. CASE k \in {n + 1, n + 2, n + 3}
    <3>1. n + 1 \in 1 .. n + 3 /\ n + 2 \in 1 .. n + 3 /\ n + 3 \in 1 .. n + 3
      BY <1>0
    <3> QED BY <1>0, <1>00, <1>1, <1>3, <2>3, <3>1
  <2> QED BY <2>1, <2>2, <2>3
<1>6. Stands(d, z)
  BY <1>00, <1>3, <1>4, <1>5, Parts DEF Stands
<1> QED BY <1>4, <1>6 DEF Holds, d, z

LEMMA HoldsDup ==
    ASSUME NEW c, NEW t \in Seq(Val), NEW x \in Val, Holds(c, Append(t, x))
    PROVE  Holds(Dup(c), Append(Append(t, x), x))
<1> DEFINE s == Append(t, x)
           n == Top(c)
           o == c.stack[n]
<1>0. s \in Seq(Val) /\ n \in 1 .. Len(s) /\ s[n] = x /\ n = Len(s)
  BY TopOf DEF Holds, Stands, Top
<1>1. Holds(c, s)
  OBVIOUS
<1> HIDE DEF s
<1>2. /\ Good(c) /\ Runs(c) /\ n \in 1 .. Len(c.stack) /\ c.stack \in Seq(Slot)
      /\ Stands(c, s) /\ o.val = x /\ Top(c) > 0
  BY <1>0, <1>1, Parts DEF Holds, Stands
<1>3. Good(Dup(c))
  BY <1>2, DupGood
<1>4. Content(c, o) \in Val /\ o \in Slot /\ (o.val # Junk => Content(c, o) = o.val)
  BY <1>2, ContentIsVal
<1>5. o.kind \in Kinds
  BY <1>4 DEF Slot
<1> HIDE DEF n, o
<1>6. CASE o.kind = "none"
  <2>1. Dup(c) = Push(c, Void)
    BY <1>6 DEF Dup, n, o
  <2>2. Void \in Slot /\ Void.val = Junk
    BY SlotsAssumption DEF Void, Slot, Kinds
  <2>3. x = Junk
    BY <1>2, <1>4, <1>6 DEF Content
  <2> QED BY <1>2, <2>1, <2>2, <2>3, StandsPush, <1>3 DEF Holds, s
<1>7. CASE o.kind = "reg"
  <2> DEFINE r == o.at
             D == Volatile \ {r}
             a == AllocReg(c, D)
             w == Write(a.cg, a.reg, c.regs[r])
  <2>1. r \in Volatile /\ UsesReg(c, n, Volatile)
    BY <1>2, <1>7 DEF o, Good, PlacesExist, UsesReg
  <2>2. EnsureReg(c, n, Volatile) = c
    BY <2>1 DEF EnsureReg
  <2>3. Dup(c) = Push(w, InReg(a.reg, o.val))
    BY <1>7, <2>2 DEF Dup, n, o, RegOf
  <2>4. D \subseteq Volatile /\ D # {}
    BY SlotsAssumption
  <2>6. c.regs[r] \in Val
    BY <1>2, <2>1, Parts
  <2> HIDE DEF D
  <2>5. a.reg \in Volatile /\ Good(a.cg) /\ SameOperands(c, a.cg)
    BY <1>2, <2>4, AllocGood
  <2> HIDE DEF a, r
  <2>7. Stands(a.cg, s)
    BY <1>1, <2>5, HoldsSame DEF Holds
  <2>8. Stands(w, s)
    BY <2>5, <2>6, <2>7, StandsWrite
  <2> HIDE DEF w
  <2>9. Stands(Push(w, InReg(a.reg, x)), Append(s, InReg(a.reg, x).val))
    BY <2>5, <2>8, RegSlot, StandsPush
  <2>10. Stands(Dup(c), Append(s, x))
    BY <1>2, <2>3, <2>5, <2>9, RegSlot
  <2> QED BY <1>3, <2>10 DEF Holds, s
<1>8. CASE o.kind = "scratch"
  <2> DEFINE v == Content(c, o)
             f == [c EXCEPT !.frame = Append(@, v)]
             m == AllocReg(f, Volatile)
             w == Write(m.cg, m.reg, v)
             p == InScratch(o.at, o.val)
  <2>1. Dup(c) = Push(w, p)
    BY <1>2, <1>8 DEF Dup, n, o
  <2>2. p = o
    BY <1>4, <1>8 DEF InScratch, Slot
  <2>3. v \in Val
    BY <1>4
  <2> HIDE DEF v, p
  <2>4. Good(f) /\ f.stack = c.stack
    BY <1>2, <2>3, FrameGood
  <2> HIDE DEF f
  <2>5. Holds(f, s)
    BY <1>1, <2>4, HoldsSame DEF SameOperands
  <2>6. m.reg \in Volatile /\ Good(m.cg) /\ SameOperands(f, m.cg)
    BY <2>4, SlotsAssumption, AllocGood
  <2> HIDE DEF m
  <2>7. Stands(w, s)
    BY <2>3, <2>5, <2>6, HoldsSame, StandsWrite DEF Holds
  <2> HIDE DEF w
  <2>8. Stands(Push(w, o), Append(s, x))
    BY <1>2, <1>4, <2>7, StandsPush
  <2> QED BY <1>3, <2>1, <2>2, <2>8 DEF Holds, s
<1> QED BY <1>5, <1>6, <1>7, <1>8 DEF Kinds

\* Writes to registers, then both operands go and a result comes.
LEMMA StandsResult ==
    ASSUME NEW w, NEW t \in Seq(Val), NEW x \in Val, NEW y \in Val,
           Stands(w, Append(Append(t, x), y)), NEW r \in Volatile, NEW v \in Val
    PROVE  Stands(Push(Pop(Pop(w)), InReg(r, v)), Append(t, v))
<1> DEFINE b == Pop(w)
           d == Pop(b)
<1>0. Append(t, x) \in Seq(Val)
  OBVIOUS
<1>1. Stands(b, Append(t, x))
  BY <1>0, StandsPop
<1> HIDE DEF b
<1>2. Stands(d, t)
  BY <1>1, StandsPop
<1> HIDE DEF d
<1>3. Stands(Push(d, InReg(r, v)), Append(t, InReg(r, v).val))
  BY <1>2, RegSlot, StandsPush
<1> QED BY <1>3, RegSlot DEF d, b

\* The two newest values
LEMMA TwoHeld ==
    ASSUME NEW c, NEW t \in Seq(Val), NEW x \in Val, NEW y \in Val,
           Stands(c, Append(Append(t, x), y))
    PROVE  /\ c.stack[Over(c)].val = x /\ c.stack[Top(c)].val = y
           /\ Len(c.stack) = Len(t) + 2 /\ Top(c) = Len(t) + 2 /\ Over(c) = Len(t) + 1
           /\ Over(c) \in 1 .. Len(c.stack) /\ Top(c) \in 1 .. Len(c.stack) /\ Over(c) # Top(c)
           /\ Len(c.stack) > 1 /\ Len(t) \in Nat
<1> DEFINE s == Append(Append(t, x), y)
           n == Len(t)
<1>0. /\ s \in Seq(Val) /\ Len(s) = n + 2 /\ n \in Nat /\ s[n + 1] = x /\ s[n + 2] = y
  BY TopTwoOf
<1>1. Stands(c, s)
  OBVIOUS
<1> HIDE DEF s
<1>2. /\ Len(c.stack) = n + 2 /\ c.stack[n + 1].val = x /\ c.stack[n + 2].val = y
  BY <1>0, <1>1 DEF Stands
<1> QED BY <1>0, <1>2 DEF Over, Top

\* Operators compute what Fn says of operands that are not junk.
LEMMA HoldsBinop ==
    ASSUME NEW c, NEW t \in Seq(Val), NEW x \in Val \ {Junk}, NEW y \in Val \ {Junk},
           Holds(c, Append(Append(t, x), y)), NEW op \in BinOps
    PROVE  Holds(Binop(c, op), Append(t, Fn(op, x, y)))
<1> DEFINE s == Append(Append(t, x), y)
           c1 == EnsureReg(c, Over(c), Volatile)
           l  == RegOf(c1, Over(c1))
           D  == Volatile \ {l}
           c2 == EnsureReg(c1, Top(c1), D)
           r  == RegOf(c2, Top(c2))
           z == Fn(op, c2.regs[l], c2.regs[r])
           w == Write(c2, l, z)
           v == Fn(op, c2.stack[Over(c2)].val, c2.stack[Top(c2)].val)
<1>1. Holds(c, s) /\ \A d : Holds(d, s) => Stands(d, Append(Append(t, x), y))
  BY DEF Holds
<1>2. Len(s) = Len(t) + 2 /\ Len(t) \in Nat
  BY TopTwoOf
<1> HIDE DEF s
<1>3. D \subseteq Volatile /\ D # {} /\ Volatile \subseteq Volatile /\ Volatile # {}
  BY SlotsAssumption
<1>4. Binop(c, op) = Push(Pop(Pop(w)), InReg(l, v))
  BY DEF Binop, Result
<1> HIDE DEF D
<1>5. Over(c) \in 1 .. Len(s) /\ c.stack[Over(c)].val = x /\ c.stack[Top(c)].val = y
      /\ Len(c.stack) > 1
  BY <1>1, <1>2, TwoHeld
<1>6. Holds(c1, s) /\ RegOf(c1, Over(c)) \in Volatile
  BY <1>1, <1>3, <1>5, HoldsEnsure
<1>7. Over(c1) = Over(c) /\ Top(c1) \in 1 .. Len(s) /\ l \in Volatile
  BY <1>1, <1>2, <1>6, TwoHeld
<1> HIDE DEF c1, l
<1>8. Holds(c2, s) /\ RegOf(c2, Top(c1)) \in D
  BY <1>3, <1>6, <1>7, HoldsEnsure
<1>9. Top(c2) = Top(c1) /\ c2.stack[Over(c2)].val = x /\ c2.stack[Top(c2)].val = y
  <2>1. Stands(c1, Append(Append(t, x), y)) /\ Stands(c2, Append(Append(t, x), y))
    BY <1>1, <1>6, <1>8
  <2>2. Top(c1) = Len(t) + 2
    BY <2>1, TwoHeld
  <2>3. Top(c2) = Len(t) + 2 /\ c2.stack[Over(c2)].val = x /\ c2.stack[Top(c2)].val = y
    BY <2>1, TwoHeld
  <2> QED BY <2>2, <2>3
<1>10. r \in Volatile
  BY <1>3, <1>8, <1>9
<1>11. c2.regs[l] \in Val /\ c2.regs[r] \in Val
  BY <1>7, <1>8, <1>10, Parts DEF Holds
<1>12. z \in Val /\ v = Fn(op, x, y) /\ v \in Val
  BY <1>9, <1>11, SlotsAssumption
<1> HIDE DEF c2, r, z, v
<1>13. Stands(w, s)
  BY <1>7, <1>8, <1>12, StandsWrite DEF Holds
<1> HIDE DEF w
<1>14. Stands(Binop(c, op), Append(t, v))
  BY <1>4, <1>7, <1>12, <1>13, StandsResult DEF s
<1>15. Good(Binop(c, op))
  BY <1>1, <1>5, BinopGood DEF Holds
<1> QED BY <1>12, <1>14, <1>15 DEF Holds

LEMMA HoldsShift ==
    ASSUME NEW c, NEW t \in Seq(Val), NEW x \in Val \ {Junk}, NEW y \in Val \ {Junk},
           Holds(c, Append(Append(t, x), y)), NEW op \in BinOps
    PROVE  Holds(Shift(c, op), Append(t, Fn(op, x, y)))
<1> DEFINE s == Append(Append(t, x), y)
           C  == {RCX}
           D  == Volatile \ {RCX}
           c1 == EnsureReg(c, Top(c), C)
           c2 == EnsureReg(c1, Over(c1), D)
           l  == RegOf(c2, Over(c2))
           z == Fn(op, c2.regs[l], c2.regs[RCX])
           w == Write(c2, l, z)
           v == Fn(op, c2.stack[Over(c2)].val, c2.stack[Top(c2)].val)
<1>1. Holds(c, s) /\ \A d : Holds(d, s) => Stands(d, Append(Append(t, x), y))
  BY DEF Holds
<1>2. Len(s) = Len(t) + 2 /\ Len(t) \in Nat
  BY TopTwoOf
<1> HIDE DEF s
<1>3. D \subseteq Volatile /\ D # {} /\ C \subseteq Volatile /\ C # {} /\ RCX \in Volatile
  BY SlotsAssumption
<1>4. Shift(c, op) = Push(Pop(Pop(w)), InReg(l, v))
  BY DEF Shift, Result
<1> HIDE DEF D, C
<1>5. Top(c) \in 1 .. Len(s) /\ c.stack[Over(c)].val = x /\ c.stack[Top(c)].val = y
      /\ Len(c.stack) > 1
  BY <1>1, <1>2, TwoHeld
<1>6. Holds(c1, s)
  BY <1>1, <1>3, <1>5, HoldsEnsure
<1>7. Over(c1) \in 1 .. Len(s)
  BY <1>1, <1>2, <1>6, TwoHeld
<1> HIDE DEF c1
<1>8. Holds(c2, s) /\ RegOf(c2, Over(c1)) \in D
  BY <1>3, <1>6, <1>7, HoldsEnsure
<1>9. Over(c2) = Over(c1) /\ c2.stack[Over(c2)].val = x /\ c2.stack[Top(c2)].val = y
  BY <1>1, <1>6, <1>8, TwoHeld
<1>10. l \in Volatile
  BY <1>3, <1>8, <1>9
<1>11. c2.regs[l] \in Val /\ c2.regs[RCX] \in Val
  BY <1>3, <1>8, <1>10, Parts DEF Holds
<1>12. z \in Val /\ v = Fn(op, x, y) /\ v \in Val
  BY <1>9, <1>11, SlotsAssumption
<1> HIDE DEF c2, l, z, v
<1>13. Stands(w, s)
  BY <1>8, <1>10, <1>12, StandsWrite DEF Holds
<1> HIDE DEF w
<1>14. Stands(Shift(c, op), Append(t, v))
  BY <1>4, <1>10, <1>12, <1>13, StandsResult DEF s
<1>15. Good(Shift(c, op))
  BY <1>1, <1>5, ShiftGood DEF Holds
<1> QED BY <1>12, <1>14, <1>15 DEF Holds

LEMMA HoldsDivide ==
    ASSUME NEW c, NEW t \in Seq(Val), NEW x \in Val \ {Junk}, NEW y \in Val \ {Junk},
           Holds(c, Append(Append(t, x), y)), NEW op \in {"div", "rem"}
    PROVE  Holds(Divide(c, op), Append(t, Fn(op, x, y)))
<1> DEFINE s == Append(Append(t, x), y)
           A  == {RAX}
           B  == {RDX}
           D  == Volatile \ {RAX, RDX}
           c1 == EnsureReg(c, Over(c), A)
           c2 == EnsureReg(c1, Top(c1), D)
           a  == AllocReg(c2, B)
           c3 == a.cg
           r  == RegOf(c3, Top(c3))
           quot == Fn("div", c3.regs[RAX], c3.regs[r])
           rem  == Fn("rem", c3.regs[RAX], c3.regs[r])
           v    == Fn(op, c3.stack[Over(c3)].val, c3.stack[Top(c3)].val)
           out  == IF op = "div" THEN RAX ELSE RDX
           w1   == Write(c3, RAX, quot)
           w2   == Write(w1, RDX, rem)
<1>1. Holds(c, s) /\ \A d : Holds(d, s) => Stands(d, Append(Append(t, x), y))
  BY DEF Holds
<1>2. Len(s) = Len(t) + 2 /\ Len(t) \in Nat
  BY TopTwoOf
<1> HIDE DEF s
<1>3. /\ D \subseteq Volatile /\ D # {} /\ RAX \notin D /\ RDX \notin D
      /\ A \subseteq Volatile /\ A # {} /\ \A q \in A : q = RAX
      /\ B \subseteq Volatile /\ B # {} /\ \A q \in B : q = RDX
      /\ RAX \notin B /\ RAX \in Volatile /\ RDX \in Volatile /\ RAX # RDX
  BY SlotsAssumption
<1>4. Divide(c, op) = Push(Pop(Pop(w2)), InReg(out, v))
  BY DEF Divide
<1> HIDE DEF A, B, D
<1>5. /\ Over(c) \in 1 .. Len(s) /\ Over(c) # Top(c) /\ Len(c.stack) > 1
      /\ c.stack[Over(c)].val = x /\ c.stack[Top(c)].val = y
      /\ Over(c) \in 1 .. Len(c.stack) /\ Top(c) \in 1 .. Len(c.stack)
  BY <1>1, <1>2, TwoHeld
<1>6. Holds(c1, s)
  BY <1>1, <1>3, <1>5, HoldsEnsure
<1>7. Top(c1) \in 1 .. Len(s) /\ Over(c1) = Over(c) /\ Top(c1) = Top(c)
  <2>1. Stands(c, Append(Append(t, x), y)) /\ Stands(c1, Append(Append(t, x), y))
    BY <1>1, <1>6
  <2> HIDE DEF c1
  <2>2. Top(c) = Len(t) + 2 /\ Over(c) = Len(t) + 1
    BY <2>1, TwoHeld
  <2>3. Top(c1) = Len(t) + 2 /\ Over(c1) = Len(t) + 1
    BY <2>1, TwoHeld
  <2> QED BY <1>2, <2>2, <2>3
<1>8. UsesReg(c1, Over(c), A)
  BY <1>1, <1>3, <1>5, EnsureGood DEF Holds
<1> HIDE DEF c1
<1>9. Holds(c2, s) /\ UsesReg(c2, Top(c), D)
  <2>1. Top(c1) \in 1 .. Len(c1.stack) /\ Good(c1)
    BY <1>6, <1>7 DEF Holds, Stands
  <2>2. UsesReg(c2, Top(c1), D)
    BY <1>3, <2>1, EnsureGood
  <2> QED BY <1>3, <1>6, <1>7, <2>2, HoldsEnsure
<1> HIDE DEF c2
<1>10. a.reg \in B /\ Good(c3) /\ SameOperands(c2, c3) /\ Spares(c2, c3, B)
  BY <1>3, <1>9, AllocGood DEF Holds
<1> HIDE DEF a
<1>11. Holds(c3, s)
  BY <1>9, <1>10, HoldsSame
<1>12. Top(c3) = Top(c) /\ c3.stack[Over(c3)].val = x /\ c3.stack[Top(c3)].val = y
       /\ Top(c) \in 1 .. Len(c2.stack)
  <2>1. /\ Stands(c, Append(Append(t, x), y)) /\ Stands(c2, Append(Append(t, x), y))
        /\ Stands(c3, Append(Append(t, x), y))
    BY <1>1, <1>9, <1>11
  <2> HIDE DEF c3
  <2>2. Top(c) = Len(t) + 2
    BY <2>1, TwoHeld
  <2>3. Top(c2) = Len(t) + 2 /\ Top(c2) \in 1 .. Len(c2.stack)
    BY <2>1, TwoHeld
  <2>4. Top(c3) = Len(t) + 2 /\ c3.stack[Over(c3)].val = x /\ c3.stack[Top(c3)].val = y
    BY <2>1, TwoHeld
  <2> QED BY <2>2, <2>3, <2>4
<1>13. r \in Volatile
  <2>1. c3.stack[Top(c)] = c2.stack[Top(c)]
    BY <1>3, <1>9, <1>10, <1>12 DEF Spares, UsesReg
  <2> QED BY <1>3, <1>9, <1>12, <2>1 DEF UsesReg, RegOf
<1> HIDE DEF c3, r
<1>14. c3.regs[RAX] \in Val /\ c3.regs[r] \in Val
  BY <1>3, <1>11, <1>13, Parts DEF Holds
<1>15. "div" \in BinOps /\ "rem" \in BinOps /\ op \in BinOps
  BY DEF BinOps
<1>16. quot \in Val /\ rem \in Val /\ v = Fn(op, x, y) /\ v \in Val
  BY <1>12, <1>14, <1>15, SlotsAssumption
<1> HIDE DEF quot, rem, v
<1>17. Stands(w1, s)
  BY <1>3, <1>11, <1>16, StandsWrite DEF Holds
<1> HIDE DEF w1
<1>18. Stands(w2, s)
  BY <1>3, <1>16, <1>17, StandsWrite
<1> HIDE DEF w2
<1>19. Stands(Divide(c, op), Append(t, v))
  <2>1. out \in Volatile
    BY <1>3
  <2> HIDE DEF out
  <2> QED BY <1>4, <1>16, <1>18, <2>1, StandsResult DEF s
<1>20. Good(Divide(c, op))
  BY <1>1, <1>5, DivideGood DEF Holds
<1> QED BY <1>16, <1>19, <1>20 DEF Holds

\* The newest value held
LEMMA TopHeld ==
    ASSUME NEW c, NEW t \in Seq(Val), NEW x \in Val, Stands(c, Append(t, x))
    PROVE  /\ c.stack[Top(c)].val = x /\ Top(c) = Len(t) + 1 /\ Len(c.stack) = Len(t) + 1
           /\ Top(c) \in 1 .. Len(c.stack) /\ Len(t) \in Nat /\ Top(c) > 0
           /\ Append(t, x) \in Seq(Val) /\ Len(Append(t, x)) = Len(t) + 1
           /\ Top(c) \in 1 .. Len(Append(t, x)) /\ Append(t, x)[Top(c)] = x
<1> DEFINE s == Append(t, x)
           n == Len(t)
<1>0. /\ s \in Seq(Val) /\ Len(s) = n + 1 /\ n \in Nat /\ s[n + 1] = x
  BY TopOf
<1>1. Stands(c, s)
  OBVIOUS
<1> HIDE DEF s
<1>2. /\ Len(c.stack) = n + 1 /\ c.stack[n + 1].val = x
  BY <1>0, <1>1 DEF Stands
<1> QED BY <1>0, <1>2 DEF Top, s

LEMMA StandsRefill ==
    ASSUME NEW w, NEW t \in Seq(Val), NEW x \in Val, Stands(w, Append(t, x)), NEW v \in Val
    PROVE  Stands([w EXCEPT !.stack[Len(t) + 1].val = v], Append(t, v))
<1> DEFINE n == Len(t) + 1
           q == [w.stack[n] EXCEPT !.val = v]
           st == [w.stack EXCEPT ![n] = q]
           d == [w EXCEPT !.stack = st]
           s == Append(t, x)
           z == Append(t, v)
<1>0. /\ s \in Seq(Val) /\ Len(s) = n /\ n \in Nat /\ n >= 1 /\ s[n] = x
      /\ \A k \in 1 .. n - 1 : s[k] = t[k]
      /\ z \in Seq(Val) /\ Len(z) = n /\ z[n] = v /\ \A k \in 1 .. n - 1 : z[k] = t[k]
  BY TopOf
<1>a. Stands(w, s)
  OBVIOUS
<1> HIDE DEF s, z, n
<1>1. /\ w \in State /\ w.skip = 0 /\ w.stack \in Seq(Slot) /\ Len(w.stack) = n
      /\ \A k \in 1 .. n : w.stack[k].val = s[k]
  BY <1>0, <1>a DEF Stands, State, Runs
<1>2. w.stack[n] \in Slot
  BY <1>0, <1>1
<1>3. q \in Slot /\ q.val = v
  BY <1>2 DEF Slot
<1> HIDE DEF q
<1>4. st \in Seq(Slot) /\ Len(st) = n /\ st[n] = q /\ \A k \in 1 .. n - 1 : st[k] = w.stack[k]
  BY <1>0, <1>1, <1>3
<1>5. [w EXCEPT !.stack[n].val = v] = d
  BY <1>1 DEF State, q
<1> HIDE DEF st
<1>6. d \in State /\ d.stack = st /\ d.skip = 0
  BY <1>1, <1>4 DEF State
<1> HIDE DEF d
<1>7. ASSUME NEW k \in 1 .. n PROVE d.stack[k].val = z[k]
  <2>1. CASE k = n
    BY <1>0, <1>3, <1>4, <1>6, <2>1
  <2>2. CASE k \in 1 .. n - 1
    BY <1>0, <1>1, <1>4, <1>6, <2>2
  <2> QED BY <1>0, <2>1, <2>2
<1>8. Stands(d, z)
  BY <1>0, <1>4, <1>6, <1>7 DEF Stands, Runs
<1> QED BY <1>5, <1>8 DEF z, n

\* A pointer to a variable is replaced by what the variable holds.
LEMMA HoldsDeref ==
    ASSUME NEW c, NEW t \in Seq(Val), NEW x \in Val \ {Junk}, Holds(c, Append(t, x)),
           NEW A, NEW m \in [A -> Val], x \in A
    PROVE  Holds(Deref(c, m, m), Append(t, m[x]))
<1> DEFINE e == EnsureReg(c, Top(c), Volatile)
           r == RegOf(e, Top(e))
           p == e.stack[Top(e)].val
           loaded == IF e.regs[r] \in DOMAIN m THEN m[e.regs[r]] ELSE Junk
           w == Write(e, r, loaded)
           s == Append(t, x)
<1>1. Stands(c, Append(t, x)) /\ Good(c) /\ Runs(c)
  BY Parts DEF Holds
<1>2. /\ c.stack[Top(c)].val = x /\ Top(c) > 0
      /\ s \in Seq(Val) /\ Len(s) = Len(t) + 1 /\ Top(c) \in 1 .. Len(s) /\ s[Top(c)] = x
  BY <1>1, TopHeld
<1>a. Holds(c, s) /\ \A d : Holds(d, s) => Stands(d, Append(t, x))
  BY DEF Holds
<1> HIDE DEF s
<1>3. Volatile \subseteq Volatile /\ Volatile # {}
  BY SlotsAssumption
<1>4. Holds(e, s) /\ RegOf(e, Top(c)) \in Volatile
  BY <1>2, <1>3, <1>a, HoldsEnsure
<1>5. Deref(c, m, m) = [w EXCEPT !.stack[Top(e)].val =
                           IF Runs(c) /\ p \in DOMAIN m THEN m[p] ELSE Junk]
  BY DEF Deref
<1> HIDE DEF e
<1>6. p = x /\ Top(e) = Len(t) + 1 /\ Top(e) = Top(c)
  <2>1. Stands(e, Append(t, x))
    BY <1>4, <1>a
  <2> QED BY <1>1, <2>1, TopHeld
<1>7. loaded \in Val /\ r \in Volatile
  BY <1>4, <1>6, SlotsAssumption
<1> HIDE DEF loaded, r
<1>8. Stands(w, s)
  BY <1>4, <1>7, StandsWrite DEF Holds
<1>9. m[x] \in Val
  OBVIOUS
<1>10. Deref(c, m, m) = [w EXCEPT !.stack[Len(t) + 1].val = m[x]]
  BY <1>1, <1>5, <1>6
<1> HIDE DEF w
<1>11. Stands(Deref(c, m, m), Append(t, m[x]))
  BY <1>8, <1>9, <1>10, StandsRefill DEF s
<1>12. Good(Deref(c, m, m))
  BY <1>1, <1>2, DerefGood
<1> QED BY <1>11, <1>12 DEF Holds

Assigns(c, m, x, y) == Stored(StoreOperands(c), m) = [m EXCEPT ![x] = y]

\* The value is stored where the pointer under it points.
LEMMA HoldsStore ==
    ASSUME NEW c, NEW t \in Seq(Val), NEW x \in Val \ {Junk}, NEW y \in Val \ {Junk},
           Holds(c, Append(Append(t, x), y)), NEW A, NEW m \in [A -> Val], x \in A
    PROVE  /\ Holds(Pop(Pop(StoreOperands(c))), t)
           /\ Assigns(c, m, x, y)
<1> DEFINE s  == Append(Append(t, x), y)
           e  == EnsureReg(c, Top(c), Volatile)
           D  == Volatile \ {RegOf(e, Top(e))}
           f  == EnsureReg(e, Over(e), D)
           g  == Pop(f)
<1>1. Holds(c, s) /\ \A d : Holds(d, s) => Stands(d, Append(Append(t, x), y))
  BY DEF Holds
<1>2. Len(s) = Len(t) + 2 /\ Len(t) \in Nat
  BY TopTwoOf
<1> HIDE DEF s
<1>3. D \subseteq Volatile /\ D # {} /\ Volatile \subseteq Volatile /\ Volatile # {}
  BY SlotsAssumption
<1>4. StoreOperands(c) = f
  BY DEF StoreOperands
<1> HIDE DEF D
<1>5. Top(c) \in 1 .. Len(s) /\ c.stack[Over(c)].val = x /\ c.stack[Top(c)].val = y
      /\ Len(c.stack) > 1
  BY <1>1, <1>2, TwoHeld
<1>6. Holds(e, s)
  BY <1>1, <1>3, <1>5, HoldsEnsure
<1>7. Over(e) \in 1 .. Len(s)
  BY <1>1, <1>2, <1>6, TwoHeld
<1> HIDE DEF e
<1>8. Holds(f, s)
  BY <1>3, <1>6, <1>7, HoldsEnsure
<1> HIDE DEF f
<1>9. Stands(f, Append(Append(t, x), y)) /\ Append(t, x) \in Seq(Val)
  BY <1>1, <1>8
<1>10. Stands(g, Append(t, x))
  BY <1>9, StandsPop
<1> HIDE DEF g
<1>11. Stands(Pop(g), t)
  BY <1>10, StandsPop
<1>12. /\ Good(Pop(Pop(StoreOperands(c))))
       /\ Stored(StoreOperands(c), m) = [m EXCEPT ![c.stack[Over(c)].val] = c.stack[Top(c)].val]
  BY <1>1, <1>5, StoreGood DEF Holds
<1>13. Stored(StoreOperands(c), m) = [m EXCEPT ![x] = y]
  BY <1>5, <1>12
<1>14. Assigns(c, m, x, y)
  BY <1>13 DEF Assigns
<1> QED BY <1>4, <1>11, <1>12, <1>14 DEF Holds, g

\* p is the callee and n arguments, those of w.
Passes(p, n, w) == p = [j \in 0 .. n |-> w[j + 1]]
Arguments(p, n) == [j \in 1 .. n |-> p[j]]

\* The callee and the arguments go, the result comes.
LEMMA HoldsCall ==
    ASSUME NEW c, NEW t \in Seq(Val), NEW w \in Seq(Val \ {Junk}), NEW n \in Nat, Len(w) = n + 1,
           Holds(c, t \o w), NEW result \in Val, NEW void \in BOOLEAN
    PROVE  /\ Holds(Call(c, n, result, void), Append(t, IF void THEN Junk ELSE result))
           /\ Passes(Passed(c, n), n, w)
<1> DEFINE s == t \o w
           a == Len(t)
           f == Flush(c)
           st == SubSeq(f.stack, 1, Len(f.stack) - n - 1)
           rest == [f EXCEPT !.stack = st]
           rg == [r \in Volatile |-> IF r = RAX /\ ~void THEN result ELSE Junk]
           back == [rest EXCEPT !.regs = rg]
           v == IF void THEN Junk ELSE result
           x == IF void THEN Void ELSE InReg(RAX, result)
<1>1. Holds(c, s) /\ Good(c) /\ Stands(c, s) /\ Runs(c)
  BY Parts DEF Holds
<1>2. w \in Seq(Val) /\ a \in Nat
  OBVIOUS
<1>3. /\ s \in Seq(Val) /\ Len(s) = a + n + 1
      /\ \A k \in 1 .. a : s[k] = t[k]
      /\ \A j \in 0 .. n : s[a + j + 1] = w[j + 1] /\ w[j + 1] # Junk
  <2>1. \A j \in 0 .. n : j + 1 \in 1 .. Len(w)
    OBVIOUS
  <2>2. \A j \in 0 .. n : w[j + 1] # Junk
    BY <2>1
  <2>3. s \in Seq(Val) /\ Len(s) = a + Len(w) /\ \A k \in 1 .. a + Len(w) : s[k] = IF k <= a THEN t[k] ELSE w[k - a]
    BY <1>2
  <2> HIDE DEF s, a
  <2> QED BY <1>2, <2>1, <2>2, <2>3
<1> HIDE DEF s
<1>4. Len(c.stack) = a + n + 1 /\ Top(c) = a + n + 1 /\ \A k \in 1 .. a + n + 1 : c.stack[k].val = s[k]
  BY <1>1, <1>3 DEF Stands, Top
<1>5. n \in 0 .. Top(c) - 1
  BY <1>2, <1>4
<1>6. ASSUME NEW j \in 0 .. n PROVE c.stack[Top(c) - n + j].val = w[j + 1]
  <2>1. Top(c) - n + j = a + j + 1 /\ a + j + 1 \in 1 .. a + n + 1
    BY <1>2, <1>4
  <2> QED BY <1>3, <1>4, <2>1
<1>7. Passed(c, n) = [j \in 0 .. n |-> w[j + 1]]
  <2>1. \A j \in 0 .. n : c.stack[Top(c) - n + j].val # Junk
    BY <1>3, <1>6
  <2>2. Passed(c, n) = [j \in 0 .. n |-> c.stack[Top(c) - n + j].val]
    BY <1>1, <1>5, <2>1, PassedMeant
  <2> QED BY <1>6, <2>2
<1>a. Passes(Passed(c, n), n, w)
  BY <1>7 DEF Passes
<1>8. Good(Call(c, n, result, void))
  BY <1>1, <1>5, CallGood
<1>9. Call(c, n, result, void) = Push(back, x)
  BY <1>1 DEF Call
<1>10. Good(f) /\ SameOperands(c, f)
  BY <1>1, FlushGood
<1>11. Holds(f, s)
  BY <1>1, <1>10, HoldsSame
<1> HIDE DEF f
<1>12. /\ f \in State /\ f.skip = 0 /\ f.stack \in Seq(Slot) /\ Len(f.stack) = a + n + 1
       /\ \A k \in 1 .. a + n + 1 : f.stack[k].val = s[k]
  BY <1>3, <1>11, Parts DEF Holds, Stands
<1>13. Len(f.stack) - n - 1 = a /\ a <= Len(f.stack)
  BY <1>2, <1>12
<1> HIDE DEF a
<1>14. st \in Seq(Slot) /\ Len(st) = a /\ \A k \in 1 .. a : st[k] = f.stack[k]
  BY <1>2, <1>12, <1>13
<1>15. rg \in [Volatile -> Val]
  BY SlotsAssumption
<1> HIDE DEF st, rg
<1>16. back \in State /\ back.stack = st /\ back.skip = 0
  BY <1>12, <1>14, <1>15 DEF State
<1> HIDE DEF back
<1>17. Stands(back, t)
  <2>1. \A k \in 1 .. a : k \in 1 .. a + n + 1
    BY <1>2
  <2> QED BY <1>2, <1>3, <1>12, <1>14, <1>16, <2>1 DEF Stands, Runs, a
<1>18. x \in Slot /\ x.val = v
  <2>1. Void \in Slot /\ Void.val = Junk
    BY SlotsAssumption DEF Void, Slot, Kinds
  <2>2. InReg(RAX, result) \in Slot /\ InReg(RAX, result).val = result
    BY RegSlot, SlotsAssumption
  <2> QED BY <2>1, <2>2
<1> HIDE DEF x, v
<1>19. Stands(Push(back, x), Append(t, v))
  BY <1>17, <1>18, StandsPush
<1> QED BY <1>a, <1>8, <1>9, <1>19 DEF Holds, v

\* What the callee gets is what was on the stack.
LEMMA Handed ==
    ASSUME NEW S, NEW w \in Seq(S), NEW n \in Nat, Len(w) = n + 1, NEW p,
           Passes(p, n, w)
    PROVE  Arguments(p, n) = Tail(w) /\ <<p[0]>> \o Arguments(p, n) = w
<1>1. p[0] = w[1] /\ \A j \in 1 .. n : p[j] = w[j + 1]
  BY DEF Passes
<1>2. Tail(w) \in Seq(S) /\ Len(Tail(w)) = n /\ \A j \in 1 .. n : Tail(w)[j] = w[j + 1]
  OBVIOUS
<1>3. [j \in 1 .. n |-> p[j]] = Tail(w)
  <2> DEFINE u == Tail(w)
             v == [j \in 1 .. n |-> p[j]]
  <2>1. u \in Seq(S) /\ Len(u) = n /\ \A j \in 1 .. n : u[j] = p[j]
    BY <1>1, <1>2
  <2> HIDE DEF u
  <2>2. u = [j \in 1 .. n |-> u[j]]
    BY <2>1
  <2>3. v = [j \in 1 .. n |-> u[j]]
    BY <2>1
  <2> QED BY <2>2, <2>3 DEF u
<1>4. <<w[1]>> \o Tail(w) = w
  <2> DEFINE z == <<w[1]>> \o Tail(w)
  <2>1. w[1] \in S
    OBVIOUS
  <2>2. z \in Seq(S) /\ Len(z) = Len(w) /\ \A j \in 1 .. Len(w) : z[j] = w[j]
    BY <1>2, <2>1
  <2> HIDE DEF z
  <2>3. z = w
    BY <2>2
  <2> QED BY <2>3 DEF z
<1> QED BY <1>1, <1>3, <1>4 DEF Arguments

\* A single value held
LEMMA OneHeld ==
    ASSUME NEW c, NEW x \in Val, Stands(c, <<x>>)
    PROVE  Top(c) = 1 /\ Len(c.stack) = 1 /\ c.stack[1].val = x
<1>1. Len(<<x>>) = 1 /\ <<x>>[1] = x
  OBVIOUS
<1> QED BY <1>1 DEF Stands, Top

\* A branch on x: the code runs on, or has jumped, with x left in a register.
LEMMA HoldsBranch ==
    ASSUME NEW c, NEW x \in Val \ {Junk}, Holds(c, <<x>>), NEW onZero, NEW zero, NEW label \in Nat
    PROVE  LET d == BranchSavingReg(c, onZero, zero, label) IN
           /\ BranchReg(c) \in Volatile
           /\ ~(onZero <=> x = zero) => Holds(d, <<>>)
           /\ (onZero <=> x = zero) =>
                 /\ d.skip = label /\ Len(d.stack) = 0 /\ d.frame \in Seq(Val)
                 /\ d.regs \in [Volatile -> Val] /\ d.regs[BranchReg(c)] = x
<1> DEFINE e == EnsureReg(c, Top(c), Volatile)
           b == Pop(e)
           r == RegOf(e, Top(e))
           s == <<x>>
           d == BranchSavingReg(c, onZero, zero, label)
<1>0. s = Append(<<>>, x) /\ <<>> \in Seq(Val) /\ Len(<<>>) = 0 /\ s \in Seq(Val)
  OBVIOUS
<1>1. Stands(c, s) /\ Holds(c, s) /\ Runs(c)
  BY Parts DEF Holds
<1>2. Top(c) \in 1 .. Len(s) /\ Top(c) = 1 /\ s[Top(c)] = x
  <2>1. Top(c) = 1
    BY <1>1, OneHeld
  <2> QED BY <2>1
<1>a. \A g : Holds(g, s) => Top(g) = 1 /\ Holds(g, Append(<<>>, x))
  BY <1>0, OneHeld DEF Holds
<1> HIDE DEF s
<1>3. Volatile \subseteq Volatile /\ Volatile # {}
  BY SlotsAssumption
<1>4. Holds(e, s) /\ RegOf(e, Top(c)) \in Volatile /\ e.regs[RegOf(e, Top(c))] = x
  BY <1>1, <1>2, <1>3, HoldsEnsure
<1>5. BranchReg(c) = RegOf(e, Top(c))
  BY DEF BranchReg
<1>6. d = [b EXCEPT !.skip = IF Runs(c) /\ (onZero <=> e.regs[r] = zero) THEN label ELSE b.skip]
  BY DEF BranchSavingReg
<1> HIDE DEF e
<1>7. Top(e) = 1
  BY <1>4, <1>a
<1>8. Holds(b, <<>>) /\ b.regs = e.regs
  <2>1. Holds(b, <<>>)
    BY <1>0, <1>4, <1>a, HoldsPop
  <2>2. e \in State
    BY <1>4, Parts DEF Holds
  <2> QED BY <2>1, <2>2 DEF Pop, State
<1>9. /\ b \in State /\ b.skip = 0 /\ b.stack \in Seq(Slot) /\ b.frame \in Seq(Val) /\ Len(b.stack) = 0
      /\ b.regs \in [Volatile -> Val]
  BY <1>8, <1>0, Parts DEF Holds, Stands
<1> HIDE DEF b
<1>10. d = [b EXCEPT !.skip = IF (onZero <=> x = zero) THEN label ELSE 0]
  BY <1>1, <1>2, <1>4, <1>6, <1>7, <1>9
<1>11. ~(onZero <=> x = zero) => d = b
  BY <1>9, <1>10 DEF State
<1>12. (onZero <=> x = zero) => /\ d.skip = label /\ d.stack = b.stack /\ d.frame = b.frame
                                /\ d.regs = b.regs
  BY <1>9, <1>10 DEF State
<1> HIDE DEF d
<1> QED BY <1>4, <1>5, <1>8, <1>9, <1>11, <1>12 DEF d

\* Code that was jumped over leaves its value in the register of the test.
LEMMA EnsureOne ==
    ASSUME NEW c, Whole(c), Len(c.stack) = 1, c.skip # 0, NEW r \in Volatile
    PROVE  LET e == EnsureReg(c, 1, {r}) IN
           e.stack[1].kind = "reg" /\ e.stack[1].at = r
<1> DEFINE D == {r}
           e == EnsureReg(c, 1, D)
           a == AllocReg(c, D)
           m == [c EXCEPT !.stack[1] = InReg(r, c.stack[1].val)]
<1>0. r \in Nat
  BY SlotsAssumption
<1>1. CASE UsesReg(c, 1, D)
  BY <1>1 DEF EnsureReg, UsesReg
<1>2. CASE ~UsesReg(c, 1, D)
  <2>2. a.cg = c /\ a.reg = r
    <3>1. r \notin Occupied(c)
      <4>1. \A k \in 1 .. Len(c.stack) : k = 1
        OBVIOUS
      <4> QED BY <1>2, <4>1 DEF Occupied, UsesReg
    <3>2. ~(D \subseteq Occupied(c)) /\ D \ Occupied(c) = {r}
      BY <3>1
    <3>3. Lowest({r}) = r
      BY <1>0 DEF Lowest
    <3> QED BY <3>2, <3>3 DEF AllocReg
  <2>3. m.stack[1] = InReg(r, c.stack[1].val)
    <3>2. DOMAIN c.stack = 1 .. Len(c.stack)
      BY DEF Whole, IsStack
    <3>3. c = [stack |-> c.stack, frame |-> c.frame, regs |-> c.regs, skip |-> c.skip]
      BY DEF Whole
    <3>4. m.stack = [c.stack EXCEPT ![1] = InReg(r, c.stack[1].val)]
      BY <3>3
    <3>5. 1 \in DOMAIN c.stack
      BY <3>2
    <3> HIDE DEF m
    <3> QED BY <3>4, <3>5
  <2>4. m.skip # 0
    <3>1. c = [stack |-> c.stack, frame |-> c.frame, regs |-> c.regs, skip |-> c.skip]
      BY DEF Whole
    <3> QED BY <3>1
  <2>5. e = Write([a.cg EXCEPT !.stack[1] = InReg(a.reg, a.cg.stack[1].val)], a.reg, Content(c, c.stack[1]))
    BY <1>2 DEF EnsureReg
  <2>6. e = Write(m, r, Content(c, c.stack[1]))
    <3> HIDE DEF a, e
    <3> QED BY <2>2, <2>5
  <2>7. e = m
    <3> HIDE DEF m, e
    <3> QED BY <2>4, <2>6 DEF Write, Runs
  <2> HIDE DEF m, e
  <2> QED BY <2>3, <2>7 DEF InReg, e
<1> QED BY <1>1, <1>2

\* Where a jump lands, the value tested is in the one slot there is.
LEMMA HoldsLanding ==
    ASSUME NEW c, Whole(c), Len(c.stack) = 1, c.skip # 0, c.frame \in Seq(Val),
           c.regs \in [Volatile -> Val], NEW r \in Volatile, NEW v \in Val, c.regs[r] = v
    PROVE  LET e == EnsureReg(c, Top(c), {r}) IN
           Holds([e EXCEPT !.skip = 0, !.stack[Top(e)].val = v], <<v>>)
<1> DEFINE e == EnsureReg(c, 1, {r})
           d == [e EXCEPT !.skip = 0, !.stack[Top(e)].val = v]
           q == InReg(r, v)
<1>1. Same(c, e)
  BY SameEnsure
<1>2. e.stack[1].kind = "reg" /\ e.stack[1].at = r
  BY EnsureOne
<1> HIDE DEF e
<1>3. /\ Whole(e) /\ Len(e.stack) = 1 /\ e.regs = c.regs /\ e.frame \in Seq(Val)
      /\ Top(e) = 1 /\ Top(c) = 1
  BY <1>1 DEF Same, Sized, Top
<1>4. e.stack = <<e.stack[1]>> /\ IsSlot(e.stack[1])
  <2>1. PICK S : e.stack \in Seq(S)
    BY <1>3 DEF Whole, IsStack
  <2>2. e.stack = <<e.stack[1]>>
    BY <1>3, <2>1
  <2> QED BY <1>3, <2>2, LenNat
<1>5. [e.stack[1] EXCEPT !.val = v] = q
  <2>1. PICK k, b, w : k \in Kinds /\ e.stack[1] = [kind |-> k, at |-> b, val |-> w]
    BY <1>4 DEF IsSlot
  <2>2. k = "reg" /\ b = r
    BY <1>2, <2>1
  <2> QED BY <2>1, <2>2 DEF InReg
<1>6. d.stack = <<q>> /\ d.frame = e.frame /\ d.regs = e.regs /\ d.skip = 0
      /\ d = [stack |-> <<q>>, frame |-> e.frame, regs |-> e.regs, skip |-> 0]
  <2>1. e = [stack |-> e.stack, frame |-> e.frame, regs |-> e.regs, skip |-> e.skip]
    BY <1>3 DEF Whole
  <2>2. d = [e EXCEPT !.skip = 0, !.stack[1].val = v]
    BY <1>3
  <2>3. [e.stack EXCEPT ![1].val = v] = [e.stack EXCEPT ![1] = q]
    BY <1>4, <1>5
  <2>4. [e.stack EXCEPT ![1] = q] = <<q>>
    <3> HIDE DEF q
    <3> QED BY <1>4
  <2>5. d.stack = [e.stack EXCEPT ![1].val = v] /\ d.frame = e.frame /\ d.regs = e.regs /\ d.skip = 0
        /\ d = [stack |-> [e.stack EXCEPT ![1].val = v], frame |-> e.frame, regs |-> e.regs, skip |-> 0]
    <3> DEFINE z == [e EXCEPT !.skip = 0]
    <3>1. z = [stack |-> e.stack, frame |-> e.frame, regs |-> e.regs, skip |-> 0]
      BY <2>1
    <3>2. d = [z EXCEPT !.stack[1].val = v]
      BY <2>2
    <3>3. z.stack = e.stack
      BY <3>1
    <3> DEFINE st == [e.stack EXCEPT ![1].val = v]
    <3>4. d = [z EXCEPT !.stack = st]
      BY <3>2, <3>3
    <3> HIDE DEF d, z, st
    <3>5. d = [stack |-> st, frame |-> e.frame, regs |-> e.regs, skip |-> 0]
      BY <3>1, <3>4
    <3> QED BY <3>5 DEF st
  <2> HIDE DEF d, q
  <2> QED BY <2>3, <2>4, <2>5
<1>7. q \in Slot /\ q.val = v /\ q.kind = "reg" /\ q.at = r
  BY SlotsAssumption DEF InReg, Slot, Kinds
<1> HIDE DEF q, d
<1>8. d.stack \in Seq(Slot) /\ Len(d.stack) = 1 /\ d.stack[1] = q
  BY <1>6, <1>7
<1>9. d \in State
  BY <1>3, <1>6, <1>8 DEF State
<1>10. \A k \in 1 .. Len(d.stack) : k = 1
  BY <1>8
<1>11. Good(d)
  <2>1. RegistersDistinct(d)
    BY <1>10 DEF RegistersDistinct
  <2>2. PlacesExist(d)
    BY <1>7, <1>8, <1>10 DEF PlacesExist
  <2>3. PlacesHold(d)
    BY <1>3, <1>6, <1>7, <1>8, <1>10 DEF PlacesHold, Content
  <2> QED BY <1>6, <1>9, <2>1, <2>2, <2>3 DEF Good, Runs
<1>12. Stands(d, <<v>>)
  <2>1. <<v>> \in Seq(Val) /\ Len(<<v>>) = 1 /\ <<v>>[1] = v
    OBVIOUS
  <2> QED BY <1>6, <1>7, <1>8, <1>9, <1>10, <2>1 DEF Stands, Runs
<1> QED BY <1>3, <1>11, <1>12 DEF Holds, d, e
===============================================================================
