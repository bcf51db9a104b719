-------------------------- MODULE Function_proofs --------------------------
(***************************************************************************)
(* Proofs about what is compiled for a function: its stack frame (Frame)   *)
(* and the code of its body (StmtCompile).                                 *)
(***************************************************************************)
EXTENDS Frame, StmtCompile, SequenceTheorems, TLAPS

-----------------------------------------------------------------------------
(* Frame, for every set of object types, every parameter list and all four *)
(* targets.  The key is that num_local_bytes is a watermark: every object  *)
(* lies between the bytes the interface reserves and the bytes in use, on  *)
(* the side the frame grows to, and every new object is placed beyond all  *)
(* older ones.                                                             *)


\* Objects are placed beyond the reserved bytes and within the bytes in use.
WithinMark(i) ==
    IF target.up
    THEN FrameOffset <= i.at /\ i.at + i.size <= bytes
    ELSE -bytes <= i.at /\ i.at + i.size <= -FrameOffset

Bounded == \A k \in 1 .. Len(items) : WithinMark(items[k])

\* Of two objects the newer is the further from the reserved bytes.
Ordered ==
    \A j, k \in 1 .. Len(items) :
        j < k => IF target.up THEN Before(items[j], items[k])
                              ELSE Before(items[k], items[j])

\* Offsets are multiples of the alignments sizes are multiples of.
OffsetsAligned ==
    \A k \in 1 .. Len(items) :
        items[k].size % items[k].align = 0 => items[k].at % items[k].align = 0

IndInv == TypeOK /\ FrameOffset <= bytes /\ Bounded /\ Ordered /\ OffsetsAligned

\* The assumptions as facts about one target.
LEMMA TargetCases ==
    ASSUME TypeOK
    PROVE  /\ target \in {X86_64, I686, Riscv64, Aarch64}
           /\ target.up \in BOOLEAN
           /\ X86_64 # I686 /\ X86_64 # Riscv64 /\ X86_64 # Aarch64
           /\ I686 # Riscv64 /\ I686 # Aarch64 /\ Riscv64 # Aarch64
<1>1. target \in {X86_64, I686, Riscv64, Aarch64}
  BY FrameAssumption DEF TypeOK
<1>2. /\ X86_64.name = "x86_64" /\ I686.name = "i686"
      /\ Riscv64.name = "riscv64" /\ Aarch64.name = "aarch64"
      /\ X86_64.up = FALSE /\ I686.up = FALSE
      /\ Riscv64.up = FALSE /\ Aarch64.up = TRUE
  BY DEF X86_64, I686, Riscv64, Aarch64
<1>3. /\ X86_64 # I686 /\ X86_64 # Riscv64 /\ X86_64 # Aarch64
      /\ I686 # Riscv64 /\ I686 # Aarch64 /\ Riscv64 # Aarch64
  BY <1>2
<1> QED BY <1>1, <1>2, <1>3

\* Rounding up to a power of two never rounds down.
LEMMA AlignUpBounds ==
    ASSUME NEW x \in Nat, NEW a \in Alignments
    PROVE  /\ AlignUp(x, a) \in Nat
           /\ x <= AlignUp(x, a)
           /\ AlignUp(x, a) % a = 0
<1>1. CASE a = 1  BY <1>1 DEF AlignUp
<1>2. CASE a = 2  BY <1>2 DEF AlignUp
<1>3. CASE a = 4  BY <1>3 DEF AlignUp
<1>4. CASE a = 8  BY <1>4 DEF AlignUp
<1>5. CASE a = 16 BY <1>5 DEF AlignUp
<1> QED BY <1>1, <1>2, <1>3, <1>4, <1>5 DEF Alignments

\* Sums and differences of multiples are multiples.
LEMMA Multiples ==
    ASSUME NEW a \in Alignments, NEW x \in Int, NEW y \in Int,
           x % a = 0, y % a = 0
    PROVE  (-(x + y)) % a = 0
<1>1. CASE a = 1  BY <1>1
<1>2. CASE a = 2  BY <1>2
<1>3. CASE a = 4  BY <1>3
<1>4. CASE a = 8  BY <1>4
<1>5. CASE a = 16 BY <1>5
<1> QED BY <1>1, <1>2, <1>3, <1>4, <1>5 DEF Alignments

\* The definitions that depend on the target, one target at a time.
LEMMA OnX86_64 ==
    ASSUME TypeOK, target = X86_64
    PROVE  /\ ~target.up /\ target.entry = 8
           /\ FrameOffset = (IF vararg THEN 176 ELSE 0)
           /\ FramePointer = (-8)
           /\ StackPointer = FramePointer - Rounded
           /\ Saved = (IF vararg THEN -176 ELSE 0) .. 15
<1>1. ~target.up /\ target.entry = 8
  BY DEF X86_64
<1>2. FrameOffset = (IF vararg THEN 176 ELSE 0)
  BY TargetCases DEF FrameOffset
<1>3. FramePointer = (-8)
  BY TargetCases DEF FramePointer
<1>4. StackPointer = FramePointer - Rounded
  BY TargetCases DEF StackPointer
<1>5. Saved = (IF vararg THEN -176 ELSE 0) .. 15
  BY TargetCases DEF Saved
<1> QED BY <1>1, <1>2, <1>3, <1>4, <1>5

\* Likewise.
LEMMA OnI686 ==
    ASSUME TypeOK, target = I686
    PROVE  /\ ~target.up /\ target.entry = 12
           /\ FrameOffset = (12)
           /\ FramePointer = (-4)
           /\ StackPointer = FramePointer - 12 - Rounded
           /\ Saved = -12 .. 7
<1>1. ~target.up /\ target.entry = 12
  BY DEF I686
<1>2. FrameOffset = (12)
  BY TargetCases DEF FrameOffset
<1>3. FramePointer = (-4)
  BY TargetCases DEF FramePointer
<1>4. StackPointer = FramePointer - 12 - Rounded
  BY TargetCases DEF StackPointer
<1>5. Saved = -12 .. 7
  BY TargetCases DEF Saved
<1> QED BY <1>1, <1>2, <1>3, <1>4, <1>5

\* Likewise.
LEMMA OnRiscv64 ==
    ASSUME TypeOK, target = Riscv64
    PROVE  /\ ~target.up /\ target.entry = 0
           /\ FrameOffset = (16)
           /\ FramePointer = (IF vararg THEN -64 ELSE 0)
           /\ StackPointer = FramePointer - Rounded
           /\ Saved = -16 .. (IF vararg THEN 63 ELSE -1)
<1>1. ~target.up /\ target.entry = 0
  BY DEF Riscv64
<1>2. FrameOffset = (16)
  BY TargetCases DEF FrameOffset
<1>3. FramePointer = (IF vararg THEN -64 ELSE 0)
  BY TargetCases DEF FramePointer
<1>4. StackPointer = FramePointer - Rounded
  BY TargetCases DEF StackPointer
<1>5. Saved = -16 .. (IF vararg THEN 63 ELSE -1)
  BY TargetCases DEF Saved
<1> QED BY <1>1, <1>2, <1>3, <1>4, <1>5

\* Likewise.
LEMMA OnAarch64 ==
    ASSUME TypeOK, target = Aarch64
    PROVE  /\ target.up /\ target.entry = 0
           /\ FrameOffset = (IF vararg THEN 208 ELSE 16)
           /\ FramePointer = (-Rounded)
           /\ StackPointer = FramePointer
           /\ Saved = 0 .. (IF vararg THEN 207 ELSE 15)
<1>1. target.up /\ target.entry = 0
  BY DEF Aarch64
<1>2. FrameOffset = (IF vararg THEN 208 ELSE 16)
  BY TargetCases DEF FrameOffset
<1>3. FramePointer = (-Rounded)
  BY TargetCases DEF FramePointer
<1>4. StackPointer = FramePointer
  BY TargetCases DEF StackPointer
<1>5. Saved = 0 .. (IF vararg THEN 207 ELSE 15)
  BY TargetCases DEF Saved
<1> QED BY <1>1, <1>2, <1>3, <1>4, <1>5

\* What the interface reserves is a natural number.
LEMMA FrameOffsetNat == ASSUME TypeOK PROVE FrameOffset \in Nat
<1>1. target \in {X86_64, I686, Riscv64, Aarch64} /\ vararg \in BOOLEAN
  BY TargetCases DEF TypeOK
<1>2. CASE target = X86_64  BY <1>2, <1>1, OnX86_64
<1>3. CASE target = I686    BY <1>3, <1>1, OnI686
<1>4. CASE target = Riscv64 BY <1>4, <1>1, OnRiscv64
<1>5. CASE target = Aarch64 BY <1>5, <1>1, OnAarch64
<1> QED BY <1>1, <1>2, <1>3, <1>4, <1>5

\* Placing one more object keeps the invariant.
LEMMA AllocateKeeps ==
    ASSUME IndInv, NEW size \in Nat, NEW align \in Alignments,
           Allocate(size, align), UNCHANGED <<target, vararg>>,
           phase' \in {"params", "body", "done"}
    PROVE  IndInv'
<1> DEFINE i == Placed(size, align)
           aligned == AlignUp(bytes, align)
<1>1. /\ bytes \in Nat /\ FrameOffset \in Nat /\ FrameOffset <= bytes
      /\ items \in Seq(Resident) /\ target.up \in BOOLEAN
  BY FrameOffsetNat, TargetCases DEF IndInv, TypeOK
<1>2. aligned \in Nat /\ bytes <= aligned
  BY <1>1, AlignUpBounds
<1>3. bytes' = aligned + size /\ items' = Append(items, i)
  BY DEF Allocate, BytesAfter
<1>4. FrameOffset' = FrameOffset
  BY DEF FrameOffset
<1>5. /\ i.at = IF target.up THEN aligned ELSE -(aligned + size)
      /\ i.size = size /\ i.align = align
  BY DEF Placed
<1>6. i \in Resident
  <2>1. i.at \in Int BY <1>1, <1>2, <1>5
  <2>2. i = [at |-> i.at, size |-> size, align |-> align]
    BY DEF Placed
  <2> HIDE DEF i
  <2> QED BY <2>1, <2>2 DEF Resident
<1> HIDE DEF i, aligned
<1>7. TypeOK'
  BY <1>1, <1>2, <1>3, <1>6 DEF IndInv, TypeOK
<1>8. FrameOffset' <= bytes'
  BY <1>1, <1>2, <1>3, <1>4
<1>9. /\ Len(items') = Len(items) + 1
      /\ items'[Len(items) + 1] = i
      /\ \A k \in 1 .. Len(items) : items'[k] = items[k] /\ items[k] \in Resident
      /\ Len(items) \in Nat
  BY <1>1, <1>3, <1>6
<1>10. \A k \in 1 .. Len(items) :
          /\ WithinMark(items[k])
          /\ items[k].at \in Int /\ items[k].size \in Nat
  BY <1>9 DEF IndInv, Bounded, Resident
<1>11. Bounded'
  <2> SUFFICES ASSUME NEW k \in 1 .. Len(items) + 1
               PROVE  WithinMark(items[k])'
    BY <1>9 DEF Bounded
  <2>1. CASE k = Len(items) + 1
    BY <2>1, <1>1, <1>2, <1>3, <1>4, <1>5, <1>9 DEF WithinMark
  <2>2. CASE k \in 1 .. Len(items)
    BY <2>2, <1>1, <1>2, <1>3, <1>4, <1>9, <1>10 DEF WithinMark
  <2> QED BY <2>1, <2>2, <1>9
<1>12. Ordered'
  <2> SUFFICES ASSUME NEW j \in 1 .. Len(items) + 1, NEW k \in 1 .. Len(items) + 1,
                      j < k
               PROVE  IF target.up THEN Before(items'[j], items'[k])
                                   ELSE Before(items'[k], items'[j])
    BY <1>9 DEF Ordered, Before
  <2>1. j \in 1 .. Len(items)
    BY <1>9
  <2>2. CASE k = Len(items) + 1
    <3>1. items'[j] = items[j] /\ items'[k] = i
      BY <2>1, <2>2, <1>9
    <3>2. WithinMark(items[j]) /\ items[j].at \in Int /\ items[j].size \in Nat
      BY <2>1, <1>10
    <3>3. CASE target.up
      BY <3>1, <3>2, <3>3, <1>1, <1>2, <1>5 DEF WithinMark, Before
    <3>4. CASE ~target.up
      BY <3>1, <3>2, <3>4, <1>1, <1>2, <1>5 DEF WithinMark, Before
    <3> QED BY <3>3, <3>4
  <2>3. CASE k \in 1 .. Len(items)
    BY <2>1, <2>3, <1>9 DEF IndInv, Ordered, Before
  <2> QED BY <2>2, <2>3, <1>9
<1>13. OffsetsAligned'
  <2> SUFFICES ASSUME NEW k \in 1 .. Len(items) + 1,
                      items'[k].size % items'[k].align = 0
               PROVE  items'[k].at % items'[k].align = 0
    BY <1>9 DEF OffsetsAligned
  <2>1. CASE k = Len(items) + 1
    <3>1. size % align = 0 /\ aligned % align = 0 /\ size \in Int /\ aligned \in Int
      BY <2>1, <1>1, <1>2, <1>5, <1>9, AlignUpBounds, SMTT(30) DEF aligned
    <3>2. (-(aligned + size)) % align = 0
      BY <3>1, Multiples
    <3>3. items'[k].at = (IF target.up THEN aligned ELSE -(aligned + size))
          /\ items'[k].align = align
      BY <2>1, <1>5, <1>9
    <3> QED BY <3>1, <3>2, <3>3, <1>1
  <2>2. CASE k \in 1 .. Len(items)
    BY <2>2, <1>9 DEF IndInv, OffsetsAligned
  <2> QED BY <2>1, <2>2, <1>9
<1> QED BY <1>7, <1>8, <1>11, <1>12, <1>13 DEF IndInv

\* What IndInv says of one object.
LEMMA ItemFacts ==
    ASSUME IndInv, NEW k \in 1 .. Len(items)
    PROVE  /\ items[k].at \in Int /\ items[k].size \in Nat
           /\ items[k].align \in Alignments
           /\ WithinMark(items[k])
           /\ bytes \in Nat /\ FrameOffset \in Nat /\ vararg \in BOOLEAN
           /\ target \in {X86_64, I686, Riscv64, Aarch64}
<1>1. items \in Seq(Resident) /\ TypeOK
  BY DEF IndInv, TypeOK
<1>2. items[k] \in Resident
  BY <1>1
<1>3. WithinMark(items[k])
  BY DEF IndInv, Bounded
<1>4. bytes \in Nat /\ vararg \in BOOLEAN
  BY <1>1 DEF TypeOK
<1> QED BY <1>1, <1>2, <1>3, <1>4, FrameOffsetNat, TargetCases DEF Resident

\* IndInv is an invariant: of every sequence of parameters, declarations and
\* spills, on every target.
THEOREM FrameInvariance == Spec => []IndInv
<1>1. Init => IndInv
  <2> SUFFICES ASSUME Init PROVE IndInv
    OBVIOUS
  <2>1. FrameOffset \in Nat
    <3>1. target \in {X86_64, I686, Riscv64, Aarch64} /\ vararg \in BOOLEAN
      BY FrameAssumption DEF Init
    <3>2. CASE target = X86_64  BY <3>2, <3>1 DEF FrameOffset
    <3>3. CASE target = I686 /\ I686 # X86_64  BY <3>3, <3>1 DEF FrameOffset
    <3>4. CASE target = Riscv64 /\ Riscv64 # X86_64 /\ Riscv64 # I686
      BY <3>4, <3>1 DEF FrameOffset
    <3>5. CASE target = Aarch64 /\ Aarch64 # X86_64 /\ Aarch64 # I686
               /\ Aarch64 # Riscv64
      BY <3>5, <3>1 DEF FrameOffset
    <3> QED BY <3>1, <3>2, <3>3, <3>4, <3>5
  <2>2. TypeOK
    BY <2>1 DEF Init, TypeOK
  <2> QED BY <2>1, <2>2 DEF Init, IndInv, Bounded, Ordered, OffsetsAligned
<1>2. IndInv /\ [Next]_vars => IndInv'
  <2> SUFFICES ASSUME IndInv, [Next]_vars PROVE IndInv'
    OBVIOUS
  <2>0. TypeOK /\ target \in {X86_64, I686, Riscv64, Aarch64} /\ phase \in {"params", "body", "done"}
    BY TargetCases DEF IndInv, TypeOK
  <2>1. CASE AddParam
    <3> DEFINE ty == TypeFor(sig[ParamsPlaced + 1])
    <3>1. ty.size \in Nat /\ ty.align \in Alignments
      BY <2>0, SMTT(30) DEF TypeFor, Alignments, X86_64, I686, Riscv64, Aarch64
    <3>2. UNCHANGED <<target, vararg, phase>>
      BY <2>1 DEF AddParam
    <3>3. Allocate(ty.size, ty.align) \/ UNCHANGED <<bytes, items>>
      BY <2>1 DEF AddParam
    <3> HIDE DEF ty
    <3>4. CASE Allocate(ty.size, ty.align)
      BY <3>4, <3>1, <3>2, <2>0, AllocateKeeps
    <3>5. CASE UNCHANGED <<bytes, items>>
      BY <3>5, <3>2 DEF IndInv, TypeOK, Bounded, WithinMark, Ordered,
                        OffsetsAligned, FrameOffset, Before
    <3> QED BY <3>3, <3>4, <3>5
  <2>2. CASE BeginBody
    BY <2>2 DEF BeginBody, IndInv, TypeOK, Bounded, WithinMark, Ordered,
                OffsetsAligned, FrameOffset, Before
  <2>3. CASE Declare
    <3>1. PICK ty \in Objects : Allocate(ty.size, ty.align)
      BY <2>3 DEF Declare
    <3>2. ty.size \in Nat /\ ty.align \in Alignments
      BY FrameAssumption DEF Type
    <3>3. UNCHANGED <<target, vararg, phase>>
      BY <2>3 DEF Declare
    <3> QED BY <3>1, <3>2, <3>3, <2>0, AllocateKeeps
  <2>4. CASE Scratch
    <3>1. PICK ty \in Objects : Allocate(Larger(ty.size, 8), ty.align)
      BY <2>4 DEF Scratch
    <3>2. Larger(ty.size, 8) \in Nat /\ ty.align \in Alignments
      BY FrameAssumption DEF Type, Larger
    <3>3. UNCHANGED <<target, vararg, phase>>
      BY <2>4 DEF Scratch
    <3> QED BY <3>1, <3>2, <3>3, <2>0, AllocateKeeps
  <2>5. CASE Finalize
    BY <2>5 DEF Finalize, IndInv, TypeOK, Bounded, WithinMark, Ordered,
                OffsetsAligned, FrameOffset, Before
  <2>6. CASE UNCHANGED vars
    BY <2>6 DEF vars, IndInv, TypeOK, Bounded, WithinMark, Ordered,
                OffsetsAligned, FrameOffset, Before
  <2> QED BY <2>1, <2>2, <2>3, <2>4, <2>5, <2>6 DEF Next
<1> QED BY <1>1, <1>2, PTL DEF Spec

\* Two objects of a frame never share a byte.
THEOREM Disjointness == Spec => []ObjectsDisjoint
<1>1. IndInv => ObjectsDisjoint
  <2> SUFFICES ASSUME IndInv,
                      NEW j \in 1 .. Len(items), NEW k \in 1 .. Len(items), j # k
               PROVE  Before(items[j], items[k]) \/ Before(items[k], items[j])
    BY DEF ObjectsDisjoint
  <2>1. j < k \/ k < j
    OBVIOUS
  <2> QED BY <2>1 DEF IndInv, Ordered
<1> QED BY <1>1, FrameInvariance, PTL

\* Every object is inside the frame the prologue makes room for.
THEOREM Containment == Spec => []InsideFrame
<1>1. IndInv => InsideFrame
  <2> SUFFICES ASSUME IndInv, NEW k \in 1 .. Len(items)
               PROVE  /\ StackPointer <= FramePointer + items[k].at
                      /\ FramePointer + items[k].at + items[k].size <= 0
    BY DEF InsideFrame
  <2>1. /\ bytes \in Nat /\ FrameOffset \in Nat /\ vararg \in BOOLEAN
        /\ items[k].at \in Int /\ items[k].size \in Nat
        /\ WithinMark(items[k])
    BY ItemFacts
  <2>2. Rounded \in Nat /\ bytes <= Rounded
    BY <2>1, AlignUpBounds DEF Rounded, Alignments
  <2>3. target \in {X86_64, I686, Riscv64, Aarch64}
    BY TargetCases DEF IndInv
  <2>4. CASE target = X86_64
    <3>1. TypeOK
      BY DEF IndInv
    <3>2. ~target.up /\ FrameOffset = (IF vararg THEN 176 ELSE 0)
      BY <2>4, <3>1, OnX86_64
    <3>3. FramePointer = -8
      BY <2>4, <3>1, OnX86_64
    <3>4. StackPointer = -8 - Rounded
      BY <2>4, <2>2, <3>1, <3>3, OnX86_64
    <3> QED BY <2>1, <2>2, <3>2, <3>3, <3>4, SMTT(30) DEF WithinMark
  <2>5. CASE target = I686
    <3>1. TypeOK
      BY DEF IndInv
    <3>2. ~target.up /\ FrameOffset = 12
      BY <2>5, <3>1, OnI686
    <3>3. FramePointer = -4
      BY <2>5, <3>1, OnI686
    <3>4. StackPointer = -16 - Rounded
      BY <2>5, <2>2, <3>1, <3>3, OnI686
    <3> QED BY <2>1, <2>2, <3>2, <3>3, <3>4 DEF WithinMark
  <2>6. CASE target = Riscv64
    <3>1. TypeOK
      BY DEF IndInv
    <3>2. ~target.up /\ FrameOffset = 16
      BY <2>6, <3>1, OnRiscv64
    <3>3. FramePointer = (IF vararg THEN -64 ELSE 0)
      BY <2>6, <3>1, OnRiscv64
    <3>4. StackPointer = FramePointer - Rounded
      BY <2>6, <2>2, <3>1, <3>3, OnRiscv64
    <3> QED BY <2>1, <2>2, <3>2, <3>3, <3>4 DEF WithinMark
  <2>7. CASE target = Aarch64
    <3>1. TypeOK
      BY DEF IndInv
    <3>2. target.up /\ FrameOffset = (IF vararg THEN 208 ELSE 16)
      BY <2>7, <3>1, OnAarch64
    <3>3. FramePointer = -Rounded
      BY <2>7, <3>1, OnAarch64
    <3>4. StackPointer = -Rounded
      BY <2>7, <2>2, <3>1, <3>3, OnAarch64
    <3> QED BY <2>1, <2>2, <3>2, <3>3, <3>4 DEF WithinMark
  <2> QED BY <2>3, <2>4, <2>5, <2>6, <2>7
<1> QED BY <1>1, FrameInvariance, PTL

\* No object overlaps the bytes in which the prologue saves registers.
THEOREM Separation == Spec => []SavedApart
<1>1. IndInv => SavedApart
  <2> SUFFICES ASSUME IndInv, NEW k \in 1 .. Len(items), NEW b \in Saved
               PROVE  ~(items[k].at <= b /\ b < items[k].at + items[k].size)
    BY DEF SavedApart
  <2>1. /\ bytes \in Nat /\ vararg \in BOOLEAN
        /\ items[k].at \in Int /\ items[k].size \in Nat
        /\ WithinMark(items[k])
    BY ItemFacts
  <2>2. target \in {X86_64, I686, Riscv64, Aarch64}
    BY TargetCases DEF IndInv
  <2>3. b \in Int /\ (IF target.up THEN b < FrameOffset ELSE -FrameOffset <= b)
    <3>1. CASE target = X86_64
      <4>1. TypeOK
        BY DEF IndInv
      <4>2. ~target.up /\ FrameOffset = (IF vararg THEN 176 ELSE 0) /\ b \in (IF vararg THEN -176 ELSE 0) .. 15
        BY <3>1, <4>1, OnX86_64
      <4> QED BY <2>1, <4>2
    <3>2. CASE target = I686
      <4>1. TypeOK
        BY DEF IndInv
      <4>2. ~target.up /\ FrameOffset = 12 /\ b \in -12 .. 7
        BY <3>2, <4>1, OnI686
      <4> QED BY <2>1, <4>2
    <3>3. CASE target = Riscv64
      <4>1. TypeOK
        BY DEF IndInv
      <4>2. ~target.up /\ FrameOffset = 16 /\ b \in -16 .. (IF vararg THEN 63 ELSE -1)
        BY <3>3, <4>1, OnRiscv64
      <4> QED BY <2>1, <4>2
    <3>4. CASE target = Aarch64
      <4>1. TypeOK
        BY DEF IndInv
      <4>2. target.up /\ FrameOffset = (IF vararg THEN 208 ELSE 16) /\ b \in 0 .. (IF vararg THEN 207 ELSE 15)
        BY <3>4, <4>1, OnAarch64
      <4> QED BY <2>1, <4>2
    <3> QED BY <2>2, <3>1, <3>2, <3>3, <3>4
  <2>4. FrameOffset \in Nat /\ target.up \in BOOLEAN
    BY ItemFacts, TargetCases DEF IndInv
  <2> QED BY <2>1, <2>3, <2>4 DEF WithinMark
<1> QED BY <1>1, FrameInvariance, PTL

\* On a stack aligned as the prologues' comments promise, an object whose size
\* is a multiple of its alignment is aligned.
THEOREM Alignment == Spec => []ObjectsAligned
<1>1. IndInv => ObjectsAligned
  <2> SUFFICES ASSUME IndInv, NEW k \in 1 .. Len(items),
                      items[k].size % items[k].align = 0,
                      target = I686 => items[k].align <= 4
               PROVE  (target.entry + FramePointer + items[k].at)
                          % items[k].align = 0
    BY DEF ObjectsAligned
  <2> DEFINE at == items[k].at
             base == target.entry + FramePointer
  <2>1. /\ at \in Int /\ bytes \in Nat /\ vararg \in BOOLEAN
        /\ items[k].align \in Alignments
        /\ target \in {X86_64, I686, Riscv64, Aarch64}
    BY ItemFacts
  <2>2. at % items[k].align = 0
    BY DEF IndInv, OffsetsAligned
  <2>3. Rounded \in Nat /\ Rounded % 16 = 0
    BY <2>1, AlignUpBounds DEF Rounded, Alignments
  <2>4. base \in Int /\ (base % 16 = 0 \/ (target = I686 /\ base = 8))
    <3>1. CASE target = X86_64
      <4>1. TypeOK
        BY DEF IndInv
      <4>2. target.entry = 8 /\ FramePointer = -8
        BY <3>1, <4>1, OnX86_64
      <4> QED BY <2>1, <2>3, <3>1, <4>2
    <3>2. CASE target = I686
      <4>1. TypeOK
        BY DEF IndInv
      <4>2. target.entry = 12 /\ FramePointer = -4
        BY <3>2, <4>1, OnI686
      <4> QED BY <2>1, <2>3, <3>2, <4>2
    <3>3. CASE target = Riscv64
      <4>1. TypeOK
        BY DEF IndInv
      <4>2. target.entry = 0 /\ FramePointer = (IF vararg THEN -64 ELSE 0)
        BY <3>3, <4>1, OnRiscv64
      <4> QED BY <2>1, <2>3, <3>3, <4>2
    <3>4. CASE target = Aarch64
      <4>1. TypeOK
        BY DEF IndInv
      <4>2. target.entry = 0 /\ FramePointer = -Rounded
        BY <3>4, <4>1, OnAarch64
      <4> QED BY <2>1, <2>3, <3>4, <4>2
    <3> QED BY <2>1, <3>1, <3>2, <3>3, <3>4
  <2> HIDE DEF at, base
  <2>5. (base + at) % items[k].align = 0
    <3>1. CASE items[k].align = 1  BY <3>1, <2>1, <2>2, <2>4
    <3>2. CASE items[k].align = 2  BY <3>2, <2>1, <2>2, <2>4
    <3>3. CASE items[k].align = 4  BY <3>3, <2>1, <2>2, <2>4
    <3>4. CASE items[k].align = 8  BY <3>4, <2>1, <2>2, <2>4
    <3>5. CASE items[k].align = 16 BY <3>5, <2>1, <2>2, <2>4
    <3> QED BY <2>1, <3>1, <3>2, <3>3, <3>4, <3>5 DEF Alignments
  <2> QED BY <2>5 DEF at, base
<1> QED BY <1>1, FrameInvariance, PTL

-----------------------------------------------------------------------------
(* Parameters the caller leaves on the stack: offsets are integers, and    *)
(* the place of each is above the bytes implicitly used.                    *)

ItfInv ==
    /\ itf \in [ints : Nat, floats : Nat, stack : Nat]
    /\ incoming \in Seq(Nat)
    /\ ImplicitUse <= itf.stack
    /\ \A k \in 1 .. Len(incoming) : ImplicitUse <= incoming[k]

\* Where the parameter area starts, target by target.
LEMMA ImplicitUses ==
    ASSUME TypeOK
    PROVE  /\ ImplicitUse \in Nat
           /\ target = X86_64 => ImplicitUse = 16 /\ target.ret = 8
           /\ target = I686   => ImplicitUse = 8 /\ target.ret = 4
<1>1. vararg \in BOOLEAN /\ target \in {X86_64, I686, Riscv64, Aarch64}
  BY TargetCases DEF TypeOK
<1>2. CASE target = X86_64
  BY <1>1, <1>2, TargetCases DEF ImplicitUse, X86_64
<1>3. CASE target = I686
  BY <1>1, <1>3, TargetCases DEF ImplicitUse, I686
<1>4. CASE target = Riscv64
  BY <1>1, <1>4, TargetCases DEF ImplicitUse
<1>5. CASE target = Aarch64
  BY <1>1, <1>5, TargetCases DEF ImplicitUse
<1> QED BY <1>1, <1>2, <1>3, <1>4, <1>5

\* Types of parameters.
LEMMA ParamTypes ==
    ASSUME NEW kind, TypeOK
    PROVE  /\ TypeFor(kind).size \in Nat
           /\ TypeFor(kind).size <= PartSize(TypeFor(kind))
           /\ PartSize(TypeFor(kind)) \in Nat
           /\ PartAlign(TypeFor(kind)) \in Alignments
<1> DEFINE ty == TypeFor(kind)
<1>1. /\ ty.size \in 0 .. 16
      /\ ty.class # "ldouble" => ty.size <= 8
  BY TargetCases, SMTT(30) DEF TypeFor, X86_64, I686, Riscv64, Aarch64
<1> HIDE DEF ty
<1>2. PartAlign(ty) \in Alignments
  BY DEF PartAlign, Alignments
<1>3. PartSize(ty) \in Nat /\ ty.size <= PartSize(ty)
  BY <1>1 DEF PartSize, PartAlign, Larger
<1> QED BY <1>1, <1>2, <1>3 DEF ty

\* The place of a parameter lies at or above the stack used so far, and the
\* stack used afterwards covers it.
LEMMA UsedGrows ==
    ASSUME TypeOK, NEW s \in [ints : Nat, floats : Nat, stack : Nat], NEW kind
    PROVE  LET ty == TypeFor(kind) IN
           /\ Used(ty, s) \in [ints : Nat, floats : Nat, stack : Nat]
           /\ PartAt(ty, s) \in Nat /\ s.stack <= PartAt(ty, s)
           /\ s.stack <= Used(ty, s).stack
           /\ ~InRegister(ty, s) => PartAt(ty, s) + ty.size <= Used(ty, s).stack
<1> DEFINE ty == TypeFor(kind)
<1>1. /\ ty.size \in Nat /\ PartSize(ty) \in Nat /\ ty.size <= PartSize(ty)
      /\ PartAlign(ty) \in Alignments
  BY ParamTypes
<1> HIDE DEF ty
<1>2. PartAt(ty, s) \in Nat /\ s.stack <= PartAt(ty, s)
  BY <1>1, AlignUpBounds DEF PartAt
<1>3. CASE ~InRegister(ty, s)
  <2> DEFINE top == AlignUp(PartAt(ty, s) + PartSize(ty), PartAlign(ty))
  <2>1. PartAt(ty, s) + PartSize(ty) \in Nat
    BY <1>1, <1>2
  <2>2. top \in Nat /\ PartAt(ty, s) + PartSize(ty) <= top
    BY <1>1, <2>1, AlignUpBounds
  <2>3. Used(ty, s) = [s EXCEPT !.stack = top]
    BY <1>3 DEF Used
  <2> HIDE DEF top
  <2> QED BY <1>1, <1>2, <2>2, <2>3 DEF ty
<1>4. CASE InRegister(ty, s)
  <2>1. \/ Used(ty, s) = [s EXCEPT !.ints = @ + 1]
        \/ Used(ty, s) = [s EXCEPT !.ints = @ + 2]
        \/ Used(ty, s) = [s EXCEPT !.floats = @ + 1]
    <3>1. CASE ty.class = "int"
      BY <1>4, <3>1 DEF Used
    <3>2. CASE ty.class = "ldouble" /\ target = Riscv64
      BY <1>4, <3>2 DEF Used
    <3>3. CASE ty.class # "int" /\ ~(ty.class = "ldouble" /\ target = Riscv64)
      BY <1>4, <3>3 DEF Used
    <3> QED BY <3>1, <3>2, <3>3
  <2> QED BY <1>2, <1>4, <2>1 DEF ty
<1> QED BY <1>3, <1>4

\* A step that gives no parameter a place leaves ItfInv alone.
LEMMA ItfKept ==
    ASSUME ItfInv, UNCHANGED <<target, vararg, itf, incoming>>
    PROVE  ItfInv'
BY DEF ItfInv, ImplicitUse

\* ItfInv is an invariant.
LEMMA ItfInvariance == Spec => []ItfInv
<1>1. Init => ItfInv
  <2> SUFFICES ASSUME Init PROVE ItfInv
    OBVIOUS
  <2>1. ImplicitUse \in Nat
    <3>1. target \in {X86_64, I686, Riscv64, Aarch64} /\ vararg \in BOOLEAN
      BY FrameAssumption DEF Init
    <3>2. CASE target = X86_64  BY <3>2, <3>1 DEF ImplicitUse
    <3>3. CASE target = I686 /\ I686 # X86_64  BY <3>3, <3>1 DEF ImplicitUse
    <3>4. CASE target = Riscv64 /\ Riscv64 # X86_64 /\ Riscv64 # I686
      BY <3>4, <3>1 DEF ImplicitUse
    <3>5. CASE target = Aarch64 /\ Aarch64 # X86_64 /\ Aarch64 # I686
               /\ Aarch64 # Riscv64
      BY <3>5, <3>1 DEF ImplicitUse
    <3> QED BY <3>1, <3>2, <3>3, <3>4, <3>5
  <2> QED BY <2>1 DEF Init, ItfInv
<1>2. IndInv /\ ItfInv /\ [Next]_vars => ItfInv'
  <2> SUFFICES ASSUME IndInv, ItfInv, [Next]_vars PROVE ItfInv'
    OBVIOUS
  <2>1. CASE AddParam
    <3> DEFINE ty == TypeFor(sig[ParamsPlaced + 1])
    <3>1. TypeOK
      BY DEF IndInv
    <3>2. UNCHANGED <<target, vararg>> /\ itf' = Used(ty, itf)
      BY <2>1 DEF AddParam
    <3>3. ImplicitUse' = ImplicitUse
      BY <3>2 DEF ImplicitUse
    <3>4. /\ Used(ty, itf) \in [ints : Nat, floats : Nat, stack : Nat]
          /\ PartAt(ty, itf) \in Nat /\ itf.stack <= PartAt(ty, itf)
          /\ itf.stack <= Used(ty, itf).stack
      BY <3>1, UsedGrows DEF ItfInv
    <3>5. incoming' = Append(incoming, PartAt(ty, itf)) \/ UNCHANGED incoming
      BY <2>1 DEF AddParam
    <3> HIDE DEF ty
    <3>6. ImplicitUse \in Nat
      BY <3>1, ImplicitUses
    <3>7. /\ incoming' \in Seq(Nat)
          /\ \A k \in 1 .. Len(incoming') : ImplicitUse <= incoming'[k]
      <4>1. CASE incoming' = Append(incoming, PartAt(ty, itf))
        <5>1. ImplicitUse <= PartAt(ty, itf)
          BY <3>4, <3>6 DEF ItfInv
        <5>2. /\ incoming \in Seq(Nat)
              /\ \A k \in 1 .. Len(incoming) : ImplicitUse <= incoming[k]
          BY DEF ItfInv
        <5> QED BY <3>4, <4>1, <5>1, <5>2
      <4>2. CASE UNCHANGED incoming
        BY <4>2 DEF ItfInv
      <4> QED BY <3>5, <4>1, <4>2
    <3> QED BY <3>2, <3>3, <3>4, <3>6, <3>7 DEF ItfInv
  <2>2. CASE UNCHANGED <<target, vararg, itf, incoming>>
    BY <2>2, ItfKept
  <2> QED BY <2>1, <2>2 DEF Next, BeginBody, Declare, Scratch, Finalize, vars
<1> QED BY <1>1, <1>2, FrameInvariance, PTL DEF Spec

\* On x86_64 and i686 a parameter left on the stack is read where the caller
\* stored it, whatever the parameters before it were.
THEOREM Arguments_Found == Spec => []ArgumentsFoundOnX86
<1>1. IndInv /\ ItfInv => ArgumentsFoundOnX86
  <2> SUFFICES ASSUME IndInv, ItfInv, NEW k \in DOMAIN incoming,
                      target \in {X86_64, I686}
               PROVE  FramePointer + incoming[k] = target.ret + incoming[k] - ImplicitUse
    BY DEF ArgumentsFoundOnX86, ArgumentsFound
  <2>1. TypeOK /\ incoming[k] \in Nat
    BY DEF IndInv, ItfInv
  <2>2. CASE target = X86_64
    <3>1. FramePointer = -8 /\ ImplicitUse = 16 /\ target.ret = 8
      BY <2>1, <2>2, OnX86_64, ImplicitUses
    <3> QED BY <2>1, <3>1
  <2>3. CASE target = I686
    <3>1. FramePointer = -4 /\ ImplicitUse = 8 /\ target.ret = 4
      BY <2>1, <2>3, OnI686, ImplicitUses
    <3> QED BY <2>1, <3>1
  <2> QED BY <2>2, <2>3
<1> QED BY <1>1, FrameInvariance, ItfInvariance, PTL

\* On these targets no parameter left on the stack lies in the bytes the
\* prologue saves, nor in any object of the function.
IncomingApart ==
    target \in {X86_64, I686} =>
        \A k \in 1 .. Len(incoming) :
            /\ \A b \in Saved : b < incoming[k]
            /\ \A j \in 1 .. Len(items) : Before(items[j], [at |-> incoming[k]])

\* Nor does a store to an object ever change a parameter on the stack.
THEOREM Incoming_Apart == Spec => []IncomingApart
<1>1. IndInv /\ ItfInv => IncomingApart
  <2> SUFFICES ASSUME IndInv, ItfInv, NEW k \in 1 .. Len(incoming),
                      target \in {X86_64, I686}
               PROVE  /\ \A b \in Saved : b < incoming[k]
                      /\ \A j \in 1 .. Len(items) : items[j].at + items[j].size <= incoming[k]
    BY DEF IncomingApart, Before
  <2>1. TypeOK /\ incoming[k] \in Nat /\ ImplicitUse <= incoming[k] /\ vararg \in BOOLEAN
    BY DEF IndInv, ItfInv, TypeOK
  <2>2. ~target.up /\ ImplicitUse \in Nat
    BY <2>1, OnX86_64, OnI686, ImplicitUses
  <2>3. \A b \in Saved : b \in Int /\ b < ImplicitUse
    <3>1. CASE target = X86_64
      <4>1. ImplicitUse = 16 /\ Saved = (IF vararg THEN -176 ELSE 0) .. 15
        BY <2>1, <3>1, OnX86_64, ImplicitUses
      <4> QED BY <2>1, <4>1
    <3>2. CASE target = I686
      <4>1. ImplicitUse = 8 /\ Saved = -12 .. 7
        BY <2>1, <3>2, OnI686, ImplicitUses
      <4> QED BY <4>1
    <3> QED BY <3>1, <3>2
  <2>4. ASSUME NEW j \in 1 .. Len(items)
        PROVE  items[j].at + items[j].size <= incoming[k]
    <3>1. /\ items[j].at \in Int /\ items[j].size \in Nat
          /\ WithinMark(items[j]) /\ FrameOffset \in Nat
      BY ItemFacts
    <3> QED BY <2>1, <2>2, <3>1 DEF WithinMark
  <2> QED BY <2>1, <2>2, <2>3, <2>4
<1> QED BY <1>1, FrameInvariance, ItfInvariance, PTL

\* A parameter left on the stack gets bytes of its own: at or above all that
\* is used when it is placed, and below all that is used afterwards.
PlacesAdvance ==
    [][/\ itf.stack <= itf'.stack
       /\ Len(incoming') > Len(incoming) =>
            /\ itf.stack <= incoming'[Len(incoming')]
            /\ incoming'[Len(incoming')] + TypeFor(sig[ParamsPlaced + 1]).size
                   <= itf'.stack]_vars

\* So no two parameters left on the stack share a byte, on any target.
THEOREM Places_Advance == Spec => PlacesAdvance
<1> DEFINE A == /\ itf.stack <= itf'.stack
                /\ Len(incoming') > Len(incoming) =>
                    /\ itf.stack <= incoming'[Len(incoming')]
                    /\ incoming'[Len(incoming')] + TypeFor(sig[ParamsPlaced + 1]).size
                           <= itf'.stack
<1>1. IndInv /\ ItfInv /\ [Next]_vars => [A]_vars
  <2> SUFFICES ASSUME IndInv, ItfInv, Next PROVE A
    OBVIOUS
  <2>1. CASE AddParam
    <3> DEFINE ty == TypeFor(sig[ParamsPlaced + 1])
    <3>1. itf' = Used(ty, itf)
      BY <2>1 DEF AddParam
    <3>2. /\ PartAt(ty, itf) \in Nat /\ itf.stack <= PartAt(ty, itf)
          /\ itf.stack <= Used(ty, itf).stack
          /\ ~InRegister(ty, itf) => PartAt(ty, itf) + ty.size <= Used(ty, itf).stack
      BY UsedGrows DEF IndInv, ItfInv
    <3>3. \/ UNCHANGED incoming
          \/ ~InRegister(ty, itf) /\ incoming' = Append(incoming, PartAt(ty, itf))
      BY <2>1 DEF AddParam
    <3> HIDE DEF ty
    <3>4. incoming \in Seq(Nat)
      BY DEF ItfInv
    <3>5. CASE UNCHANGED incoming
      BY <3>1, <3>2, <3>4, <3>5
    <3>6. CASE ~InRegister(ty, itf) /\ incoming' = Append(incoming, PartAt(ty, itf))
      <4>1. Len(incoming') = Len(incoming) + 1 /\ incoming'[Len(incoming')] = PartAt(ty, itf)
        BY <3>2, <3>4, <3>6
      <4> QED BY <3>1, <3>2, <3>6, <4>1 DEF ty
    <3> QED BY <3>3, <3>5, <3>6
  <2>2. CASE UNCHANGED <<itf, incoming>>
    BY <2>2 DEF ItfInv
  <2> QED BY <2>1, <2>2 DEF Next, BeginBody, Declare, Scratch, Finalize
<1> QED BY <1>1, FrameInvariance, ItfInvariance, PTL DEF Spec, PlacesAdvance

-----------------------------------------------------------------------------
(* StmtCompile, for every function body, however deep.  What is emitted    *)
(* and what is still to be compiled define each label once, and all labels *)
(* that are, or are still to be, jumped to are among those.                *)


IsList(t) == \E S : t \in Seq(S)

Jumps == {"jmp", "jz", "jnz", "cmp"}

\* The labels an item will define, and those it will make a jump to.
Defines(i) ==
    IF i.do = "compile" THEN Named(i.of)
    ELSE IF i.do = "emit" /\ i.of.op = "label" THEN {i.of.label} ELSE {}

Needs(i) ==
    IF i.do = "compile" THEN Jumped(i.of)
    ELSE IF i.do = "emit" /\ i.of.op \in Jumps THEN {i.of.label}
    ELSE IF i.do = "enter" THEN {i.of.break, i.of.continue}
    ELSE IF i.do = "switch" THEN {i.of}
    ELSE IF i.do \in {"case", "default"} THEN {i.of.label} ELSE {}

-----------------------------------------------------------------------------
(* Walks over a list of items                                              *)

\* Item i, met with n switches open and the labels p defined, leaves m open
\* and q defined; all is what the whole function defines.
Step(all, i, n, p, m, q) ==
    /\ i.do = "compile" => i.of \in Statements
    /\ Needs(i) \subseteq all
    /\ Defines(i) \cap p = {} /\ q = p \cup Defines(i)
    /\ IF i.do = "switch" THEN m = n + 1
       ELSE IF i.do = "decide" THEN n >= 1 /\ m = n - 1
       ELSE m = n /\ (i.do \in {"case", "default"} => n >= 1)

Walk(all, t, h, g) ==
    /\ h \in [1 .. Len(t) + 1 -> Nat]
    /\ g \in [1 .. Len(t) + 1 -> SUBSET all]
    /\ \A k \in 1 .. Len(t) : Step(all, t[k], h[k], g[k], h[k + 1], g[k + 1])

Leads(all, t, n, p, m, q) ==
    /\ IsList(t)
    /\ \E h, g : /\ Walk(all, t, h, g)
                 /\ h[1] = n /\ g[1] = p
                 /\ h[Len(t) + 1] = m /\ g[Len(t) + 1] = q

\* A walk that has not ended takes a step.
LEMMA Onward ==
    ASSUME NEW all, NEW t, t # <<>>, NEW n, NEW p, NEW m, NEW q, Leads(all, t, n, p, m, q)
    PROVE  /\ n \in Nat /\ p \in SUBSET all
           /\ \E k \in Nat, l \in SUBSET all : /\ Step(all, Head(t), n, p, k, l)
                                               /\ Leads(all, Tail(t), k, l, m, q)
<1>1. PICK S : t \in Seq(S)
  BY DEF Leads, IsList
<1>2. Len(t) \in Nat \ {0} /\ Tail(t) \in Seq(S) /\ Len(Tail(t)) = Len(t) - 1
      /\ Head(t) = t[1] /\ \A k \in 1 .. Len(Tail(t)) : Tail(t)[k] = t[k + 1]
  BY <1>1
<1>3. PICK h, g : /\ Walk(all, t, h, g)
                  /\ h[1] = n /\ g[1] = p
                  /\ h[Len(t) + 1] = m /\ g[Len(t) + 1] = q
  BY DEF Leads
<1>4. n \in Nat /\ p \in SUBSET all /\ h[2] \in Nat /\ g[2] \in SUBSET all
  BY <1>2, <1>3 DEF Walk
<1>5. Step(all, Head(t), n, p, h[2], g[2])
  BY <1>2, <1>3 DEF Walk
<1> DEFINE v == [k \in 1 .. Len(Tail(t)) + 1 |-> h[k + 1]]
           w == [k \in 1 .. Len(Tail(t)) + 1 |-> g[k + 1]]
<1>6. Walk(all, Tail(t), v, w)
  <2>1. v \in [1 .. Len(Tail(t)) + 1 -> Nat] /\ w \in [1 .. Len(Tail(t)) + 1 -> SUBSET all]
    BY <1>2, <1>3 DEF Walk
  <2>2. ASSUME NEW k \in 1 .. Len(Tail(t))
        PROVE  Step(all, Tail(t)[k], v[k], w[k], v[k + 1], w[k + 1])
    <3>1. k + 1 \in 1 .. Len(t) /\ k \in 1 .. Len(Tail(t)) + 1 /\ k + 1 \in 1 .. Len(Tail(t)) + 1
      BY <1>2
    <3>2. v[k] = h[k + 1] /\ w[k] = g[k + 1] /\ v[k + 1] = h[k + 1 + 1] /\ w[k + 1] = g[k + 1 + 1]
      BY <3>1
    <3>3. Step(all, t[k + 1], h[k + 1], g[k + 1], h[k + 1 + 1], g[k + 1 + 1])
      BY <1>3, <3>1 DEF Walk
    <3> HIDE DEF v, w
    <3> QED BY <1>2, <3>2, <3>3
  <2> HIDE DEF v, w
  <2> QED BY <2>1, <2>2 DEF Walk
<1>7. /\ v[1] = h[2] /\ w[1] = g[2]
      /\ v[Len(Tail(t)) + 1] = m /\ w[Len(Tail(t)) + 1] = q
  BY <1>2, <1>3
<1>8. Leads(all, Tail(t), h[2], g[2], m, q)
  <2> HIDE DEF v, w
  <2> QED BY <1>2, <1>6, <1>7 DEF Leads, IsList
<1> QED BY <1>4, <1>5, <1>8

\* One walk after another.
LEMMA Further ==
    ASSUME NEW all, NEW s, NEW t, NEW n, NEW p, NEW k, NEW l, NEW m, NEW q,
           Leads(all, s, n, p, k, l), Leads(all, t, k, l, m, q)
    PROVE  Leads(all, s \o t, n, p, m, q)
<1>1. PICK S : s \in Seq(S)
  BY DEF Leads, IsList
<1>2. PICK T : t \in Seq(T)
  BY DEF Leads, IsList
<1>3. s \in Seq(S \cup T) /\ t \in Seq(S \cup T)
  BY <1>1, <1>2
<1>4. s \o t \in Seq(S \cup T)
  BY <1>3
<1> DEFINE a == Len(s)
           b == Len(t)
<1>5. /\ a \in Nat /\ b \in Nat /\ Len(s \o t) = a + b
      /\ \A j \in 1 .. a + b : (s \o t)[j] = IF j <= a THEN s[j] ELSE t[j - a]
  BY <1>3
<1>6. PICK h, g : /\ Walk(all, s, h, g)
                  /\ h[1] = n /\ g[1] = p /\ h[a + 1] = k /\ g[a + 1] = l
  BY DEF Leads
<1>7. PICK v, w : /\ Walk(all, t, v, w)
                  /\ v[1] = k /\ w[1] = l /\ v[b + 1] = m /\ w[b + 1] = q
  BY DEF Leads
<1> DEFINE x == [j \in 1 .. a + b + 1 |-> IF j <= a THEN h[j] ELSE v[j - a]]
           y == [j \in 1 .. a + b + 1 |-> IF j <= a THEN g[j] ELSE w[j - a]]
<1>8. /\ h \in [1 .. a + 1 -> Nat] /\ g \in [1 .. a + 1 -> SUBSET all]
      /\ v \in [1 .. b + 1 -> Nat] /\ w \in [1 .. b + 1 -> SUBSET all]
  BY <1>6, <1>7 DEF Walk
<1>9. x \in [1 .. a + b + 1 -> Nat] /\ y \in [1 .. a + b + 1 -> SUBSET all]
  <2> HIDE DEF a, b
  <2> QED BY <1>5, <1>8
<1>10. ASSUME NEW j \in 1 .. a + b
       PROVE  Step(all, (s \o t)[j], x[j], y[j], x[j + 1], y[j + 1])
  <2>1. CASE j < a
    <3>1. j \in 1 .. a /\ j + 1 <= a /\ j \in 1 .. a + b + 1 /\ j + 1 \in 1 .. a + b + 1
      BY <1>5, <2>1
    <3>2. x[j] = h[j] /\ y[j] = g[j] /\ x[j + 1] = h[j + 1] /\ y[j + 1] = g[j + 1]
      BY <3>1
    <3>3. Step(all, s[j], h[j], g[j], h[j + 1], g[j + 1])
      BY <1>6, <3>1 DEF Walk
    <3>4. (s \o t)[j] = s[j]
      BY <1>5, <3>1
    <3> HIDE DEF x, y
    <3> QED BY <3>2, <3>3, <3>4
  <2>2. CASE j = a
    <3>1. j \in 1 .. a /\ ~(j + 1 <= a) /\ j \in 1 .. a + b + 1 /\ j + 1 \in 1 .. a + b + 1
          /\ (j + 1) - a = 1
      BY <1>5, <2>2
    <3>2. x[j] = h[j] /\ y[j] = g[j] /\ x[j + 1] = v[(j + 1) - a] /\ y[j + 1] = w[(j + 1) - a]
      BY <3>1
    <3>3. Step(all, s[j], h[j], g[j], h[j + 1], g[j + 1])
      BY <1>6, <3>1 DEF Walk
    <3>4. (s \o t)[j] = s[j]
      BY <1>5, <3>1
    <3>5. v[(j + 1) - a] = h[j + 1] /\ w[(j + 1) - a] = g[j + 1]
      BY <1>6, <1>7, <2>2, <3>1
    <3> HIDE DEF x, y
    <3> QED BY <3>2, <3>3, <3>4, <3>5
  <2>3. CASE j > a
    <3>1. j - a \in 1 .. b /\ ~(j <= a) /\ ~(j + 1 <= a) /\ (j + 1) - a = (j - a) + 1
          /\ j \in 1 .. a + b + 1 /\ j + 1 \in 1 .. a + b + 1
      BY <1>5, <2>3
    <3>2. /\ x[j] = v[j - a] /\ y[j] = w[j - a]
          /\ x[j + 1] = v[(j + 1) - a] /\ y[j + 1] = w[(j + 1) - a]
      BY <3>1
    <3>3. Step(all, t[j - a], v[j - a], w[j - a], v[(j - a) + 1], w[(j - a) + 1])
      BY <1>7, <3>1 DEF Walk
    <3>4. (s \o t)[j] = t[j - a]
      BY <1>5, <3>1
    <3> HIDE DEF x, y
    <3> QED BY <3>1, <3>2, <3>3, <3>4
  <2> QED BY <1>5, <2>1, <2>2, <2>3
<1>11. Walk(all, s \o t, x, y)
  <2> HIDE DEF x, y, a, b
  <2> QED BY <1>5, <1>9, <1>10 DEF Walk
<1>12. x[1] = n /\ y[1] = p /\ x[a + b + 1] = m /\ y[a + b + 1] = q
  <2>1. CASE a = 0
    BY <1>5, <1>6, <1>7, <2>1
  <2>2. CASE a > 0
    BY <1>5, <1>6, <1>7, <2>2
  <2> QED BY <1>5, <2>1, <2>2
<1> HIDE DEF x, y, a, b
<1> QED BY <1>4, <1>5, <1>11, <1>12 DEF Leads, IsList

\* A walk of one step.
LEMMA OneStep ==
    ASSUME NEW all, NEW i, NEW n \in Nat, NEW p \in SUBSET all, NEW m \in Nat, NEW q \in SUBSET all,
           Step(all, i, n, p, m, q)
    PROVE  Leads(all, <<i>>, n, p, m, q)
<1> DEFINE h == [j \in 1 .. 2 |-> IF j = 1 THEN n ELSE m]
           g == [j \in 1 .. 2 |-> IF j = 1 THEN p ELSE q]
<1>1. <<i>> \in Seq({i}) /\ Len(<<i>>) = 1 /\ <<i>>[1] = i
  OBVIOUS
<1>2. h \in [1 .. 2 -> Nat] /\ g \in [1 .. 2 -> SUBSET all] /\ h[1] = n /\ h[2] = m /\ g[1] = p /\ g[2] = q
  OBVIOUS
<1> HIDE DEF h, g
<1>3. Walk(all, <<i>>, h, g)
  BY <1>1, <1>2 DEF Walk
<1>4. IsList(<<i>>) /\ Len(<<i>>) + 1 = 2
  <2>1. IsList(<<i>>)
    BY ONLY <1>1, Zenon DEF IsList
  <2> QED BY <1>1, <2>1
<1>5. \E v, w : Walk(all, <<i>>, v, w) /\ v[1] = n /\ w[1] = p /\ v[2] = m /\ w[2] = q
  BY <1>2, <1>3
<1> HIDE DEF h, g
<1> QED BY <1>4, <1>5 DEF Leads

\* One step more in front of a walk.
LEMMA StepBefore ==
    ASSUME NEW all, NEW S, NEW t \in Seq(S), t # <<>>, NEW n \in Nat, NEW p \in SUBSET all,
           NEW k \in Nat, NEW l \in SUBSET all, NEW m, NEW q,
           Step(all, Head(t), n, p, k, l), Leads(all, Tail(t), k, l, m, q)
    PROVE  Leads(all, t, n, p, m, q)
<1> DEFINE s == <<Head(t)>> \o Tail(t)
<1>2. Head(t) \in S /\ Tail(t) \in Seq(S) /\ Head(t) = t[1]
      /\ Len(t) \in Nat /\ Len(Tail(t)) = Len(t) - 1
      /\ \A j \in 1 .. Len(t) - 1 : Tail(t)[j] = t[j + 1]
  OBVIOUS
<1>3. s \in Seq(S) /\ Len(s) = Len(t) /\ \A j \in 1 .. Len(t) : s[j] = t[j]
  BY <1>2
<1>4. s = t
  <2> HIDE DEF s
  <2> QED BY <1>3
<1>5. Leads(all, <<Head(t)>>, n, p, k, l)
  BY OneStep
<1>6. Leads(all, s, n, p, m, q)
  BY <1>5, Further
<1> HIDE DEF s
<1> QED BY <1>4, <1>6

\* Two, three steps
LEMMA TwoSteps ==
    ASSUME NEW all, NEW a, NEW b, NEW n \in Nat, NEW p \in SUBSET all, NEW k \in Nat, NEW l \in SUBSET all,
           NEW m \in Nat, NEW q \in SUBSET all,
           Step(all, a, n, p, k, l), Step(all, b, k, l, m, q)
    PROVE  Leads(all, <<a, b>>, n, p, m, q)
<1>1. Leads(all, <<b>>, k, l, m, q)
  BY OneStep
<1> DEFINE t == <<a, b>>
           S == {a, b}
<1>2. t \in Seq(S) /\ t # <<>> /\ Head(t) = a /\ Tail(t) = <<b>>
  OBVIOUS
<1> HIDE DEF t, S
<1>3. Leads(all, Tail(t), k, l, m, q) /\ Step(all, Head(t), n, p, k, l)
  BY <1>1, <1>2
<1>4. Leads(all, t, n, p, m, q)
  BY <1>2, <1>3, StepBefore
<1> QED BY <1>4 DEF t

LEMMA ThreeSteps ==
    ASSUME NEW all, NEW a, NEW b, NEW c, NEW n \in Nat, NEW p \in SUBSET all, NEW k \in Nat,
           NEW l \in SUBSET all, NEW i \in Nat, NEW j \in SUBSET all, NEW m \in Nat, NEW q \in SUBSET all,
           Step(all, a, n, p, k, l), Step(all, b, k, l, i, j), Step(all, c, i, j, m, q)
    PROVE  Leads(all, <<a, b, c>>, n, p, m, q)
<1>1. Leads(all, <<b, c>>, k, l, m, q)
  BY TwoSteps
<1> DEFINE t == <<a, b, c>>
           S == {a, b, c}
<1>2. t \in Seq(S) /\ t # <<>> /\ Head(t) = a /\ Tail(t) = <<b, c>>
  OBVIOUS
<1> HIDE DEF t, S
<1>3. Leads(all, Tail(t), k, l, m, q) /\ Step(all, Head(t), n, p, k, l)
  BY <1>1, <1>2
<1>4. Leads(all, t, n, p, m, q)
  BY <1>2, <1>3, StepBefore
<1> QED BY <1>4 DEF t

LEMMA FourSteps ==
    ASSUME NEW all, NEW a, NEW b, NEW c, NEW d, NEW n \in Nat, NEW p \in SUBSET all,
           NEW k \in Nat, NEW l \in SUBSET all, NEW i \in Nat, NEW j \in SUBSET all,
           NEW v \in Nat, NEW w \in SUBSET all, NEW m \in Nat, NEW q \in SUBSET all,
           Step(all, a, n, p, k, l), Step(all, b, k, l, i, j), Step(all, c, i, j, v, w),
           Step(all, d, v, w, m, q)
    PROVE  Leads(all, <<a, b, c, d>>, n, p, m, q)
<1>1. Leads(all, <<b, c, d>>, k, l, m, q)
  BY ThreeSteps
<1> DEFINE t == <<a, b, c, d>>
           S == {a, b, c, d}
<1>2. t \in Seq(S) /\ t # <<>> /\ Head(t) = a /\ Tail(t) = <<b, c, d>>
  OBVIOUS
<1> HIDE DEF t, S
<1>3. Leads(all, Tail(t), k, l, m, q) /\ Step(all, Head(t), n, p, k, l)
  BY <1>1, <1>2
<1>4. Leads(all, t, n, p, m, q)
  BY <1>2, <1>3, StepBefore
<1> QED BY <1>4 DEF t

LEMMA NoStep ==
    ASSUME NEW all, NEW n \in Nat, NEW p \in SUBSET all
    PROVE  Leads(all, <<>>, n, p, n, p)
<1> DEFINE h == [j \in 1 .. 1 |-> n]
           g == [j \in 1 .. 1 |-> p]
<1>1. Len(<<>>) = 0 /\ <<>> \in Seq({})
  OBVIOUS
<1>2. h \in [1 .. 1 -> Nat] /\ g \in [1 .. 1 -> SUBSET all] /\ h[1] = n /\ g[1] = p
  OBVIOUS
<1> HIDE DEF h, g
<1>3. Walk(all, <<>>, h, g)
  BY <1>1, <1>2 DEF Walk
<1>4. IsList(<<>>)
  BY ONLY <1>1, Zenon DEF IsList
<1> QED BY <1>1, <1>2, <1>3, <1>4 DEF Leads

\* Labels that are new change nothing.
LEMMA Wider ==
    ASSUME NEW all, NEW t, NEW n, NEW p, NEW m, NEW q, Leads(all, t, n, p, m, q),
           NEW new, new \cap all = {}
    PROVE  Leads(all \cup new, t, n, p \cup new, m, q \cup new)
<1>1. PICK h, g : /\ Walk(all, t, h, g)
                  /\ h[1] = n /\ g[1] = p /\ h[Len(t) + 1] = m /\ g[Len(t) + 1] = q
  BY DEF Leads
<1>2. IsList(t) /\ Len(t) \in Nat
  <2>1. PICK S : t \in Seq(S)
    BY DEF Leads, IsList
  <2> QED BY <2>1 DEF Leads
<1> DEFINE w == [k \in 1 .. Len(t) + 1 |-> g[k] \cup new]
<1>3. /\ h \in [1 .. Len(t) + 1 -> Nat] /\ g \in [1 .. Len(t) + 1 -> SUBSET all]
      /\ \A k \in 1 .. Len(t) : Step(all, t[k], h[k], g[k], h[k + 1], g[k + 1])
  BY <1>1 DEF Walk
<1>4. w \in [1 .. Len(t) + 1 -> SUBSET (all \cup new)]
  BY <1>3
<1>5. ASSUME NEW k \in 1 .. Len(t)
      PROVE  Step(all \cup new, t[k], h[k], w[k], h[k + 1], w[k + 1])
  <2>1. k \in 1 .. Len(t) + 1 /\ k + 1 \in 1 .. Len(t) + 1
    BY <1>2
  <2>2. w[k] = g[k] \cup new /\ w[k + 1] = g[k + 1] \cup new /\ g[k + 1] \subseteq all
    BY <1>3, <2>1
  <2>3. Step(all, t[k], h[k], g[k], h[k + 1], g[k + 1])
    BY <1>3
  <2> HIDE DEF w
  <2>4. Defines(t[k]) \cap new = {}
    BY <2>2, <2>3 DEF Step
  <2> QED BY <2>2, <2>3, <2>4 DEF Step
<1> HIDE DEF w
<1>6. Walk(all \cup new, t, h, w)
  BY <1>3, <1>4, <1>5 DEF Walk
<1>7. w[1] = p \cup new /\ w[Len(t) + 1] = q \cup new
  <2>1. 1 \in 1 .. Len(t) + 1 /\ Len(t) + 1 \in 1 .. Len(t) + 1
    BY <1>2
  <2> QED BY <1>1, <2>1 DEF w
<1> QED BY <1>1, <1>2, <1>6, <1>7 DEF Leads

-----------------------------------------------------------------------------
(* What each kind of item does to the labels defined                       *)

LEMMA LabelStep ==
    ASSUME NEW all, NEW n \in Nat, NEW p \in SUBSET all, NEW l \in all, l \notin p
    PROVE  Step(all, Label(l), n, p, n, p \cup {l})
BY DEF Step, Label, Emit, Item, Instr, Needs, Defines, Jumps

LEMMA EmitStepIs ==
    ASSUME NEW all, NEW n \in Nat, NEW p \in SUBSET all, NEW op, op # "label", NEW of, NEW l,
           op \in Jumps => l \in all
    PROVE  Step(all, Emit(op, of, l), n, p, n, p)
BY DEF Step, Emit, Item, Instr, Needs, Defines

LEMMA CompileStepIs ==
    ASSUME NEW all, NEW n \in Nat, NEW p \in SUBSET all, NEW s \in Statements,
           Named(s) \cap p = {}, Jumped(s) \subseteq all
    PROVE  Step(all, Compile(s), n, p, n, p \cup Named(s))
BY DEF Step, Compile, Item, Needs, Defines

LEMMA EnterStepIs ==
    ASSUME NEW all, NEW n \in Nat, NEW p \in SUBSET all, NEW b \in all, NEW c \in all
    PROVE  Step(all, Enter(b, c), n, p, n, p)
BY DEF Step, Enter, Item, Needs, Defines

LEMMA LeaveStepIs ==
    ASSUME NEW all, NEW n \in Nat, NEW p \in SUBSET all, NEW b
    PROVE  Step(all, Leave(b), n, p, n, p)
BY DEF Step, Leave, Item, Needs, Defines

LEMMA SwitchStepIs ==
    ASSUME NEW all, NEW n \in Nat, NEW p \in SUBSET all, NEW l \in all
    PROVE  Step(all, Item("switch", l), n, p, n + 1, p)
BY DEF Step, Item, Needs, Defines

LEMMA DecideStepIs ==
    ASSUME NEW all, NEW n \in Nat, NEW p \in SUBSET all, NEW l
    PROVE  Step(all, Item("decide", l), n + 1, p, n, p)
BY DEF Step, Item, Needs, Defines

LEMMA CaseStepIs ==
    ASSUME NEW all, NEW n \in Nat, n >= 1, NEW p \in SUBSET all, NEW k \in {"case", "default"},
           NEW v, NEW l \in all
    PROVE  Step(all, Item(k, [of |-> v, label |-> l]), n, p, n, p)
BY DEF Step, Item, Needs, Defines

-----------------------------------------------------------------------------
(* Plans: what a statement is compiled to defines the labels in it and     *)
(* those taken from the counter, and leaves the switches as they were.     *)

\* The labels a statement takes and defines.
Fresh(s, n) ==
    IF s.kind \in {"if", "while", "switch"} THEN {n + 1, n + 2}
    ELSE IF s.kind \in {"do", "for"} THEN {n + 1, n + 2, n + 3}
    ELSE IF s.kind \in {"case", "default"} THEN {n + 1} ELSE {}

\* The labels defined when s is done, if p were before.
Done(s, n, p) == p \cup Named(s) \cup Fresh(s, n)

\* s may be compiled when the labels p have been defined.
Ready(all, s, n, p) ==
    /\ s \in Statements /\ n \in Nat
    /\ Done(s, n, p) \subseteq all /\ Jumped(s) \subseteq all
    /\ p \cap Named(s) = {} /\ p \cap Fresh(s, n) = {} /\ Fresh(s, n) \cap Named(s) = {}

Planned(all, s, n, d, p, t) == Leads(all, t, d, p, d, Done(s, n, p))

LEMMA OnePart ==
    ASSUME StatementsAssumption, LabelsAssumption, NEW s \in Statements,
           s.kind \in Loops \cup {"switch"}
    PROVE  /\ s.sub[1] \in Statements
           /\ Named(s) = Named(s.sub[1]) /\ Jumped(s) = Jumped(s.sub[1])
<1>1. s.sub \in Seq(Statements) /\ Len(s.sub) = 1
  BY DEF StatementsAssumption, Loops, Simple, LabelKinds
<1>2. s.kind # "label" /\ s.kind # "goto"
  BY DEF Loops
<1>3. Named(s) = NamedIn(s.sub) /\ Jumped(s) = JumpedIn(s.sub)
  BY <1>2 DEF LabelsAssumption
<1>4. NamedIn(s.sub) = Named(s.sub[1]) /\ JumpedIn(s.sub) = Jumped(s.sub[1])
  BY <1>1 DEF NamedIn, JumpedIn
<1> QED BY <1>1, <1>3, <1>4

LEMMA BodyLeads ==
    ASSUME StatementsAssumption, LabelsAssumption, NEW all,
           NEW s \in Statements, s.kind \in Loops,
           NEW b \in all, NEW c \in all, NEW d \in Nat, NEW p \in SUBSET all,
           Named(s) \cap p = {}, Named(s) \subseteq all, Jumped(s) \subseteq all
    PROVE  Leads(all, Body(s, b, c), d, p, d, p \cup Named(s))
<1> DEFINE q == p \cup Named(s)
<1>1. q \in SUBSET all
  OBVIOUS
<1>2. Step(all, Enter(b, c), d, p, d, p)
  BY EnterStepIs
<1>3. Step(all, Compile(s.sub[1]), d, p, d, q)
  BY OnePart, CompileStepIs
<1>4. Step(all, Leave(TRUE), d, q, d, q)
  BY <1>1, LeaveStepIs
<1> HIDE DEF q
<1>5. Leads(all, <<Enter(b, c), Compile(s.sub[1]), Leave(TRUE)>>, d, p, d, q)
  BY <1>1, <1>2, <1>3, <1>4, ThreeSteps
<1> QED BY <1>5 DEF Body, q

LEMMA WhileLeads ==
    ASSUME StatementsAssumption, LabelsAssumption, NEW all, NEW s, NEW n, NEW d \in Nat, NEW p,
           Ready(all, s, n, p), s.kind = "while"
    PROVE  Planned(all, s, n, d, p, PlanWhile(s, n))
<1>1. /\ s \in Statements /\ n \in Nat /\ p \in SUBSET all /\ s.kind \in Loops
      /\ n + 1 \in all /\ n + 2 \in all /\ n + 1 # n + 2
      /\ n + 1 \notin p /\ n + 2 \notin p
      /\ n + 1 \notin Named(s) /\ n + 2 \notin Named(s)
      /\ Named(s) \subseteq all /\ Jumped(s) \subseteq all /\ p \cap Named(s) = {}
  BY DEF Ready, Done, Fresh, Loops
<1> DEFINE a == p \cup {n + 1}
           b == a \cup Named(s)
           c == b \cup {n + 2}
<1>2. a \in SUBSET all /\ b \in SUBSET all /\ c \in SUBSET all
  BY <1>1
<1>3. Step(all, Label(n + 1), d, p, d, a) /\ Step(all, Label(n + 2), d, b, d, c)
  BY <1>1, <1>2, LabelStep
<1>4. Step(all, Emit("jz", s.of, n + 2), d, a, d, a) /\ Step(all, Jump(n + 1), d, b, d, b)
  BY <1>1, <1>2, EmitStepIs DEF Jump, Jumps
<1>5. Leads(all, Body(s, n + 2, n + 1), d, a, d, b)
  BY <1>1, <1>2, BodyLeads
<1>6. c = Done(s, n, p)
  BY <1>1 DEF Done, Fresh
<1> HIDE DEF a, b, c
<1>7. Leads(all, <<Label(n + 1), Emit("jz", s.of, n + 2)>>, d, p, d, a)
  BY <1>1, <1>2, <1>3, <1>4, TwoSteps
<1>8. Leads(all, <<Jump(n + 1), Label(n + 2)>>, d, b, d, c)
  BY <1>1, <1>2, <1>3, <1>4, TwoSteps
<1>9. Leads(all, PlanWhile(s, n), d, p, d, c)
  BY <1>5, <1>7, <1>8, Further DEF PlanWhile
<1> QED BY <1>6, <1>9 DEF Planned

LEMMA DoLeads ==
    ASSUME StatementsAssumption, LabelsAssumption, NEW all, NEW s, NEW n, NEW d \in Nat, NEW p,
           Ready(all, s, n, p), s.kind = "do"
    PROVE  Planned(all, s, n, d, p, PlanDo(s, n))
<1>1. /\ s \in Statements /\ n \in Nat /\ p \in SUBSET all /\ s.kind \in Loops
      /\ n + 1 \in all /\ n + 2 \in all /\ n + 3 \in all
      /\ n + 1 \notin p /\ n + 2 \notin p /\ n + 3 \notin p
      /\ n + 1 \notin Named(s) /\ n + 2 \notin Named(s) /\ n + 3 \notin Named(s)
      /\ Named(s) \subseteq all /\ Jumped(s) \subseteq all /\ p \cap Named(s) = {}
  BY DEF Ready, Done, Fresh, Loops
<1> DEFINE a == p \cup {n + 1}
           b == a \cup Named(s)
           c == b \cup {n + 2}
           e == c \cup {n + 3}
<1>2. a \in SUBSET all /\ b \in SUBSET all /\ c \in SUBSET all /\ e \in SUBSET all
  BY <1>1
<1>3. /\ Step(all, Label(n + 1), d, p, d, a) /\ Step(all, Label(n + 2), d, b, d, c)
      /\ Step(all, Label(n + 3), d, c, d, e)
  BY <1>1, <1>2, LabelStep
<1>4. Step(all, Emit("jnz", s.of, n + 1), d, c, d, c)
  BY <1>1, <1>2, EmitStepIs DEF Jumps
<1>5. Leads(all, Body(s, n + 3, n + 2), d, a, d, b)
  BY <1>1, <1>2, BodyLeads
<1>6. e = Done(s, n, p)
  BY <1>1 DEF Done, Fresh
<1> HIDE DEF a, b, c, e
<1>7. Leads(all, <<Label(n + 1)>>, d, p, d, a)
  BY <1>1, <1>2, <1>3, OneStep
<1>8. Leads(all, <<Label(n + 2), Emit("jnz", s.of, n + 1), Label(n + 3)>>, d, b, d, e)
  BY <1>1, <1>2, <1>3, <1>4, ThreeSteps
<1>9. Leads(all, PlanDo(s, n), d, p, d, e)
  BY <1>5, <1>7, <1>8, Further DEF PlanDo
<1> QED BY <1>6, <1>9 DEF Planned

LEMMA OptionalLeads ==
    ASSUME NEW all, NEW n \in Nat, NEW p \in SUBSET all, NEW e, NEW i, Step(all, i, n, p, n, p)
    PROVE  Leads(all, Optional(e, <<i>>), n, p, n, p)
<1>1. Leads(all, <<>>, n, p, n, p)
  BY NoStep
<1>2. Leads(all, <<i>>, n, p, n, p)
  BY OneStep
<1>3. Optional(e, <<i>>) = <<>> \/ Optional(e, <<i>>) = <<i>>
  BY DEF Optional
<1> QED BY <1>1, <1>2, <1>3

LEMMA ForLeads ==
    ASSUME StatementsAssumption, LabelsAssumption, NEW all, NEW s, NEW n, NEW d \in Nat, NEW p,
           Ready(all, s, n, p), s.kind = "for"
    PROVE  Planned(all, s, n, d, p, PlanFor(s, n))
<1>1. /\ s \in Statements /\ n \in Nat /\ p \in SUBSET all /\ s.kind \in Loops
      /\ n + 1 \in all /\ n + 2 \in all /\ n + 3 \in all
      /\ n + 1 \notin p /\ n + 2 \notin p /\ n + 3 \notin p
      /\ n + 1 \notin Named(s) /\ n + 2 \notin Named(s) /\ n + 3 \notin Named(s)
      /\ Named(s) \subseteq all /\ Jumped(s) \subseteq all /\ p \cap Named(s) = {}
  BY DEF Ready, Done, Fresh, Loops
<1> DEFINE a == p \cup {n + 1}
           b == a \cup Named(s)
           c == b \cup {n + 3}
           e == c \cup {n + 2}
<1>2. a \in SUBSET all /\ b \in SUBSET all /\ c \in SUBSET all /\ e \in SUBSET all
  BY <1>1
<1>3. /\ Step(all, Label(n + 1), d, p, d, a) /\ Step(all, Label(n + 3), d, b, d, c)
      /\ Step(all, Label(n + 2), d, c, d, e)
  BY <1>1, <1>2, LabelStep
<1>4. /\ Step(all, Effect(s.of.init), d, p, d, p)
      /\ Step(all, Emit("jz", s.of.cond, n + 2), d, a, d, a)
      /\ Step(all, Effect(s.of.after), d, c, d, c)
      /\ Step(all, Jump(n + 1), d, c, d, c)
  BY <1>1, <1>2, EmitStepIs DEF Effect, Jump, Jumps
<1>5. Leads(all, Body(s, n + 2, n + 3), d, a, d, b)
  BY <1>1, <1>2, BodyLeads
<1>6. e = Done(s, n, p)
  BY <1>1 DEF Done, Fresh
<1> HIDE DEF a, b, c, e
<1>7. Leads(all, Optional(s.of.init, <<Effect(s.of.init)>>), d, p, d, p)
  BY <1>1, <1>4, OptionalLeads
<1>8. Leads(all, <<Label(n + 1)>>, d, p, d, a)
  BY <1>1, <1>2, <1>3, OneStep
<1>9. Leads(all, Optional(s.of.cond, <<Emit("jz", s.of.cond, n + 2)>>), d, a, d, a)
  BY <1>2, <1>4, OptionalLeads
<1>10. Leads(all, <<Label(n + 3)>>, d, b, d, c)
  BY <1>2, <1>3, OneStep
<1>11. Leads(all, Optional(s.of.after, <<Effect(s.of.after)>>), d, c, d, c)
  BY <1>2, <1>4, OptionalLeads
<1>12. Leads(all, <<Jump(n + 1), Label(n + 2)>>, d, c, d, e)
  BY <1>2, <1>3, <1>4, TwoSteps
<1>13. Leads(all, PlanFor(s, n), d, p, d, e)
  BY <1>5, <1>7, <1>8, <1>9, <1>10, <1>11, <1>12, Further DEF PlanFor
<1> QED BY <1>6, <1>13 DEF Planned

LEMMA IfLeads ==
    ASSUME StatementsAssumption, LabelsAssumption, NEW all, NEW s, NEW n, NEW d \in Nat, NEW p,
           Ready(all, s, n, p), s.kind = "if"
    PROVE  Planned(all, s, n, d, p, PlanIf(s, n))
<1>1. /\ s \in Statements /\ n \in Nat /\ p \in SUBSET all
      /\ n + 1 \in all /\ n + 2 \in all
      /\ n + 1 \notin p /\ n + 2 \notin p
      /\ n + 1 \notin Named(s) /\ n + 2 \notin Named(s)
      /\ Named(s) \subseteq all /\ Jumped(s) \subseteq all /\ p \cap Named(s) = {}
  BY DEF Ready, Done, Fresh
<1>2. /\ s.sub \in Seq(Statements) /\ Len(s.sub) \in {1, 2}
      /\ Named(s) = NamedIn(s.sub) /\ Jumped(s) = JumpedIn(s.sub) /\ Unique(s.sub)
  BY <1>1 DEF StatementsAssumption, LabelsAssumption, Loops, Simple, LabelKinds
<1> DEFINE other == IF Len(s.sub) = 2 THEN Named(s.sub[2]) ELSE {}
           a == p \cup Named(s.sub[1])
           b == a \cup {n + 1}
           c == b \cup other
           e == c \cup {n + 2}
<1>3. /\ s.sub[1] \in Statements /\ Jumped(s.sub[1]) \subseteq all
      /\ Named(s) = Named(s.sub[1]) \cup other
  <2>1. CASE Len(s.sub) = 1
    <3>1. 1 .. Len(s.sub) = {1}
      BY <2>1
    <3>2. NamedIn(s.sub) = Named(s.sub[1]) /\ Jumped(s.sub[1]) \subseteq JumpedIn(s.sub)
      BY <3>1 DEF NamedIn, JumpedIn
    <3> QED BY <1>1, <1>2, <2>1, <3>2
  <2>2. CASE Len(s.sub) = 2
    <3>1. 1 .. Len(s.sub) = {1, 2}
      BY <2>2
    <3>2. /\ NamedIn(s.sub) = Named(s.sub[1]) \cup Named(s.sub[2])
          /\ Jumped(s.sub[1]) \subseteq JumpedIn(s.sub)
      BY <3>1 DEF NamedIn, JumpedIn
    <3> QED BY <1>1, <1>2, <2>2, <3>2
  <2> QED BY <1>2, <2>1, <2>2
<1>4. Len(s.sub) = 2 => /\ s.sub[2] \in Statements /\ Jumped(s.sub[2]) \subseteq all
                        /\ Named(s.sub[1]) \cap Named(s.sub[2]) = {}
  BY <1>1, <1>2 DEF JumpedIn, Unique
<1>5. /\ a \in SUBSET all /\ b \in SUBSET all /\ c \in SUBSET all /\ e \in SUBSET all
      /\ Named(s.sub[1]) \cap p = {} /\ other \cap b = {}
      /\ n + 1 \notin a /\ n + 2 \notin c /\ e = Done(s, n, p)
  BY <1>1, <1>3, <1>4 DEF Done, Fresh
<1>6. /\ Step(all, Emit("jz", s.of, n + 1), d, p, d, p)
      /\ Step(all, Jump(n + 2), d, a, d, a)
  BY <1>1, <1>5, EmitStepIs DEF Jump, Jumps
<1>7. Step(all, Compile(s.sub[1]), d, p, d, a)
  BY <1>1, <1>3, <1>5, CompileStepIs
<1>8. Step(all, Label(n + 1), d, a, d, b) /\ Step(all, Label(n + 2), d, c, d, e)
  BY <1>1, <1>5, LabelStep
<1>9. Leads(all, IF Len(s.sub) = 2 THEN <<Compile(s.sub[2])>> ELSE <<>>, d, b, d, c)
  <2>1. CASE Len(s.sub) = 2
    <3>1. Step(all, Compile(s.sub[2]), d, b, d, c)
      BY <1>4, <1>5, <2>1, CompileStepIs
    <3> HIDE DEF b, c
    <3>2. Leads(all, <<Compile(s.sub[2])>>, d, b, d, c)
      BY <1>5, <3>1, OneStep
    <3> QED BY <2>1, <3>2
  <2>2. CASE Len(s.sub) # 2
    <3>1. c = b
      BY <2>2
    <3> HIDE DEF b, c
    <3>2. Leads(all, <<>>, d, b, d, b)
      BY <1>5, NoStep
    <3> QED BY <2>2, <3>1, <3>2
  <2> QED BY <2>1, <2>2
<1> HIDE DEF a, b, c, e
<1>10. Leads(all, <<Emit("jz", s.of, n + 1), Compile(s.sub[1]), Jump(n + 2), Label(n + 1)>>,
             d, p, d, b)
  BY <1>1, <1>5, <1>6, <1>7, <1>8, FourSteps
<1>11. Leads(all, <<Label(n + 2)>>, d, c, d, e)
  BY <1>5, <1>8, OneStep
<1>12. Leads(all, PlanIf(s, n), d, p, d, e)
  BY <1>9, <1>10, <1>11, Further DEF PlanIf
<1> QED BY <1>5, <1>12 DEF Planned

LEMMA SwitchLeads ==
    ASSUME StatementsAssumption, LabelsAssumption, NEW all, NEW s, NEW n, NEW d \in Nat, NEW p,
           Ready(all, s, n, p), s.kind = "switch"
    PROVE  Planned(all, s, n, d, p, PlanSwitch(s, n))
<1>1. /\ s \in Statements /\ n \in Nat /\ p \in SUBSET all
      /\ n + 1 \in all /\ n + 2 \in all
      /\ n + 1 \notin p /\ n + 2 \notin p
      /\ n + 1 \notin Named(s) /\ n + 2 \notin Named(s)
      /\ Named(s) \subseteq all /\ Jumped(s) \subseteq all /\ p \cap Named(s) = {}
  BY DEF Ready, Done, Fresh
<1> DEFINE a == p \cup Named(s)
           b == a \cup {n + 2}
           c == b \cup {n + 1}
<1>2. a \in SUBSET all /\ b \in SUBSET all /\ c \in SUBSET all /\ d + 1 \in Nat
  BY <1>1
<1>3. /\ Step(all, Label(n + 2), d + 1, a, d + 1, b)
      /\ Step(all, Label(n + 1), d, b, d, c)
  BY <1>1, <1>2, LabelStep
<1>4. /\ Step(all, Emit("park", s.of, n + 1), d, p, d, p)
      /\ Step(all, Jump(n + 2), d, p, d, p)
      /\ Step(all, Jump(n + 1), d + 1, a, d + 1, a)
  BY <1>1, <1>2, EmitStepIs DEF Jump, Jumps
<1>5. Step(all, Compile(s.sub[1]), d + 1, p, d + 1, a)
  BY <1>1, <1>2, OnePart, CompileStepIs
<1>6. /\ Step(all, Item("switch", n + 1), d, p, d + 1, p)
      /\ Step(all, Leave(FALSE), d + 1, a, d + 1, a)
      /\ Step(all, Item("decide", n + 1), d + 1, b, d, b)
  BY <1>1, <1>2, SwitchStepIs, LeaveStepIs, DecideStepIs
<1>7. c = Done(s, n, p)
  BY <1>1 DEF Done, Fresh
<1> HIDE DEF a, b, c
<1>8. Leads(all, <<Emit("park", s.of, n + 1), Jump(n + 2)>>, d, p, d, p)
  BY <1>1, <1>4, TwoSteps
<1>9. Leads(all, <<Item("switch", n + 1), Compile(s.sub[1]), Leave(FALSE)>>, d, p, d + 1, a)
  BY <1>1, <1>2, <1>5, <1>6, ThreeSteps
<1>10. Leads(all, <<Jump(n + 1), Label(n + 2), Item("decide", n + 1), Label(n + 1)>>,
             d + 1, a, d, c)
  BY <1>2, <1>3, <1>4, <1>6, FourSteps
<1>11. Leads(all, PlanSwitch(s, n), d, p, d, c)
  BY <1>8, <1>9, <1>10, Further DEF PlanSwitch
<1> QED BY <1>7, <1>11 DEF Planned

\* A list of statements
LEMMA AllLeads ==
    ASSUME NEW all, NEW ss \in Seq(Statements), Unique(ss),
           NEW d \in Nat, NEW p \in SUBSET all, NamedIn(ss) \cap p = {},
           NamedIn(ss) \subseteq all, JumpedIn(ss) \subseteq all
    PROVE  Leads(all, CompileAll(ss), d, p, d, p \cup NamedIn(ss))
<1> DEFINE z == Len(ss)
           t == CompileAll(ss)
           before(k) == UNION {Named(ss[j]) : j \in 1 .. k - 1}
           h == [k \in 1 .. z + 1 |-> d]
           g == [k \in 1 .. z + 1 |-> p \cup before(k)]
<1>1. z \in Nat /\ \A k \in 1 .. z : ss[k] \in Statements
  OBVIOUS
<1>2. t = [k \in 1 .. z |-> Compile(ss[k])]
  BY DEF CompileAll
<1> HIDE DEF t, z
<1>3. t \in Seq({Compile(ss[k]) : k \in 1 .. z}) /\ Len(t) = z
  BY <1>1, <1>2
<1>4. \A k \in 1 .. z : before(k + 1) = before(k) \cup Named(ss[k])
  <2> SUFFICES ASSUME NEW k \in 1 .. z, NEW l
               PROVE  l \in before(k + 1) <=> l \in before(k) \cup Named(ss[k])
    OBVIOUS
  <2>1. \A j : j \in 1 .. (k + 1) - 1 <=> j \in 1 .. k - 1 \/ j = k
    BY <1>1
  <2> QED BY <2>1
<1>5. before(1) = {} /\ before(z + 1) = NamedIn(ss)
  BY <1>1 DEF NamedIn, z
<1>6. \A k \in 1 .. z + 1 : before(k) \subseteq NamedIn(ss)
  <2> SUFFICES ASSUME NEW k \in 1 .. z + 1, NEW j \in 1 .. k - 1
               PROVE  Named(ss[j]) \subseteq NamedIn(ss)
    OBVIOUS
  <2>1. j \in 1 .. Len(ss)
    BY <1>1 DEF z
  <2> QED BY <2>1 DEF NamedIn
<1>7. \A k \in 1 .. z : /\ Named(ss[k]) \cap before(k) = {}
                        /\ Named(ss[k]) \subseteq NamedIn(ss) /\ Jumped(ss[k]) \subseteq all
  <2> SUFFICES ASSUME NEW k \in 1 .. z
               PROVE  /\ Named(ss[k]) \cap before(k) = {}
                      /\ Named(ss[k]) \subseteq NamedIn(ss) /\ Jumped(ss[k]) \subseteq all
    OBVIOUS
  <2>1. Named(ss[k]) \subseteq NamedIn(ss) /\ Jumped(ss[k]) \subseteq JumpedIn(ss)
    BY DEF NamedIn, JumpedIn, z
  <2>2. \A j \in 1 .. k - 1 : Named(ss[j]) \cap Named(ss[k]) = {}
    <3>1. \A j \in 1 .. k - 1 : j \in 1 .. Len(ss) /\ j # k
      BY <1>1 DEF z
    <3>2. k \in 1 .. Len(ss)
      BY DEF z
    <3> QED BY <3>1, <3>2 DEF Unique
  <2> QED BY <2>1, <2>2
<1> HIDE DEF before
<1>8. h \in [1 .. z + 1 -> Nat] /\ g \in [1 .. z + 1 -> SUBSET all]
  BY <1>6
<1>9. ASSUME NEW k \in 1 .. z
      PROVE  Step(all, t[k], h[k], g[k], h[k + 1], g[k + 1])
  <2>1. k \in 1 .. z + 1 /\ k + 1 \in 1 .. z + 1
    BY <1>1
  <2>2. h[k] = d /\ h[k + 1] = d /\ g[k] = p \cup before(k) /\ g[k + 1] = p \cup before(k + 1)
    BY <2>1
  <2>3. t[k] = Compile(ss[k])
    BY <1>2
  <2>4. g[k] \in SUBSET all /\ Named(ss[k]) \cap g[k] = {} /\ g[k + 1] = g[k] \cup Named(ss[k])
    BY <1>4, <1>6, <1>7, <2>1, <2>2
  <2> HIDE DEF g, h
  <2> QED BY <1>1, <1>7, <2>2, <2>3, <2>4, CompileStepIs
<1>10. h[1] = d /\ g[1] = p /\ h[z + 1] = d /\ g[z + 1] = p \cup NamedIn(ss)
  BY <1>1, <1>5
<1> HIDE DEF g, h
<1>11. Walk(all, t, h, g)
  BY <1>3, <1>8, <1>9 DEF Walk
<1>12. IsList(t)
  BY ONLY <1>3, Zenon DEF IsList
<1>13. Leads(all, t, d, p, d, p \cup NamedIn(ss))
  BY <1>3, <1>10, <1>11, <1>12 DEF Leads
<1> QED BY <1>13 DEF t

LEMMA SimpleLeads ==
    ASSUME StatementsAssumption, LabelsAssumption, NEW all, NEW s, NEW n, NEW d \in Nat, NEW p,
           Ready(all, s, n, p), s.kind \in Simple,
           s.kind = "break" => Last(breaks) \in all,
           s.kind = "continue" => Last(continues) \in all,
           s.kind \in {"case", "default"} => d >= 1
    PROVE  Planned(all, s, n, d, p, Plan(s, n))
<1> DEFINE q == Done(s, n, p)
<1>1. s \in Statements /\ n \in Nat /\ p \in SUBSET all /\ q \in SUBSET all
  BY DEF Ready, Done
<1>2. /\ s.kind # "label" => Named(s) = {}
      /\ s.kind = "label" => Named(s) = {s.of}
      /\ s.kind = "goto" => s.of \in all
  <2>1. s.sub = <<>>
    BY <1>1 DEF StatementsAssumption, Simple, LabelKinds, Loops
  <2>2. 1 .. Len(s.sub) = {}
    BY <2>1
  <2>3. NamedIn(s.sub) = {}
    BY <2>2 DEF NamedIn
  <2> QED BY <1>1, <2>3 DEF LabelsAssumption, Ready
<1>3. CASE s.kind = "null"
  <2>1. q = p
    BY <1>2, <1>3 DEF Done, Fresh
  <2>2. Plan(s, n) = <<>>
    BY <1>3 DEF Plan
  <2>3. Leads(all, <<>>, d, p, d, p)
    BY <1>1, NoStep
  <2> QED BY <2>1, <2>2, <2>3 DEF Planned
<1>4. CASE s.kind \in {"expr", "return", "break", "continue", "goto"}
  <2>1. q = p
    BY <1>2, <1>4 DEF Done, Fresh
  <2>2. /\ s.kind = "expr" => Plan(s, n) = <<Effect(s.of)>>
        /\ s.kind = "return" => Plan(s, n) = <<Emit("ret", 0, 0)>>
        /\ s.kind = "break" => Plan(s, n) = <<Jump(Last(breaks))>>
        /\ s.kind = "continue" => Plan(s, n) = <<Jump(Last(continues))>>
        /\ s.kind = "goto" => Plan(s, n) = <<Emit("jmp", 0, s.of)>>
    BY DEF Plan
  <2>3. PICK i : Plan(s, n) = <<i>> /\ Step(all, i, d, p, d, p)
    <3>1. /\ Step(all, Effect(s.of), d, p, d, p) /\ Step(all, Emit("ret", 0, 0), d, p, d, p)
          /\ s.kind = "break" => Step(all, Jump(Last(breaks)), d, p, d, p)
          /\ s.kind = "continue" => Step(all, Jump(Last(continues)), d, p, d, p)
          /\ s.kind = "goto" => Step(all, Emit("jmp", 0, s.of), d, p, d, p)
      BY <1>1, <1>2, EmitStepIs DEF Effect, Jump, Jumps
    <3> QED BY <1>4, <2>2, <3>1
  <2>4. Leads(all, <<i>>, d, p, d, p)
    BY <1>1, <2>3, OneStep
  <2> QED BY <2>1, <2>3, <2>4 DEF Planned
<1>5. CASE s.kind = "label"
  <2>1. q = p \cup {s.of} /\ s.of \in all /\ s.of \notin p
    BY <1>2, <1>5 DEF Done, Fresh, Ready
  <2>2. Plan(s, n) = <<Label(s.of)>>
    BY <1>5 DEF Plan, Label
  <2>3. Step(all, Label(s.of), d, p, d, p \cup {s.of})
    BY <1>1, <2>1, LabelStep
  <2> HIDE DEF q
  <2>4. Leads(all, <<Label(s.of)>>, d, p, d, q)
    BY <1>1, <2>1, <2>3, OneStep
  <2> QED BY <2>2, <2>4 DEF Planned, q
<1>6. CASE s.kind \in {"case", "default"}
  <2>1. q = p \cup {n + 1} /\ n + 1 \in all /\ n + 1 \notin p
    BY <1>1, <1>2, <1>6 DEF Done, Fresh, Ready
  <2> DEFINE i == Item(s.kind, [of |-> s.of, label |-> n + 1])
  <2>2. Plan(s, n) = <<Label(n + 1), i>>
    BY <1>6 DEF Plan
  <2>3. Step(all, Label(n + 1), d, p, d, p \cup {n + 1})
    BY <1>1, <2>1, LabelStep
  <2> HIDE DEF q
  <2>4. Step(all, i, d, q, d, q)
    BY <1>1, <1>6, <2>1, CaseStepIs
  <2> HIDE DEF i
  <2>5. Leads(all, <<Label(n + 1), i>>, d, p, d, q)
    BY <1>1, <2>1, <2>3, <2>4, TwoSteps
  <2> QED BY <2>2, <2>5 DEF Planned, q
<1> QED BY <1>3, <1>4, <1>5, <1>6 DEF Simple, LabelKinds

LEMMA PlanLeads ==
    ASSUME StatementsAssumption, LabelsAssumption, NEW all, NEW s, NEW n, NEW d \in Nat, NEW p,
           Ready(all, s, n, p),
           s.kind = "break" => Last(breaks) \in all,
           s.kind = "continue" => Last(continues) \in all,
           s.kind \in {"case", "default"} => d >= 1
    PROVE  Planned(all, s, n, d, p, Plan(s, n))
<1>1. /\ s \in Statements
      /\ \/ s.kind \in Simple \/ s.kind = "compound"
         \/ s.kind \in {"if", "while", "do", "for", "switch"}
  BY DEF Ready, StatementsAssumption, Loops
<1>2. CASE s.kind \in Simple
  BY <1>2, SimpleLeads
<1>3. CASE s.kind = "compound"
  <2>1. Plan(s, n) = CompileAll(s.sub)
    BY <1>3 DEF Plan
  <2>2. /\ s.sub \in Seq(Statements) /\ Unique(s.sub)
        /\ Named(s) = NamedIn(s.sub) /\ Jumped(s) = JumpedIn(s.sub)
    BY <1>1, <1>3 DEF StatementsAssumption, LabelsAssumption
  <2>3. /\ p \in SUBSET all /\ NamedIn(s.sub) \cap p = {}
        /\ NamedIn(s.sub) \subseteq all /\ JumpedIn(s.sub) \subseteq all
    BY <2>2 DEF Ready, Done
  <2>4. Leads(all, CompileAll(s.sub), d, p, d, p \cup NamedIn(s.sub))
    BY <2>2, <2>3, AllLeads
  <2>5. Done(s, n, p) = p \cup NamedIn(s.sub)
    BY <1>3, <2>2 DEF Done, Fresh
  <2> QED BY <2>1, <2>4, <2>5 DEF Planned
<1>4. CASE s.kind \in {"if", "while", "do", "for", "switch"}
  <2>1. /\ s.kind = "if" => Plan(s, n) = PlanIf(s, n)
        /\ s.kind = "while" => Plan(s, n) = PlanWhile(s, n)
        /\ s.kind = "do" => Plan(s, n) = PlanDo(s, n)
        /\ s.kind = "for" => Plan(s, n) = PlanFor(s, n)
        /\ s.kind = "switch" => Plan(s, n) = PlanSwitch(s, n)
    BY DEF Plan
  <2> QED BY <1>4, <2>1, IfLeads, WhileLeads, DoLeads, ForLeads, SwitchLeads
<1> QED BY <1>1, <1>2, <1>3, <1>4

-----------------------------------------------------------------------------
(* Lists that grow and shrink at their end                                 *)

LEMMA ListGrows ==
    ASSUME NEW s, IsList(s), NEW x
    PROVE  /\ Len(s) \in Nat
           /\ IsList(Append(s, x)) /\ Len(Append(s, x)) = Len(s) + 1
           /\ \A k \in 1 .. Len(s) : Append(s, x)[k] = s[k]
           /\ Append(s, x)[Len(s) + 1] = x
<1>1. PICK S : s \in Seq(S)
  BY DEF IsList
<1>2. s \in Seq(S \cup {x}) /\ Len(s) \in Nat
  BY <1>1
<1>3. Append(s, x) \in Seq(S \cup {x}) /\ Len(Append(s, x)) = Len(s) + 1
      /\ \A k \in 1 .. Len(s) : Append(s, x)[k] = s[k]
      /\ Append(s, x)[Len(s) + 1] = x
  BY <1>2
<1>4. IsList(Append(s, x))
  BY ONLY <1>3, Zenon DEF IsList
<1> QED BY <1>2, <1>3, <1>4

\* A list of which a part at the end is cut off, or nothing if there is none
LEMMA ListShrinks ==
    ASSUME NEW s, IsList(s)
    PROVE  /\ Len(s) \in Nat /\ IsList(Front(s))
           /\ Len(s) >= 1 => Len(Front(s)) = Len(s) - 1
           /\ \A k \in 1 .. Len(Front(s)) : k \in 1 .. Len(s) /\ Front(s)[k] = s[k]
<1>1. PICK S : s \in Seq(S)
  BY DEF IsList
<1> DEFINE n == Len(s) - 1
<1>2. Len(s) \in Nat /\ n \in Int /\ n < Len(s)
  BY <1>1
<1>3. Front(s) = SubSeq(s, 1, n)
  BY DEF Front
<1> HIDE DEF n
<1>4. \A i \in 1 .. n : s[i] \in S
  BY <1>1, <1>2
<1>5. /\ SubSeq(s, 1, n) \in Seq(S)
      /\ Len(SubSeq(s, 1, n)) = IF 1 <= n THEN n - 1 + 1 ELSE 0
      /\ \A i \in 1 .. n - 1 + 1 : SubSeq(s, 1, n)[i] = s[1 + i - 1]
  BY <1>2, <1>4, SubSeqProperties
<1>6. IsList(SubSeq(s, 1, n))
  BY ONLY <1>5, Zenon DEF IsList
<1>7. CASE n >= 1
  <2>1. Len(SubSeq(s, 1, n)) = n /\ \A k \in 1 .. n : k \in 1 .. Len(s) /\ 1 + k - 1 = k
    BY <1>2, <1>5, <1>7
  <2>2. \A k \in 1 .. n : SubSeq(s, 1, n)[k] = s[k]
    BY <1>2, <1>5, <1>7, <2>1
  <2>3. n = Len(s) - 1
    BY DEF n
  <2> QED BY <1>2, <1>3, <1>6, <2>1, <2>2, <2>3
<1>8. CASE ~ (n >= 1)
  <2>1. Len(SubSeq(s, 1, n)) = 0 /\ 1 .. 0 = {}
    BY <1>2, <1>5, <1>8
  <2>2. n = Len(s) - 1
    BY DEF n
  <2>3. Len(s) >= 1 => Len(s) - 1 = 0
    BY <1>2, <1>8, <2>2
  <2> QED BY <1>2, <1>3, <1>6, <2>1, <2>3
<1> QED BY <1>7, <1>8

LEMMA ListsJoined ==
    ASSUME NEW s, IsList(s), NEW t, IsList(t)
    PROVE  /\ IsList(s \o t) /\ Len(s) \in Nat /\ Len(t) \in Nat /\ Len(s \o t) = Len(s) + Len(t)
           /\ \A k \in 1 .. Len(s) + Len(t) :
                 (s \o t)[k] = IF k <= Len(s) THEN s[k] ELSE t[k - Len(s)]
<1>1. PICK S : s \in Seq(S)
  BY DEF IsList
<1>2. PICK T : t \in Seq(T)
  BY DEF IsList
<1>3. s \in Seq(S \cup T) /\ t \in Seq(S \cup T)
  BY <1>1, <1>2
<1>4. /\ s \o t \in Seq(S \cup T) /\ Len(s) \in Nat /\ Len(t) \in Nat
      /\ Len(s \o t) = Len(s) + Len(t)
      /\ \A k \in 1 .. Len(s) + Len(t) :
            (s \o t)[k] = IF k <= Len(s) THEN s[k] ELSE t[k - Len(s)]
  BY <1>3
<1>5. IsList(s \o t)
  BY ONLY <1>4, Zenon DEF IsList
<1> QED BY <1>4, <1>5

-----------------------------------------------------------------------------
(* The inductive invariant                                                 *)

IsLabel(c, k) == k \in 1 .. Len(c) /\ c[k].op = "label"

\* The labels the code c defines.
Lines(c) == {c[k].label : k \in {j \in 1 .. Len(c) : IsLabel(c, j)}}

\* The code defines no label twice and jumps to labels of the function.
CodeSound(all, c) ==
    /\ IsList(c)
    /\ \A k \in 1 .. Len(c) : c[k].op \in Jumps => c[k].label \in all
    /\ \A j, k \in 1 .. Len(c) :
          IsLabel(c, j) /\ IsLabel(c, k) /\ c[j].label = c[k].label => j = k

Holds(all, s) == IsList(s) /\ \A k \in 1 .. Len(s) : s[k] \in all

SwitchSound(all, w) ==
    /\ w = [cases |-> w.cases, default |-> w.default]
    /\ IsList(w.cases) /\ \A j \in 1 .. Len(w.cases) : w.cases[j].label \in all
    /\ w.default # 0 => w.default \in all

\* So do the stacks.
StacksSound(all) ==
    /\ Holds(all, breaks) /\ Holds(all, continues)
    /\ IsList(switches) /\ \A k \in 1 .. Len(switches) : SwitchSound(all, switches[k])

\* Labels the counter has not given are not among those of the function.
Counted(all) == labels \in Nat /\ \A l \in all : l \in Nat => l <= labels

Sound(all) ==
    /\ Leads(all, todo, Len(switches), Lines(code), 0, all)
    /\ CodeSound(all, code) /\ StacksSound(all) /\ Counted(all)

IInv == \E all : Sound(all)

LEMMA InitIInv ==
    ASSUME StatementsAssumption, LabelsAssumption, NEW b \in Bodies, Begin(b) PROVE IInv
<1> DEFINE all == NamedIn(b)
<1>1. /\ b \in Seq(Statements) /\ Unique(b) /\ JumpedIn(b) \subseteq all
      /\ \A s \in Statements : Named(s) \cap Nat = {}
  BY DEF StatementsAssumption, LabelsAssumption
<1>2. \A l \in all : l \notin Nat
  BY <1>1 DEF NamedIn
<1>3. /\ todo = CompileAll(b) /\ breaks = <<>> /\ continues = <<>> /\ switches = <<>>
      /\ labels = 0 /\ code = <<>>
  BY DEF Begin
<1>4. Len(<<>>) = 0 /\ 1 .. 0 = {} /\ <<>> \in Seq({})
  OBVIOUS
<1>5. IsList(<<>>)
  BY ONLY <1>4, Zenon DEF IsList
<1>6. Lines(code) = {} /\ CodeSound(all, code)
  BY <1>3, <1>4, <1>5 DEF Lines, CodeSound
<1>7. StacksSound(all) /\ Counted(all)
  BY <1>2, <1>3, <1>4, <1>5 DEF StacksSound, Holds, Counted
<1>8. Leads(all, CompileAll(b), 0, {}, 0, {} \cup all)
  BY <1>1, AllLeads
<1>9. {} \cup all = all
  OBVIOUS
<1> HIDE DEF all
<1>10. Sound(all)
  BY <1>3, <1>4, <1>6, <1>7, <1>8, <1>9 DEF Sound
<1> QED BY <1>10 DEF IInv

\* The first item of what is to be compiled
LEMMA NextItem ==
    ASSUME NEW all, Sound(all), todo # <<>>
    PROVE  /\ Len(switches) \in Nat /\ Lines(code) \in SUBSET all
           /\ \E m \in Nat, q \in SUBSET all :
                 /\ Step(all, Head(todo), Len(switches), Lines(code), m, q)
                 /\ Leads(all, Tail(todo), m, q, 0, all)
BY Onward DEF Sound

\* With more labels everything is as sound as before.
LEMMA MoreLabels ==
    ASSUME NEW all, NEW more, all \subseteq more
    PROVE  /\ CodeSound(all, code) => CodeSound(more, code)
           /\ StacksSound(all) => StacksSound(more)
<1>1. CodeSound(all, code) => CodeSound(more, code)
  BY DEF CodeSound
<1>2. \A w : SwitchSound(all, w) => SwitchSound(more, w)
  BY DEF SwitchSound
<1>3. StacksSound(all) => StacksSound(more)
  BY <1>2 DEF StacksSound, Holds
<1> QED BY <1>1, <1>3

LEMMA StepCompile ==
    ASSUME StatementsAssumption, LabelsAssumption, IInv, CompileStep PROVE IInv'
<1> DEFINE s == Head(todo).of
           n == labels
           d == Len(switches)
           p == Lines(code)
           new == Fresh(s, n)
<1>1. /\ todo # <<>> /\ Head(todo).do = "compile" /\ Accepted(s)
      /\ todo' = Plan(s, n) \o Tail(todo) /\ labels' = n + 3
      /\ UNCHANGED <<breaks, continues, switches, code>>
  BY DEF CompileStep, Now, Arg, Taken
<1>2. PICK all : Sound(all)
  BY DEF IInv
<1>3. PICK m \in Nat, q \in SUBSET all :
         Step(all, Head(todo), d, p, m, q) /\ Leads(all, Tail(todo), m, q, 0, all)
  BY <1>1, <1>2, NextItem
<1>4. /\ d \in Nat /\ p \in SUBSET all /\ n \in Nat
      /\ \A l \in all : l \in Nat => l <= n
  BY <1>1, <1>2, NextItem DEF Sound, Counted
<1>5. /\ s \in Statements /\ m = d /\ q = p \cup Named(s) /\ Named(s) \cap p = {}
      /\ Jumped(s) \subseteq all
  BY <1>1, <1>3 DEF Step, Defines, Needs
<1>6. new \in SUBSET {n + 1, n + 2, n + 3} /\ new \cap all = {}
  BY <1>4 DEF Fresh
<1>7. Ready(all \cup new, s, n, p)
  <2>1. new \cap Named(s) = {}
    BY <1>4, <1>5, <1>6 DEF LabelsAssumption
  <2>2. Done(s, n, p) = q \cup new
    BY <1>5 DEF Done
  <2> HIDE DEF new
  <2>3. p \cap new = {} /\ Done(s, n, p) \subseteq all \cup new
    BY <1>4, <1>6, <2>2
  <2> QED BY <1>4, <1>5, <2>1, <2>3 DEF Ready, new
<1>8. /\ s.kind = "break" => Last(breaks) \in all \cup new
      /\ s.kind = "continue" => Last(continues) \in all \cup new
      /\ s.kind \in {"case", "default"} => d >= 1
  <2>1. StacksSound(all)
    BY <1>2 DEF Sound
  <2>2. \A t : Holds(all, t) /\ t # <<>> => Last(t) \in all
    <3> SUFFICES ASSUME NEW t, Holds(all, t), t # <<>> PROVE Last(t) \in all
      OBVIOUS
    <3>1. PICK S : t \in Seq(S)
      BY DEF Holds, IsList
    <3>2. Len(t) \in 1 .. Len(t)
      BY <3>1
    <3> QED BY <3>2 DEF Holds, Last
  <2>3. switches # <<>> => d >= 1
    <3>1. PICK S : switches \in Seq(S)
      BY <2>1 DEF StacksSound, IsList
    <3> QED BY <3>1
  <2> QED BY <1>1, <2>1, <2>2, <2>3 DEF StacksSound, Accepted
<1>9. Planned(all \cup new, s, n, d, p, Plan(s, n))
  <2> HIDE DEF new, s, n, d, p
  <2> QED BY <1>4, <1>7, <1>8, PlanLeads
<1>10. Leads(all \cup new, Tail(todo), m, q \cup new, 0, all \cup new)
  BY <1>3, <1>6, Wider
<1>11. Leads(all \cup new, Plan(s, n) \o Tail(todo), d, p, 0, all \cup new)
  <2>1. Done(s, n, p) = q \cup new
    BY <1>5 DEF Done
  <2> HIDE DEF new, s, n, d, p
  <2> QED BY <1>5, <1>9, <1>10, <2>1, Further DEF Planned
<1>12. CodeSound(all \cup new, code) /\ StacksSound(all \cup new)
  BY <1>2, MoreLabels DEF Sound
<1>13. \A l \in all \cup new : l \in Nat => l <= n + 3
  BY <1>4, <1>6
<1>14. PICK more : more = all \cup new
  OBVIOUS
<1> HIDE DEF new, s
<1>15. Leads(more, todo', Len(switches'), Lines(code'), 0, more)
  BY <1>1, <1>11, <1>14
<1>16. CodeSound(more, code')
  BY <1>1, <1>12, <1>14
<1>17. StacksSound(more)'
  BY <1>1, <1>12, <1>14 DEF StacksSound
<1>18. Counted(more)'
  BY <1>1, <1>4, <1>13, <1>14 DEF Counted
<1>19. Sound(more)'
  BY <1>15, <1>16, <1>17, <1>18 DEF Sound
<1> QED BY <1>19 DEF IInv

\* A step that takes the first item keeps the invariant if the switches and the
\* code become what the item makes of them.
LEMMA Keeps ==
    ASSUME NEW all, Sound(all), todo # <<>>, todo' = Tail(todo), labels' = labels,
           \A m \in Nat, q \in SUBSET all :
              Step(all, Head(todo), Len(switches), Lines(code), m, q) =>
                 Len(switches') = m /\ Lines(code') = q,
           CodeSound(all, code'), StacksSound(all)'
    PROVE  IInv'
<1>1. PICK m \in Nat, q \in SUBSET all :
         /\ Step(all, Head(todo), Len(switches), Lines(code), m, q)
         /\ Leads(all, Tail(todo), m, q, 0, all)
  BY NextItem
<1>2. Leads(all, todo', Len(switches'), Lines(code'), 0, all)
  BY <1>1
<1>3. Counted(all)'
  BY DEF Sound, Counted
<1>4. Sound(all)'
  BY <1>2, <1>3 DEF Sound, CodeSound, Lines, IsLabel
<1> QED BY <1>4 DEF IInv

LEMMA LinesAre ==
    ASSUME NEW c, NEW l
    PROVE  l \in Lines(c) <=> \E k : IsLabel(c, k) /\ c[k].label = l
BY DEF Lines, IsLabel

\* One instruction more
LEMMA Appended ==
    ASSUME NEW all, NEW c, CodeSound(all, c), NEW x,
           x.op \in Jumps => x.label \in all, x.op = "label" => x.label \notin Lines(c)
    PROVE  /\ CodeSound(all, Append(c, x))
           /\ Lines(Append(c, x)) = Lines(c) \cup (IF x.op = "label" THEN {x.label} ELSE {})
<1> DEFINE e == Append(c, x)
           n == Len(c) + 1
<1>1. /\ Len(c) \in Nat /\ IsList(e) /\ Len(e) = n /\ e[n] = x
      /\ \A k \in 1 .. Len(c) : e[k] = c[k]
  BY ListGrows DEF CodeSound
<1>2. \A k : k \in 1 .. n <=> k \in 1 .. Len(c) \/ k = n
  BY <1>1
<1>3. n \notin 1 .. Len(c)
  BY <1>1
<1> HIDE DEF e, n
<1>4. \A k : IsLabel(e, k) <=> (IsLabel(c, k) \/ (k = n /\ x.op = "label"))
  BY <1>1, <1>2, <1>3 DEF IsLabel
<1>5. \A k : IsLabel(c, k) => e[k] = c[k] /\ c[k].label \in Lines(c)
  BY <1>1, LinesAre DEF IsLabel
<1>6. \A k \in 1 .. Len(e) : e[k].op \in Jumps => e[k].label \in all
  BY <1>1, <1>2 DEF CodeSound
<1>7. ASSUME NEW j, NEW k, IsLabel(e, j), IsLabel(e, k), e[j].label = e[k].label PROVE j = k
  <2>1. j # n /\ k # n => IsLabel(c, j) /\ IsLabel(c, k) /\ c[j].label = c[k].label
    BY <1>4, <1>5, <1>7
  <2>2. j # n /\ k # n => j = k
    BY <2>1 DEF CodeSound, IsLabel
  <2>3. ~ (j = n /\ k # n) /\ ~ (j # n /\ k = n)
    BY <1>1, <1>3, <1>4, <1>5, <1>7 DEF IsLabel
  <2> QED BY <2>2, <2>3
<1>8. CodeSound(all, e)
  BY <1>1, <1>6, <1>7 DEF CodeSound
<1>9. ASSUME NEW l
      PROVE  l \in Lines(e) <=> (l \in Lines(c) \/ (x.op = "label" /\ l = x.label))
  <2>1. l \in Lines(e) <=> \E k : IsLabel(e, k) /\ e[k].label = l
    BY LinesAre
  <2>2. l \in Lines(c) <=> \E k : IsLabel(c, k) /\ c[k].label = l
    BY LinesAre
  <2> QED BY <1>1, <1>4, <1>5, <2>1, <2>2
<1>10. Lines(e) = Lines(c) \cup (IF x.op = "label" THEN {x.label} ELSE {})
  BY <1>9
<1> QED BY <1>8, <1>10 DEF e

\* Jumps appended
LEMMA JumpsJoined ==
    ASSUME NEW all, NEW c, CodeSound(all, c), NEW t, IsList(t),
           \A k \in 1 .. Len(t) : t[k].op \in {"jmp", "cmp"} /\ t[k].label \in all
    PROVE  CodeSound(all, c \o t) /\ Lines(c \o t) = Lines(c)
<1> DEFINE e == c \o t
<1>1. /\ IsList(e) /\ Len(c) \in Nat /\ Len(t) \in Nat /\ Len(e) = Len(c) + Len(t)
      /\ \A k \in 1 .. Len(c) + Len(t) : e[k] = IF k <= Len(c) THEN c[k] ELSE t[k - Len(c)]
  BY ListsJoined DEF CodeSound
<1> HIDE DEF e
<1>2. ASSUME NEW k \in 1 .. Len(e)
      PROVE  \/ k \in 1 .. Len(c) /\ e[k] = c[k]
             \/ k \notin 1 .. Len(c) /\ k - Len(c) \in 1 .. Len(t) /\ e[k] = t[k - Len(c)]
  <2>1. k \in 1 .. Len(c) + Len(t)
    BY <1>1
  <2>2. CASE k <= Len(c)
    BY <1>1, <2>1, <2>2
  <2>3. CASE ~ (k <= Len(c))
    <3>1. k \notin 1 .. Len(c) /\ k - Len(c) \in 1 .. Len(t)
      BY <1>1, <2>1, <2>3
    <3> QED BY <1>1, <2>1, <2>3, <3>1
  <2> QED BY <2>2, <2>3
<1>3. \A k \in 1 .. Len(e) : k \notin 1 .. Len(c) => e[k].op \in {"jmp", "cmp"} /\ e[k].label \in all
  BY <1>2
<1>4. \A k \in 1 .. Len(c) : k \in 1 .. Len(e) /\ e[k] = c[k]
  BY <1>1
<1>5. \A k : IsLabel(e, k) <=> IsLabel(c, k)
  BY <1>3, <1>4 DEF IsLabel
<1>6. \A k : IsLabel(c, k) => e[k] = c[k]
  BY <1>4 DEF IsLabel
<1>7. \A k \in 1 .. Len(e) : e[k].op \in Jumps => e[k].label \in all
  BY <1>3, <1>4 DEF CodeSound
<1>8. \A j, k \in 1 .. Len(e) : IsLabel(e, j) /\ IsLabel(e, k) /\ e[j].label = e[k].label => j = k
  BY <1>5, <1>6 DEF CodeSound, IsLabel
<1>9. CodeSound(all, e)
  BY <1>1, <1>7, <1>8 DEF CodeSound
<1>10. \A l : l \in Lines(e) <=> l \in Lines(c)
  BY <1>5, <1>6, LinesAre
<1>11. Lines(e) = Lines(c)
  BY <1>10
<1> QED BY <1>9, <1>11 DEF e

LEMMA HoldsMore ==
    ASSUME NEW all, NEW s, Holds(all, s), NEW x \in all PROVE Holds(all, Append(s, x))
<1>1. /\ Len(s) \in Nat /\ IsList(Append(s, x)) /\ Len(Append(s, x)) = Len(s) + 1
      /\ \A k \in 1 .. Len(s) : Append(s, x)[k] = s[k]
      /\ Append(s, x)[Len(s) + 1] = x
  BY ListGrows DEF Holds
<1>2. \A k \in 1 .. Len(Append(s, x)) : k \in 1 .. Len(s) \/ k = Len(s) + 1
  BY <1>1
<1> QED BY <1>1, <1>2 DEF Holds

LEMMA HoldsLess ==
    ASSUME NEW all, NEW s, Holds(all, s) PROVE Holds(all, Front(s))
<1>1. IsList(Front(s)) /\ \A k \in 1 .. Len(Front(s)) : k \in 1 .. Len(s) /\ Front(s)[k] = s[k]
  BY ListShrinks DEF Holds
<1> QED BY <1>1 DEF Holds

-----------------------------------------------------------------------------
(* The steps                                                               *)

LEMMA StepEmit ==
    ASSUME IInv, EmitStep PROVE IInv'
<1> DEFINE x == Head(todo).of
<1>1. /\ todo # <<>> /\ Head(todo).do = "emit" /\ todo' = Tail(todo)
      /\ code' = Append(code, x) /\ UNCHANGED <<breaks, continues, switches, labels>>
  BY DEF EmitStep, Now, Arg, Advance
<1>2. PICK all : Sound(all)
  BY DEF IInv
<1>3. PICK m \in Nat, q \in SUBSET all : Step(all, Head(todo), Len(switches), Lines(code), m, q)
  BY <1>1, <1>2, NextItem
<1>4. (x.op \in Jumps => x.label \in all) /\ (x.op = "label" => x.label \notin Lines(code))
  BY <1>1, <1>3 DEF Step, Needs, Defines
<1>5. CodeSound(all, code) /\ StacksSound(all)
  BY <1>2 DEF Sound
<1>6. Defines(Head(todo)) = IF x.op = "label" THEN {x.label} ELSE {}
  BY <1>1 DEF Defines
<1> HIDE DEF x
<1>7. CodeSound(all, code') /\ Lines(code') = Lines(code) \cup Defines(Head(todo))
  BY <1>1, <1>4, <1>5, <1>6, Appended
<1>8. StacksSound(all)'
  BY <1>1, <1>5 DEF StacksSound
<1>9. ASSUME NEW i \in Nat, NEW l \in SUBSET all,
             Step(all, Head(todo), Len(switches), Lines(code), i, l)
      PROVE  Len(switches') = i /\ Lines(code') = l
  BY <1>1, <1>7, <1>9 DEF Step
<1> QED BY <1>1, <1>2, <1>7, <1>8, <1>9, Keeps

LEMMA StepEnterLoop ==
    ASSUME IInv, EnterLoop PROVE IInv'
<1> DEFINE x == Head(todo).of
<1>1. /\ todo # <<>> /\ Head(todo).do = "enter" /\ todo' = Tail(todo)
      /\ breaks' = Append(breaks, x.break) /\ continues' = Append(continues, x.continue)
      /\ UNCHANGED <<switches, labels, code>>
  BY DEF EnterLoop, Now, Arg, Advance
<1>2. PICK all : Sound(all)
  BY DEF IInv
<1>3. PICK m \in Nat, q \in SUBSET all : Step(all, Head(todo), Len(switches), Lines(code), m, q)
  BY <1>1, <1>2, NextItem
<1>4. x.break \in all /\ x.continue \in all
  BY <1>1, <1>3 DEF Step, Needs
<1>5. CodeSound(all, code) /\ StacksSound(all)
  BY <1>2 DEF Sound
<1>6. Defines(Head(todo)) = {}
  BY <1>1 DEF Defines
<1>7. CodeSound(all, code')
  BY <1>1, <1>5
<1>8. Holds(all, breaks') /\ Holds(all, continues')
  BY <1>1, <1>4, <1>5, HoldsMore DEF StacksSound
<1>9. StacksSound(all)'
  BY <1>1, <1>5, <1>8 DEF StacksSound
<1>10. ASSUME NEW i \in Nat, NEW l \in SUBSET all,
             Step(all, Head(todo), Len(switches), Lines(code), i, l)
       PROVE  Len(switches') = i /\ Lines(code') = l
  BY <1>1, <1>6, <1>10 DEF Step
<1> QED BY <1>1, <1>2, <1>7, <1>9, <1>10, Keeps

LEMMA StepEnterSwitch ==
    ASSUME IInv, EnterSwitch PROVE IInv'
<1> DEFINE w == [cases |-> <<>>, default |-> 0]
<1>1. /\ todo # <<>> /\ Head(todo).do = "switch" /\ todo' = Tail(todo)
      /\ breaks' = Append(breaks, Head(todo).of) /\ switches' = Append(switches, w)
      /\ UNCHANGED <<continues, labels, code>>
  BY DEF EnterSwitch, Now, Arg, Advance
<1>2. PICK all : Sound(all)
  BY DEF IInv
<1>3. PICK m \in Nat, q \in SUBSET all : Step(all, Head(todo), Len(switches), Lines(code), m, q)
  BY <1>1, <1>2, NextItem
<1>4. Head(todo).of \in all
  BY <1>1, <1>3 DEF Step, Needs
<1>5. CodeSound(all, code) /\ StacksSound(all)
  BY <1>2 DEF Sound
<1>6. Defines(Head(todo)) = {}
  BY <1>1 DEF Defines
<1>7. CodeSound(all, code') /\ Holds(all, breaks')
  BY <1>1, <1>4, <1>5, HoldsMore DEF StacksSound
<1>8. SwitchSound(all, w)
  <2>1. <<>> \in Seq({}) /\ Len(<<>>) = 0 /\ 1 .. 0 = {}
    OBVIOUS
  <2>2. IsList(<<>>)
    BY ONLY <2>1, Zenon DEF IsList
  <2> QED BY <2>1, <2>2 DEF SwitchSound
<1> HIDE DEF w
<1>9. /\ IsList(switches') /\ Len(switches') = Len(switches) + 1
      /\ \A k \in 1 .. Len(switches') : SwitchSound(all, switches'[k])
  <2>1. /\ Len(switches) \in Nat /\ IsList(Append(switches, w))
        /\ Len(Append(switches, w)) = Len(switches) + 1
        /\ \A k \in 1 .. Len(switches) : Append(switches, w)[k] = switches[k]
        /\ Append(switches, w)[Len(switches) + 1] = w
    BY <1>5, ListGrows DEF StacksSound
  <2>2. \A k \in 1 .. Len(Append(switches, w)) : k \in 1 .. Len(switches) \/ k = Len(switches) + 1
    BY <2>1
  <2> QED BY <1>1, <1>5, <1>8, <2>1, <2>2 DEF StacksSound
<1>10. StacksSound(all)'
  BY <1>1, <1>5, <1>7, <1>9 DEF StacksSound
<1>11. ASSUME NEW i \in Nat, NEW l \in SUBSET all,
             Step(all, Head(todo), Len(switches), Lines(code), i, l)
       PROVE  Len(switches') = i /\ Lines(code') = l
  BY <1>1, <1>6, <1>9, <1>11 DEF Step
<1> QED BY <1>1, <1>2, <1>7, <1>10, <1>11, Keeps

LEMMA StepLeave ==
    ASSUME IInv, LeaveStep PROVE IInv'
<1>1. /\ todo # <<>> /\ Head(todo).do = "leave" /\ todo' = Tail(todo)
      /\ breaks' = Front(breaks) /\ continues' \in {continues, Front(continues)}
      /\ UNCHANGED <<switches, labels, code>>
  BY DEF LeaveStep, Now, Arg, Advance
<1>2. PICK all : Sound(all)
  BY DEF IInv
<1>3. CodeSound(all, code) /\ StacksSound(all)
  BY <1>2 DEF Sound
<1>4. Defines(Head(todo)) = {}
  BY <1>1 DEF Defines
<1>5. CodeSound(all, code')
  BY <1>1, <1>3
<1>6. Holds(all, breaks') /\ Holds(all, continues')
  BY <1>1, <1>3, HoldsLess DEF StacksSound
<1>7. StacksSound(all)'
  BY <1>1, <1>3, <1>6 DEF StacksSound
<1>8. ASSUME NEW i \in Nat, NEW l \in SUBSET all,
             Step(all, Head(todo), Len(switches), Lines(code), i, l)
      PROVE  Len(switches') = i /\ Lines(code') = l
  BY <1>1, <1>4, <1>8 DEF Step
<1> QED BY <1>1, <1>2, <1>5, <1>7, <1>8, Keeps

LEMMA StepCase ==
    ASSUME IInv, CaseStep PROVE IInv'
<1> DEFINE x == Head(todo).of
           d == Len(switches)
           w == switches[d]
<1>1. /\ todo # <<>> /\ Head(todo).do \in {"case", "default"} /\ todo' = Tail(todo)
      /\ UNCHANGED <<breaks, continues, labels, code>>
  BY DEF CaseStep, Now, Advance
<1> DEFINE v == IF Now("case") THEN [w EXCEPT !.cases = Append(w.cases, x)]
                              ELSE [w EXCEPT !.default = x.label]
<1>2. switches' = [switches EXCEPT ![d] = v]
  <2>1. CASE Now("case")
    <3>1. switches' = [switches EXCEPT ![d].cases = Append(w.cases, x)]
      BY <2>1 DEF CaseStep, Arg, Now
    <3> QED BY <2>1, <3>1
  <2>2. CASE ~ Now("case")
    <3>1. switches' = [switches EXCEPT ![d].default = x.label]
      BY <2>2 DEF CaseStep, Arg
    <3> QED BY <2>2, <3>1
  <2> QED BY <2>1, <2>2
<1>3. PICK all : Sound(all)
  BY DEF IInv
<1>4. PICK m \in Nat, q \in SUBSET all : Step(all, Head(todo), Len(switches), Lines(code), m, q)
  BY <1>1, <1>3, NextItem
<1>5. x.label \in all /\ d >= 1 /\ d \in Nat
  BY <1>1, <1>3, <1>4, NextItem DEF Step, Needs
<1>6. CodeSound(all, code) /\ StacksSound(all)
  BY <1>3 DEF Sound
<1>7. SwitchSound(all, w) /\ IsList(switches)
  BY <1>5, <1>6 DEF StacksSound
<1> HIDE DEF x, w
<1>8. SwitchSound(all, v)
  <2>1. PICK a, b : w = [cases |-> a, default |-> b]
    BY <1>7 DEF SwitchSound
  <2>2. w.cases = a /\ w.default = b
    BY <2>1
  <2>3. /\ IsList(a) /\ \A j \in 1 .. Len(a) : a[j].label \in all
        /\ b # 0 => b \in all
    BY <1>7, <2>2 DEF SwitchSound
  <2>4. /\ Len(a) \in Nat /\ IsList(Append(a, x)) /\ Len(Append(a, x)) = Len(a) + 1
        /\ \A k \in 1 .. Len(a) : Append(a, x)[k] = a[k]
        /\ Append(a, x)[Len(a) + 1] = x
    BY <2>3, ListGrows
  <2>5. \A k \in 1 .. Len(Append(a, x)) : k \in 1 .. Len(a) \/ k = Len(a) + 1
    BY <2>4
  <2>6. \A j \in 1 .. Len(Append(a, x)) : Append(a, x)[j].label \in all
    BY <1>5, <2>3, <2>4, <2>5
  <2>7. CASE Now("case")
    <3>1. v = [cases |-> Append(a, x), default |-> b]
      BY <2>1, <2>7
    <3>2. v.cases = Append(a, x) /\ v.default = b
      BY <3>1
    <3> HIDE DEF v
    <3> QED BY <2>3, <2>4, <2>6, <3>1, <3>2 DEF SwitchSound
  <2>8. CASE ~ Now("case")
    <3>1. v = [cases |-> a, default |-> x.label]
      BY <2>1, <2>8
    <3>2. v.cases = a /\ v.default = x.label
      BY <3>1
    <3> HIDE DEF v
    <3> QED BY <1>5, <2>3, <3>1, <3>2 DEF SwitchSound
  <2> QED BY <2>7, <2>8
<1> HIDE DEF v
<1>9. /\ IsList(switches') /\ Len(switches') = d
      /\ \A k \in 1 .. d : switches'[k] = IF k = d THEN v ELSE switches[k]
  <2>1. PICK S : switches \in Seq(S)
    BY <1>7 DEF IsList
  <2>2. switches \in Seq(S \cup {v}) /\ d \in 1 .. Len(switches)
    BY <1>5, <2>1
  <2>3. switches' \in Seq(S \cup {v}) /\ Len(switches') = Len(switches)
        /\ \A k \in 1 .. d : switches'[k] = IF k = d THEN v ELSE switches[k]
    BY <1>2, <2>2
  <2>4. IsList(switches')
    BY ONLY <2>3, Zenon DEF IsList
  <2> QED BY <2>3, <2>4
<1>10. StacksSound(all)'
  <2>1. \A k \in 1 .. Len(switches') : SwitchSound(all, switches'[k])
    BY <1>6, <1>8, <1>9 DEF StacksSound
  <2> QED BY <1>1, <1>6, <1>9, <2>1 DEF StacksSound
<1>11. Defines(Head(todo)) = {}
  BY <1>1 DEF Defines
<1>12. CodeSound(all, code')
  BY <1>1, <1>6
<1>13. ASSUME NEW i \in Nat, NEW l \in SUBSET all,
             Step(all, Head(todo), Len(switches), Lines(code), i, l)
       PROVE  Len(switches') = i /\ Lines(code') = l
  BY <1>1, <1>9, <1>11, <1>13 DEF Step
<1> QED BY <1>1, <1>3, <1>10, <1>12, <1>13, Keeps

LEMMA StepDecide ==
    ASSUME IInv, DecideStep PROVE IInv'
<1> DEFINE s == Last(switches)
           cmps == [k \in 1 .. Len(s.cases) |->
                      Instr("cmp", [at |-> Head(todo).of, is |-> s.cases[k].of], s.cases[k].label)]
           rest == IF s.default = 0 THEN <<>> ELSE <<Instr("jmp", 0, s.default)>>
<1>1. /\ todo # <<>> /\ Head(todo).do = "decide" /\ todo' = Tail(todo)
      /\ code' = code \o cmps \o rest /\ switches' = Front(switches)
      /\ UNCHANGED <<breaks, continues, labels>>
  BY DEF DecideStep, Now, Arg, Advance
<1>2. PICK all : Sound(all)
  BY DEF IInv
<1>3. PICK m \in Nat, q \in SUBSET all : Step(all, Head(todo), Len(switches), Lines(code), m, q)
  BY <1>1, <1>2, NextItem
<1>4. Len(switches) \in Nat /\ Len(switches) >= 1
  BY <1>1, <1>2, <1>3, NextItem DEF Step
<1>5. CodeSound(all, code) /\ StacksSound(all)
  BY <1>2 DEF Sound
<1>6. SwitchSound(all, s) /\ IsList(switches)
  BY <1>4, <1>5 DEF StacksSound, Last
<1> HIDE DEF s
<1>7. IsList(cmps) /\ \A k \in 1 .. Len(cmps) : cmps[k].op \in {"jmp", "cmp"} /\ cmps[k].label \in all
  <2> DEFINE z == Len(s.cases)
             at == Head(todo).of
             S == {Instr("cmp", [at |-> at, is |-> s.cases[k].of], s.cases[k].label) : k \in 1 .. z}
  <2>1. z \in Nat
    <3>1. PICK T : s.cases \in Seq(T)
      BY <1>6 DEF SwitchSound, IsList
    <3> QED BY <3>1
  <2> HIDE DEF z
  <2>2. cmps \in Seq(S) /\ Len(cmps) = Len(s.cases)
    <3>1. cmps = [k \in 1 .. z |-> Instr("cmp", [at |-> at, is |-> s.cases[k].of], s.cases[k].label)]
      BY DEF z
    <3>2. \A k \in 1 .. z : cmps[k] \in S
      BY <3>1
    <3> HIDE DEF S, cmps, at
    <3>3. Len(cmps) = z /\ cmps \in Seq(S)
      BY <2>1, <3>1, <3>2
    <3> QED BY <3>3 DEF z
  <2>3. IsList(cmps)
    BY ONLY <2>2, Zenon DEF IsList
  <2>4. ASSUME NEW k \in 1 .. Len(s.cases) PROVE cmps[k].op = "cmp" /\ cmps[k].label = s.cases[k].label
    BY DEF Instr
  <2> HIDE DEF cmps, S
  <2> QED BY <1>6, <2>2, <2>3, <2>4 DEF SwitchSound
<1>8. IsList(rest) /\ \A k \in 1 .. Len(rest) : rest[k].op \in {"jmp", "cmp"} /\ rest[k].label \in all
  <2> DEFINE i == Instr("jmp", 0, s.default)
  <2>1. /\ <<>> \in Seq({}) /\ Len(<<>>) = 0 /\ 1 .. 0 = {}
        /\ <<i>> \in Seq({i}) /\ Len(<<i>>) = 1 /\ 1 .. 1 = {1} /\ <<i>>[1] = i
    OBVIOUS
  <2>2. i.op = "jmp" /\ i.label = s.default
    BY DEF Instr
  <2> HIDE DEF i
  <2>3. IsList(<<>>) /\ IsList(<<i>>)
    BY ONLY <2>1, Zenon DEF IsList
  <2>4. CASE s.default = 0
    <3>1. rest = <<>>
      BY <2>4
    <3> HIDE DEF rest
    <3> QED BY <2>1, <2>3, <3>1
  <2>5. CASE s.default # 0
    <3>1. rest = <<i>> /\ s.default \in all
      BY <1>6, <2>5 DEF i, SwitchSound
    <3> HIDE DEF rest
    <3> QED BY <2>1, <2>2, <2>3, <3>1
  <2> QED BY <2>4, <2>5
<1> HIDE DEF cmps, rest
<1>9. CodeSound(all, code \o cmps) /\ Lines(code \o cmps) = Lines(code)
  BY <1>5, <1>7, JumpsJoined
<1>10. CodeSound(all, code') /\ Lines(code') = Lines(code)
  BY <1>1, <1>8, <1>9, JumpsJoined
<1>11. /\ IsList(switches') /\ Len(switches') = Len(switches) - 1
       /\ \A k \in 1 .. Len(switches') : k \in 1 .. Len(switches) /\ switches'[k] = switches[k]
  BY <1>1, <1>4, <1>6, ListShrinks
<1>12. StacksSound(all)'
  <2>1. \A k \in 1 .. Len(switches') : SwitchSound(all, switches'[k])
    BY <1>5, <1>11 DEF StacksSound
  <2> QED BY <1>1, <1>5, <1>11, <2>1 DEF StacksSound
<1>13. Defines(Head(todo)) = {}
  BY <1>1 DEF Defines
<1>14. ASSUME NEW i \in Nat, NEW l \in SUBSET all,
             Step(all, Head(todo), Len(switches), Lines(code), i, l)
       PROVE  Len(switches') = i /\ Lines(code') = l
  BY <1>1, <1>10, <1>11, <1>13, <1>14 DEF Step
<1> QED BY <1>1, <1>2, <1>10, <1>12, <1>14, Keeps

\* What the compiler has emitted and what it has still to compile define each
\* label of the function once, and jump to no other.
THEOREM CompileInvariance == CompileSpec => []IInv
<1>1. ASSUME \E b \in Bodies : Begin(b) PROVE IInv
  BY <1>1, StatementsAssumption, LabelsAssumption, InitIInv
<1>2. ASSUME IInv, [CompileNext]_compiler PROVE IInv'
  <2>1. CASE CompileStep
    BY <1>2, <2>1, StatementsAssumption, LabelsAssumption, StepCompile
  <2>2. CASE EmitStep
    BY <1>2, <2>2, StepEmit
  <2>3. CASE EnterLoop
    BY <1>2, <2>3, StepEnterLoop
  <2>4. CASE EnterSwitch
    BY <1>2, <2>4, StepEnterSwitch
  <2>5. CASE LeaveStep
    BY <1>2, <2>5, StepLeave
  <2>6. CASE CaseStep
    BY <1>2, <2>6, StepCase
  <2>7. CASE DecideStep
    BY <1>2, <2>7, StepDecide
  <2>8. CASE UNCHANGED compiler
    <3>1. UNCHANGED <<todo, breaks, continues, switches, labels, code>>
      BY <2>8 DEF compiler
    <3>2. PICK all : Sound(all)
      BY <1>2 DEF IInv
    <3>3. Sound(all)'
      BY <3>1, <3>2 DEF Sound, StacksSound, Counted
    <3> QED BY <3>3 DEF IInv
  <2> QED BY <1>2, <2>1, <2>2, <2>3, <2>4, <2>5, <2>6, <2>7, <2>8 DEF CompileNext
<1> QED BY <1>1, <1>2, PTL DEF CompileSpec

LEMMA SoundOnce ==
    ASSUME IInv PROVE LabelsDefinedOnce
<1> SUFFICES ASSUME todo = <<>>, NEW p \in 1 .. Len(code), code[p].op \in Jumps
             PROVE  \E j \in 1 .. Len(code) :
                       /\ code[j].op = "label" /\ code[j].label = code[p].label
                       /\ \A r \in 1 .. Len(code) :
                             code[r].op = "label" /\ code[r].label = code[p].label => r = j
  BY DEF LabelsDefinedOnce, Compiled, Jumps
<1>1. PICK all : Sound(all)
  BY DEF IInv
<1>2. Lines(code) = all
  <2>1. PICK h, g : /\ g[1] = Lines(code) /\ g[Len(todo) + 1] = all
    BY <1>1 DEF Sound, Leads
  <2>2. Len(todo) + 1 = 1
    OBVIOUS
  <2> QED BY <2>1, <2>2
<1>3. CodeSound(all, code)
  BY <1>1 DEF Sound
<1>4. code[p].label \in Lines(code)
  BY <1>2, <1>3 DEF CodeSound
<1>5. PICK j : IsLabel(code, j) /\ code[j].label = code[p].label
  BY <1>4, LinesAre
<1>6. j \in 1 .. Len(code) /\ code[j].op = "label"
  BY <1>5 DEF IsLabel
<1>7. \A r \in 1 .. Len(code) :
         code[r].op = "label" /\ code[r].label = code[p].label => r = j
  BY <1>3, <1>5, <1>6 DEF CodeSound, IsLabel
<1> QED BY <1>5, <1>6, <1>7

\* tacc_cg_compile_stmt: however the statements of a function body are nested,
\* each label a jump of its code names is defined there, once.
THEOREM Labels_Once == CompileSpec => []LabelsDefinedOnce
<1>1. IInv => LabelsDefinedOnce
  BY SoundOnce
<1> QED BY <1>1, CompileInvariance, PTL
=============================================================================
