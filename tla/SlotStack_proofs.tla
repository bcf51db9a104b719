-------------------------- MODULE SlotStack_proofs --------------------------
(***************************************************************************)
(* Proofs about SlotStack, for every set of volatile registers, every set  *)
(* of values and any number of pending operands: whatever operations the   *)
(* client chooses, the generator state stays good (Slots_proofs).          *)
(***************************************************************************)
EXTENDS SlotStack, Slots_proofs

-----------------------------------------------------------------------------
(* The invariant *)

\* The slots are good, the variables hold what the program gives them, and
\* the last call got what was passed.
IInv ==
    /\ Good(cg)
    /\ mem \in [Data -> Val]
    /\ ref = mem
    /\ passed = meant

\* A function starts without operands.
LEMMA InitIInv == Init => IInv
<1> SUFFICES ASSUME Init PROVE IInv
  OBVIOUS
<1>1. <<>> \in Seq(Slot) /\ <<>> \in Seq(Val) /\ Len(<<>>) = 0
  OBVIOUS
<1>2. cg \in State /\ cg.stack = <<>> /\ cg.skip = 0
  BY <1>1, SlotsAssumption DEF Init, Start, State
<1>3. Good(cg)
  BY <1>1, <1>2 DEF Good, Runs, RegistersDistinct, PlacesExist, PlacesHold
<1>4. mem \in [Data -> Val]
  BY SlotStackAssumption DEF Init
<1> QED BY <1>3, <1>4 DEF Init, IInv

\* Every operation keeps it.
LEMMA StepIInv == IInv /\ [Next]_vars => IInv'
<1> SUFFICES ASSUME IInv, [Next]_vars PROVE IInv'
  OBVIOUS
<1>1. /\ Good(cg) /\ mem \in [Data -> Val] /\ ref = mem /\ passed = meant
      /\ Top(cg) = Len(cg.stack) /\ Len(cg.stack) \in Nat /\ Over(cg) = Len(cg.stack) - 1
  BY Parts DEF IInv, Over
<1>2. Data \subseteq Val /\ Funs \subseteq Val /\ Ints \subseteq Val
      /\ Junk \notin Data /\ Junk \notin Funs /\ Junk \notin Ints
  BY SlotStackAssumption
<1>3. Volatile \subseteq Volatile /\ Volatile # {}
  BY SlotsAssumption
<1>4. ASSUME Good(cg'), Quiet PROVE IInv'
  BY <1>1, <1>4 DEF IInv, Quiet
<1>5. CASE LoadOp
  <2>1. PICK v \in Val : cg' = Load(cg, v)
    BY <1>2, <1>5 DEF LoadOp
  <2> QED BY <1>1, <1>4, <1>5, <2>1, LoadGood DEF LoadOp
<1>6. CASE PushVoid
  BY <1>1, <1>4, <1>6, PushVoidGood DEF PushVoid
<1>7. CASE PopOp
  BY <1>1, <1>4, <1>7, PopGood DEF PopOp
<1>8. CASE SwapOp
  BY <1>1, <1>4, <1>8, SwapGood DEF SwapOp
<1>9. CASE RotOp
  BY <1>1, <1>4, <1>9, RotGood DEF RotOp
<1>10. CASE DupOp
  BY <1>1, <1>4, <1>10, DupGood DEF DupOp
<1>11. CASE SpillTop
  <2>1. Top(cg) \in 1 .. Len(cg.stack)
    BY <1>1, <1>11 DEF SpillTop
  <2> QED BY <1>1, <1>4, <1>11, <2>1, SpillGood DEF SpillTop
<1>12. CASE ExtendOp
  <2>1. Top(cg) \in 1 .. Len(cg.stack)
    BY <1>1, <1>12 DEF ExtendOp
  <2> QED BY <1>1, <1>3, <1>4, <1>12, <2>1, EnsureGood DEF ExtendOp, Extend
<1>13. CASE BinaryOp
  <2>1. /\ Len(cg.stack) > 1
        /\ cg.stack[Over(cg)].val # Junk /\ cg.stack[Top(cg)].val # Junk
        /\ Quiet
    BY <1>1, <1>2, <1>13 DEF BinaryOp, TopVal, OverVal
  <2>2. CASE cg' = Binop(cg, "sub")
    BY <1>1, <1>4, <2>1, <2>2, BinopGood DEF BinOps
  <2>3. CASE cg' = Shift(cg, "shl")
    BY <1>1, <1>4, <2>1, <2>3, ShiftGood DEF BinOps
  <2>4. CASE \E op \in {"div", "rem"} : cg' = Divide(cg, op)
    BY <1>1, <1>4, <2>1, <2>4, DivideGood
  <2> QED BY <1>13, <2>2, <2>3, <2>4 DEF BinaryOp
<1>14. CASE DerefOp
  <2>1. Good(Deref(cg, mem, mem))
    BY <1>1, <1>2, <1>14, DerefGood DEF DerefOp, TopVal
  <2> QED BY <1>1, <1>4, <1>14, <2>1 DEF DerefOp
<1>15. CASE StoreOp
  <2>1. Len(cg.stack) > 1 /\ cg.stack[Over(cg)].val \in Data /\ cg.stack[Top(cg)].val \in Ints
    BY <1>1, <1>15 DEF StoreOp, TopVal, OverVal
  <2>2. /\ Good(Pop(Pop(StoreOperands(cg))))
        /\ Stored(StoreOperands(cg), mem)
              = [mem EXCEPT ![cg.stack[Over(cg)].val] = cg.stack[Top(cg)].val]
    BY <1>1, <1>2, <2>1, StoreGood
  <2>3. /\ cg' = Pop(Pop(StoreOperands(cg))) /\ mem' = Stored(StoreOperands(cg), mem)
        /\ ref' = [ref EXCEPT ![cg.stack[Over(cg)].val] = cg.stack[Top(cg)].val]
        /\ UNCHANGED <<passed, meant>>
    BY <1>15 DEF StoreOp, TopVal, OverVal
  <2>4. [mem EXCEPT ![cg.stack[Over(cg)].val] = cg.stack[Top(cg)].val] \in [Data -> Val]
    BY <1>1, <1>2, <2>1
  <2> QED BY <1>1, <2>2, <2>3, <2>4 DEF IInv
<1>16. CASE CallOp
  <2>1. PICK n \in 0 .. Top(cg) - 1, result \in Ints, void \in BOOLEAN :
            /\ cg.stack[Top(cg) - n].val \in Funs
            /\ \A j \in 1 .. n : cg.stack[Top(cg) - n + j].val # Junk
            /\ passed' = Passed(cg, n)
            /\ meant' = [j \in 0 .. n |-> cg.stack[Top(cg) - n + j].val]
            /\ cg' = Call(cg, n, result, void)
            /\ UNCHANGED <<mem, ref>>
    BY <1>16 DEF CallOp
  <2>2. result \in Val
    BY <1>2
  <2>3. Good(cg')
    BY <1>1, <2>1, <2>2, CallGood
  <2>4. \A j \in 0 .. n : cg.stack[Top(cg) - n + j].val # Junk
    <3>1. Top(cg) - n + 0 = Top(cg) - n
      BY <1>1
    <3>2. cg.stack[Top(cg) - n + 0].val # Junk
      BY <1>2, <2>1, <3>1
    <3>3. \A j \in 0 .. n : j = 0 \/ j \in 1 .. n
      BY <1>1
    <3> QED BY <2>1, <3>2, <3>3
  <2>5. passed' = meant'
    BY <1>1, <2>1, <2>4, PassedMeant
  <2> QED BY <1>1, <2>1, <2>3, <2>5 DEF IInv
<1>17. CASE UNCHANGED vars
  BY <1>1, <1>17 DEF IInv, vars
<1> QED
  BY <1>5, <1>6, <1>7, <1>8, <1>9, <1>10, <1>11, <1>12, <1>13, <1>14, <1>15, <1>16, <1>17 DEF Next

\* The inductive invariant of the allocator: whatever the client does, the
\* slots are good, memory is what the program means and calls get their
\* operands.
THEOREM Invariance == Spec => []IInv
BY InitIInv, StepIInv, PTL DEF Spec

\* The types of the variables, whatever sequence of operations the client
\* chooses.
THEOREM TypesAlways == Spec => []TypeOK
<1>1. IInv => TypeOK
  BY DEF IInv, Good, TypeOK
<1> QED BY <1>1, Invariance, PTL

\* No operation of the allocator leaves two pending values in one register.
THEOREM NeverShared == Spec => []NoSharing
<1>1. IInv => NoSharing
  BY DEF IInv, Good, NoSharing
<1> QED BY <1>1, Invariance, PTL

\* Every pending value stays where its slot says, through spills, reloads,
\* shuffles, divisions and calls.
THEOREM AlwaysHeld == Spec => []ValuesHeld
<1>1. IInv => ValuesHeld
  BY DEF IInv, Good, ValuesHeld
<1> QED BY <1>1, Invariance, PTL

\* Every store and load reaches the variable the program means.
THEOREM MemoryAlwaysMeant == Spec => []MemoryMeant
<1>1. IInv => MemoryMeant
  BY DEF IInv, MemoryMeant
<1> QED BY <1>1, Invariance, PTL

\* Every call hands over the callee and the arguments meant.
THEOREM ArgumentsAlwaysMeant == Spec => []ArgumentsMeant
<1>1. IInv => ArgumentsMeant
  BY DEF IInv, ArgumentsMeant
<1> QED BY <1>1, Invariance, PTL
=============================================================================
