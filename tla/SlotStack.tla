---- MODULE SlotStack ----
(***************************************************************************)
(* The slot stack under any sequence of calls its client, the expression   *)
(* compiler, could make in straight-line code.  The emitted instructions   *)
(* run as they are emitted; ref is the memory the source program means,    *)
(* kept from the slots' ghost values alone.                                *)
(***************************************************************************)
EXTENDS Slots

CONSTANTS Data,      \* addresses of variables
          Funs,      \* addresses of functions
          Ints,      \* integer values
          MaxStack,  \* bound on pending values
          MaxFrame   \* bound on scratch positions

ASSUME SlotStackAssumption ==
    /\ Data \cup Funs \cup Ints \subseteq Val
    /\ Junk \notin Data \cup Funs \cup Ints
    /\ Ints # {}
    /\ MaxStack \in Nat /\ MaxFrame \in Nat

VARIABLES cg,      \* the generator state
          mem,     \* memory, as the emitted code leaves it
          ref,     \* memory, as the program means it
          passed,  \* what the last call handed over: <<callee, arguments>>
          meant    \* what it should have handed over

vars == <<cg, mem, ref, passed, meant>>

TypeOK ==
    /\ cg \in State
    /\ mem \in [Data -> Val]
    /\ ref \in [Data -> Val]

Init ==
    /\ cg = Start
    /\ \E v \in Ints : mem = [d \in Data |-> v]
    /\ ref = mem
    /\ passed = <<>>
    /\ meant = <<>>

TopVal  == cg.stack[Top(cg)].val
OverVal == cg.stack[Over(cg)].val

Room == Len(cg.stack) < MaxStack

\* Frame positions one operation can use.
FrameRoom == Len(cg.frame) + Len(cg.stack) < MaxFrame

Quiet == UNCHANGED <<mem, ref, passed, meant>>

-----------------------------------------------------------------------------
LoadOp ==
    /\ Room /\ FrameRoom
    /\ \E v \in Ints \cup Data \cup Funs : cg' = Load(cg, v)
    /\ Quiet

PushVoid ==
    /\ Room
    /\ cg' = Push(cg, Void)
    /\ Quiet

PopOp ==
    /\ Top(cg) > 0
    /\ cg' = Pop(cg)
    /\ Quiet

SwapOp ==
    /\ Top(cg) > 1
    /\ cg' = Swap(cg)
    /\ Quiet

RotOp ==
    /\ Top(cg) > 2
    /\ cg' = Rot(cg)
    /\ Quiet

DupOp ==
    /\ Top(cg) > 0 /\ Room /\ FrameRoom
    /\ cg' = Dup(cg)
    /\ Quiet

\* The switch statement parks its controlling value.
SpillTop ==
    /\ Top(cg) > 0 /\ FrameRoom
    /\ cg' = Spill(cg, Top(cg))
    /\ Quiet

ExtendOp ==
    /\ Top(cg) > 0 /\ FrameRoom
    /\ TopVal \in Ints
    /\ cg' = Extend(cg)
    /\ Quiet

BinaryOp ==
    /\ Top(cg) > 1 /\ FrameRoom
    /\ TopVal \in Ints /\ OverVal \in Ints
    /\ \/ cg' = Binop(cg, "sub")
       \/ cg' = Shift(cg, "shl")
       \/ \E op \in {"div", "rem"} : cg' = Divide(cg, op)
    /\ Quiet

DerefOp ==
    /\ Top(cg) > 0 /\ FrameRoom
    /\ TopVal \in Data
    /\ cg' = Deref(cg, mem, ref)
    /\ Quiet

StoreOp ==
    /\ Top(cg) > 1 /\ FrameRoom
    /\ OverVal \in Data /\ TopVal \in Ints
    /\ LET c == StoreOperands(cg) IN
         /\ mem' = Stored(c, mem)
         /\ cg' = Pop(Pop(c))
    /\ ref' = [ref EXCEPT ![OverVal] = TopVal]
    /\ UNCHANGED <<passed, meant>>

CallOp ==
    \E n \in 0 .. Top(cg) - 1, result \in Ints, void \in BOOLEAN :
        /\ FrameRoom
        /\ cg.stack[Top(cg) - n].val \in Funs
        /\ \A j \in 1 .. n : cg.stack[Top(cg) - n + j].val # Junk
        /\ passed' = Passed(cg, n)
        /\ meant' = [j \in 0 .. n |-> cg.stack[Top(cg) - n + j].val]
        /\ cg' = Call(cg, n, result, void)
        /\ UNCHANGED <<mem, ref>>

Next ==
    \/ LoadOp \/ PushVoid \/ PopOp \/ SwapOp \/ RotOp \/ DupOp \/ SpillTop
    \/ ExtendOp \/ BinaryOp \/ DerefOp \/ StoreOp \/ CallOp

Spec == Init /\ [][Next]_vars

-----------------------------------------------------------------------------
(* Properties *)

\* Two pending values never share a register, whatever was spilled, moved or
\* stolen on the way.
NoSharing == RegistersDistinct(cg)

\* Every pending value is where its slot says it is: no allocation, spill,
\* reload, shuffle, division or call destroys a value that is still needed.
ValuesHeld == PlacesExist(cg) /\ PlacesHold(cg)

\* Stores reach the variable meant with the value meant.
MemoryMeant == mem = ref

\* A call gets the callee and the arguments the program passed, in order,
\* although all of them went through scratch positions.
ArgumentsMeant == passed = meant
====
