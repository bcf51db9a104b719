---- MODULE FirstWinsMap ----
(***************************************************************************)
(* What the compiler's name tables promise their callers: a finite map in  *)
(* which the first element inserted for a key is the one every later       *)
(* lookup returns, with room for Cap elements.  No probing, no slots: this *)
(* is the contract that DynHash implements.                                *)
(***************************************************************************)
EXTENDS Naturals

CONSTANTS Keys,   \* the names (strings, or interned 32-bit name references)
          Vals,   \* what the table keeps for a name
          Cap,    \* room for this many elements
          None    \* "no element"

VARIABLES map,    \* the element a lookup of each key must return
          count,  \* elements inserted so far, shadowed ones included
          pc,     \* the call in progress
          key,    \* its key
          elem,   \* the element being inserted
          ret     \* what the last lookup returned

mapVars == <<map, count, pc, key, elem, ret>>

Elems == [key : Keys, val : Vals]

Init ==
    /\ map = [k \in Keys |-> None]
    /\ count = 0
    /\ pc = "ready"
    /\ key \in Keys
    /\ elem = None
    /\ ret = None

Idle == pc \in {"ready", "got"}

CallGet(k) ==
    /\ Idle
    /\ pc' = "get"
    /\ key' = k
    /\ ret' = None
    /\ UNCHANGED <<map, count, elem>>

Get ==
    /\ pc = "get"
    /\ pc' = "got"
    /\ ret' = map[key]
    /\ UNCHANGED <<map, count, key, elem>>

CallInsert(e) ==
    /\ Idle
    /\ count < Cap
    /\ pc' = "insert"
    /\ key' = e.key
    /\ elem' = e
    /\ ret' = None
    /\ UNCHANGED <<map, count>>

Insert ==
    /\ pc = "insert"
    /\ pc' = "ready"
    /\ map' = IF map[key] = None THEN [map EXCEPT ![key] = elem] ELSE map
    /\ count' = count + 1
    /\ UNCHANGED <<key, elem, ret>>

Refuse(e) ==
    /\ Idle
    /\ count >= Cap
    /\ pc' = "dead"
    /\ key' = e.key
    /\ elem' = e
    /\ ret' = None
    /\ UNCHANGED <<map, count>>

Next ==
    \/ \E k \in Keys : CallGet(k)
    \/ Get
    \/ \E e \in Elems : CallInsert(e) \/ Refuse(e)
    \/ Insert

Spec == Init /\ [][Next]_mapVars
====
