---- MODULE DynHash ----
(***************************************************************************)
(* The open-addressing hash table every symbol table of the compiler is    *)
(* made of (dynhash.c and the functions MK_DYNHASH_OVER and                *)
(* MK_DYNHASH_OVER_U32 generate): macros, typedef names, tags, global      *)
(* objects, local variables.  The table has a fixed capacity, never        *)
(* deletes, and is probed one slot per step.                               *)
(***************************************************************************)
EXTENDS Naturals, FiniteSets

CONSTANTS Cap,       \* slots; every table of the compiler has a power of two
          Keys,
          Vals,
          Hash,      \* tacc_str_hash / tacc_u32_hash of each key
          MaxProbe,  \* probes of one call that are followed (see below)
          None       \* the NULL content of an empty slot

\* Probe offsets repeat modulo Cap after 2 * Cap probes, so a call that has
\* made that many without an answer never gets one: it stays where it is.
ASSUME DynHashAssumption ==
    /\ Cap \in Nat \ {0}
    /\ Hash \in [Keys -> Nat]
    /\ MaxProbe \in Nat
    /\ None \notin [key : Keys, val : Vals]

VARIABLES table,  \* slot -> element or None
          fill,   \* hash->fill
          pc,     \* "ready", "get", "got", "insert" or "dead" (assertion)
          key,    \* the key of the call in progress
          elem,   \* the element of the insert in progress
          i,      \* its probe counter
          ret,    \* what the last get returned
          first   \* history: the first element ever inserted for each key

vars == <<table, fill, pc, key, elem, i, ret, first>>

Elems == [key : Keys, val : Vals]
Slots == 0 .. Cap - 1

\* DYNHASH_PROBE(i): the integer halves are taken separately.
ProbeOffset(n) == (n \div 2) + ((n * n) \div 2)

\* Mutation: plain quadratic probing.
BugSquareProbe(k, n) == (Hash[k] + n * n) % Cap

\* tacc_dynhash_probe(hash, h + DYNHASH_PROBE(n)): masked to the table.
ProbeSlot(k, n) == (Hash[k] + ProbeOffset(n)) % Cap

TypeOK ==
    /\ table \in [Slots -> Elems \cup {None}]
    /\ fill \in Nat
    /\ pc \in {"ready", "get", "got", "insert", "dead"}
    /\ key \in Keys
    /\ elem \in Elems \cup {None}
    /\ i \in Nat
    /\ ret \in Elems \cup {None}
    /\ first \in [Keys -> Elems \cup {None}]

\* Mutation: the fill that filling the table with NULLs left is not reset.
BugInitFull ==
    /\ table = [s \in Slots |-> None]
    /\ fill = Cap
    /\ pc = "ready"
    /\ key \in Keys
    /\ elem = None
    /\ i = 0
    /\ ret = None
    /\ first = [k \in Keys |-> None]

Init ==
    /\ table = [s \in Slots |-> None]
    /\ fill = 0
    /\ pc = "ready"
    /\ key \in Keys
    /\ elem = None
    /\ i = 0
    /\ ret = None
    /\ first = [k \in Keys |-> None]

Idle == pc \in {"ready", "got"}

-----------------------------------------------------------------------------
(* get_func *)

GetBegin(k) ==
    /\ Idle
    /\ pc' = "get"
    /\ key' = k
    /\ i' = 0
    /\ ret' = None
    /\ UNCHANGED <<table, fill, elem, first>>

GetMiss ==
    /\ pc = "get"
    /\ table[ProbeSlot(key, i)] = None
    /\ pc' = "got"
    /\ ret' = None
    /\ UNCHANGED <<table, fill, key, elem, i, first>>

\* Mutation: the first occupied slot is taken for the key's.
BugHitAnyKey ==
    /\ pc = "get"
    /\ table[ProbeSlot(key, i)] # None
    /\ pc' = "got"
    /\ ret' = table[ProbeSlot(key, i)]
    /\ UNCHANGED <<table, fill, key, elem, i, first>>

GetHit ==
    /\ pc = "get"
    /\ table[ProbeSlot(key, i)] # None
    /\ table[ProbeSlot(key, i)].key = key
    /\ pc' = "got"
    /\ ret' = table[ProbeSlot(key, i)]
    /\ UNCHANGED <<table, fill, key, elem, i, first>>

GetNext ==
    /\ pc = "get"
    /\ table[ProbeSlot(key, i)] # None
    /\ table[ProbeSlot(key, i)].key # key
    /\ i < MaxProbe
    /\ i' = i + 1
    /\ UNCHANGED <<table, fill, pc, key, elem, ret, first>>

-----------------------------------------------------------------------------
(* insert_func: no check for an element of the same key *)

\* Mutation: an insert skips the home slot of its key.
BugInsertSkipsHome(e) ==
    /\ Idle
    /\ fill < Cap
    /\ pc' = "insert"
    /\ key' = e.key
    /\ elem' = e
    /\ i' = 1
    /\ ret' = None
    /\ UNCHANGED <<table, fill, first>>

InsertBegin(e) ==
    /\ Idle
    /\ fill < Cap
    /\ pc' = "insert"
    /\ key' = e.key
    /\ elem' = e
    /\ i' = 0
    /\ ret' = None
    /\ UNCHANGED <<table, fill, first>>

\* The assertion at the head of insert_func: the program stops.
InsertFull(e) ==
    /\ Idle
    /\ fill >= Cap
    /\ pc' = "dead"
    /\ key' = e.key
    /\ elem' = e
    /\ ret' = None
    /\ UNCHANGED <<table, fill, i, first>>

InsertNext ==
    /\ pc = "insert"
    /\ table[ProbeSlot(key, i)] # None
    /\ i < MaxProbe
    /\ i' = i + 1
    /\ UNCHANGED <<table, fill, pc, key, elem, ret, first>>

\* Mutation: the element of the same key is replaced.
BugPutReplaces ==
    /\ pc = "insert"
    /\ \/ table[ProbeSlot(key, i)] = None
       \/ /\ table[ProbeSlot(key, i)] # None
          /\ table[ProbeSlot(key, i)].key = key
    /\ table' = [table EXCEPT ![ProbeSlot(key, i)] = elem]
    /\ fill' = fill + 1
    /\ pc' = "ready"
    /\ first' = IF first[key] = None THEN [first EXCEPT ![key] = elem] ELSE first
    /\ UNCHANGED <<key, elem, i, ret>>

\* tacc_dynhash_insert_new at the empty slot just found.
InsertPut ==
    /\ pc = "insert"
    /\ table[ProbeSlot(key, i)] = None
    /\ table' = [table EXCEPT ![ProbeSlot(key, i)] = elem]
    /\ fill' = fill + 1
    /\ pc' = "ready"
    /\ first' = IF first[key] = None THEN [first EXCEPT ![key] = elem] ELSE first
    /\ UNCHANGED <<key, elem, i, ret>>

-----------------------------------------------------------------------------
Step == GetMiss \/ GetHit \/ GetNext \/ InsertNext \/ InsertPut

Next ==
    \/ \E k \in Keys : GetBegin(k)
    \/ \E e \in Elems : InsertBegin(e) \/ InsertFull(e)
    \/ Step

Spec == Init /\ [][Next]_vars

\* A call runs to its end: the program is one thread and nothing else runs.
FairSpec == Spec /\ WF_vars(Step)

-----------------------------------------------------------------------------
(* Properties *)

\* The first element of every key is on its key's probe chain, with no hole
\* and no element of the same key before it.
FirstOnChain ==
    \A k \in Keys : first[k] # None =>
        /\ first[k].key = k
        /\ \E n \in 0 .. MaxProbe :
               /\ table[ProbeSlot(k, n)] = first[k]
               /\ \A m \in 0 .. n - 1 : /\ table[ProbeSlot(k, m)] # None
                                       /\ table[ProbeSlot(k, m)].key # k

\* A key that was never inserted is nowhere in the table.
AbsentNowhere ==
    \A k \in Keys : first[k] = None =>
        \A s \in Slots : table[s] # None => table[s].key # k

\* What the probes already made by the call in progress have established.
Walked ==
    /\ i <= MaxProbe
    /\ pc = "get" =>
           \A m \in 0 .. i - 1 : /\ table[ProbeSlot(key, m)] # None
                                /\ table[ProbeSlot(key, m)].key # key
    /\ pc = "insert" =>
           /\ elem \in Elems /\ elem.key = key
           /\ \A m \in 0 .. i - 1 : table[ProbeSlot(key, m)] # None

\* A finished lookup returned the first element inserted for its key, or NULL
\* exactly when none was inserted, however the keys collide (get_func stops at
\* the first empty slot, so one hole in a probe chain would hide elements).
GetReturnsFirst == pc = "got" => ret = first[key]

\* The inductive invariant behind GetReturnsFirst: the state is well typed,
\* the probe chains have no holes, and the running probe loop agrees with them.
IndInv ==
    /\ TypeOK
    /\ FirstOnChain
    /\ AbsentNowhere
    /\ Walked
    /\ GetReturnsFirst

\* fill, which the only capacity check of insert_func reads, is the number of
\* occupied slots, although initialisation bumps it once per slot.
FillIsOccupancy == fill = Cardinality({s \in Slots : table[s] # None})

\* No step ever changes or empties an occupied slot: callers keep pointers to
\* the elements, and lookups of other keys walk over them.
OccupiedStays ==
    [][\A s \in Slots : table[s] # None => table'[s] = table[s]]_vars

\* An insert that passed the capacity check finds its empty slot: the probe
\* sequence reaches every slot of the table.
InsertTerminates == pc = "insert" ~> pc = "ready"

\* A lookup ends if some slot is empty or its key is present.  With a full
\* table and an absent key nothing ends it.
GetTerminates ==
    (pc = "get" /\ (fill < Cap \/ first[key] # None)) ~> pc = "got"

\* The table implements the first-insertion-wins map.
Map == INSTANCE FirstWinsMap WITH map <- first, count <- fill
ImplementsMap == Map!Spec
====
