---- MODULE Names_proofs ----
(***************************************************************************)
(* Proofs about Names, for every set of identifiers, any number of         *)
(* declarations and any depth of blocks.  The parser's scopes lie beside   *)
(* C's: a name that has a meaning in C has a declaration in the scope that *)
(* Lookup finds first, and that declaration is of the entity meant.        *)
(***************************************************************************)
EXTENDS Names, WellFoundedInduction, TLAPS

Entity   == {None} \cup {File(n) : n \in Idents} \cup {Own(r) : r \in Nat}
Refs     == 1 .. Len(idents)
Tables   == [Idents -> Nat]
Meanings == [Idents -> Entity]

\* One scope of the parser at file level and one for a function's body.
TypeInv ==
    /\ idents \in Seq(Idents)
    /\ kinds \in Seq(Kinds) /\ Len(kinds) = Len(idents)
    /\ meaning \in Seq(Entity) /\ Len(meaning) = Len(idents)
    /\ scopes \in Seq(Tables)
    /\ \A i \in 1 .. Len(scopes), n \in Idents : scopes[i][n] \in Refs \cup {Nowhere}
    /\ blocks \in Seq(Meanings)
    /\ Len(blocks) >= 1
    /\ Len(scopes) = IF Len(blocks) = 1 THEN 1 ELSE 2
    /\ DOMAIN objects \subseteq Refs /\ objects \in [DOMAIN objects -> BOOLEAN]
    /\ locals \subseteq Refs
    /\ finished \in BOOLEAN /\ (finished => Len(blocks) = 1)

\* What C gives a meaning has a declaration, in the scope that corresponds.
Found ==
    /\ \A n \in Idents : blocks[1][n] # None => scopes[1][n] # Nowhere
    /\ \A i \in 2 .. Len(blocks), n \in Idents :
          blocks[i][n] # None => scopes[2][n] # Nowhere

\* What the parser finds, the compiler has.
Known ==
    \A i \in 1 .. Len(scopes), n \in Idents :
        scopes[i][n] # Nowhere =>
            scopes[i][n] \in (IF i = 1 THEN {} ELSE locals) \cup DOMAIN objects

\* The declaration kept at file level is of the entity the name has there.
FileMeaning ==
    \A n \in Idents :
        LET r == scopes[1][n] IN
        r # Nowhere =>
            /\ meaning[r] = blocks[1][n]
            /\ kinds[r] = "object" => meaning[r] = File(n)

\* A name a function declares has one declaration in it; outside the block of
\* that declaration it has no meaning, nor has it one at file level unless
\* the declaration is in the outermost block, and hides it throughout.
BodyMeaning ==
    /\ \A i \in 2 .. Len(blocks), n \in Idents :
          blocks[i][n] # None => meaning[scopes[2][n]] = blocks[i][n]
    /\ \A n \in Idents :
          InFunction /\ scopes[2][n] # Nowhere /\ blocks[1][n] # None
              => blocks[2][n] # None

\* Until the coda the file's definitions are those written and those put off.
PutOff  == {idents[r] : r \in {t \in ToSet(tentatives) : objects[t]}}
Written ==
    /\ tentatives \in Seq(DOMAIN objects)
    /\ \A r \in ToSet(tentatives) : objects[r]
    /\ IF finished THEN defined = unit ELSE unit = defined \cup PutOff

ScopeInv == TypeInv /\ Found /\ Known /\ FileMeaning
IndInv   == ScopeInv /\ Written /\ BoundIsKnown

-----------------------------------------------------------------------------
(* What the operators of the module return                                 *)

\* Entities are told apart from the absence of one.
LEMMA Entities ==
    /\ None \in Entity
    /\ \A n \in Idents : File(n) \in Entity /\ File(n) # None
    /\ \A r \in Nat : Own(r) \in Entity /\ Own(r) # None
<1>1. \A n \in Idents : File(n) \in Entity
  BY DEF Entity
<1>2. \A r \in Nat : Own(r) \in Entity
  BY DEF Entity
<1>3. ASSUME NEW x PROVE <<"file", x>> # <<"none">> /\ <<"own", x>> # <<"none">>
  <2>1. Len(<<"file", x>>) = 2 /\ Len(<<"own", x>>) = 2 /\ Len(<<"none">>) = 1
    OBVIOUS
  <2> QED BY <2>1
<1> QED BY <1>1, <1>2, <1>3 DEF Entity, File, Own, None

\* A set of positions that is not empty has a last one.
LEMMA Greatest ==
    ASSUME NEW N \in Nat, NEW D \in SUBSET (1 .. N), D # {}
    PROVE  \E i \in D : \A j \in D : j <= i
<1> DEFINE F == {N - i : i \in D}
<1>1. F \in SUBSET Nat /\ F # {}
  <2>1. \A i \in D : i \in Nat /\ N - i \in Nat
    OBVIOUS
  <2> QED BY <2>1
<1>2. IsWellFoundedOn(OpToRel(<, Nat), Nat)
  BY NatLessThanWellFounded
<1>3. PICK m \in F : \A q \in F : ~(<<q, m>> \in OpToRel(<, Nat))
  BY <1>1, <1>2, WFMin
<1>4. \A q \in F : ~(q < m)
  BY <1>1, <1>3 DEF OpToRel
<1>5. PICK i \in D : m = N - i
  OBVIOUS
<1>6. ASSUME NEW j \in D PROVE j <= i
  <2>1. N - j \in F
    OBVIOUS
  <2>2. ~(N - j < N - i)
    BY <1>4, <1>5, <2>1
  <2> QED BY <2>2
<1> QED BY <1>6

\* The scope of the body is searched before that of the file.
LEMMA LookupIs ==
    ASSUME TypeInv, NEW n \in Idents
    PROVE  Lookup(n) = IF Len(scopes) = 2 /\ scopes[2][n] # Nowhere
                       THEN scopes[2][n] ELSE scopes[1][n]
<1> DEFINE at == {i \in 1 .. Len(scopes) : scopes[i][n] # Nowhere}
<1>1. Len(scopes) \in {1, 2}
  BY DEF TypeInv
<1>2. CASE at = {}
  BY <1>1, <1>2 DEF Lookup
<1>3. CASE Len(scopes) = 2 /\ scopes[2][n] # Nowhere
  <2>1. 2 \in at /\ \A j \in at : j <= 2
    BY <1>3
  <2>2. (CHOOSE i \in at : \A j \in at : j <= i) = 2
    BY <1>3, <2>1
  <2> QED BY <1>3, <2>1, <2>2 DEF Lookup
<1>4. CASE at # {} /\ ~(Len(scopes) = 2 /\ scopes[2][n] # Nowhere)
  <2>1. at = {1}
    BY <1>1, <1>4
  <2>2. (CHOOSE i \in at : \A j \in at : j <= i) = 1
    BY <2>1
  <2> QED BY <1>4, <2>1, <2>2 DEF Lookup
<1> QED BY <1>2, <1>3, <1>4

\* What a name means is what the innermost block that has it says.
LEMMA MeantIs ==
    ASSUME TypeInv, NEW n \in Idents
    PROVE  \/ /\ Meant(n) = None
              /\ \A i \in 1 .. Len(blocks) : blocks[i][n] = None
           \/ \E i \in 1 .. Len(blocks) :
                 /\ Meant(n) = blocks[i][n] /\ blocks[i][n] # None
                 /\ \A j \in i + 1 .. Len(blocks) : blocks[j][n] = None
<1> DEFINE at == {i \in 1 .. Len(blocks) : blocks[i][n] # None}
<1>1. Len(blocks) \in Nat /\ at \in SUBSET (1 .. Len(blocks))
  BY DEF TypeInv
<1>2. CASE at = {}
  BY <1>2 DEF Meant
<1>3. CASE at # {}
  <2> DEFINE m == CHOOSE i \in at : \A j \in at : j <= i
  <2>1. m \in at /\ \A j \in at : j <= m
    BY <1>1, <1>3, Greatest
  <2>2. Meant(n) = blocks[m][n]
    BY <1>3 DEF Meant
  <2> HIDE DEF m
  <2>3. \A j \in m + 1 .. Len(blocks) : blocks[j][n] = None
    BY <1>1, <2>1
  <2> QED BY <2>1, <2>2, <2>3
<1> QED BY <1>2, <1>3

\* A table keeps the first entry.
LEMMA BindIs ==
    ASSUME NEW scope \in [Idents -> Nat], NEW n \in Idents, NEW r \in Nat
    PROVE  /\ Bind(scope, n, r) \in [Idents -> Nat]
           /\ \A m \in Idents :
                 Bind(scope, n, r)[m] =
                     IF m = n /\ scope[n] = Nowhere THEN r ELSE scope[m]
BY DEF Bind

\* A new object is added, the others stay.
LEMMA WithObjectIs ==
    ASSUME NEW r \in Nat, NEW b \in BOOLEAN, objects \in [DOMAIN objects -> BOOLEAN]
    PROVE  /\ DOMAIN WithObject(r, b) = DOMAIN objects \cup {r}
           /\ WithObject(r, b) \in [DOMAIN objects \cup {r} -> BOOLEAN]
           /\ WithObject(r, b)[r] = b
           /\ \A s \in DOMAIN objects \ {r} : WithObject(r, b)[s] = objects[s]
BY DEF WithObject

\* The place of a parameter in its list.
LEMMA ParamPlace ==
    ASSUME NEW ps \in Params, NEW n \in ToSet(ps)
    PROVE  ps = <<n>> /\ SelectInSeq(ps, LAMBDA m : m = n) = 1
<1>1. ps # <<>>
  BY DEF ToSet
<1>2. PICK p \in Idents : ps = <<p>>
  BY <1>1 DEF Params
<1>3. ps = <<n>>
  BY <1>2 DEF ToSet
<1>4. {i \in 1 .. Len(ps) : ps[i] = n} = {1}
  BY <1>3
<1>5. (CHOOSE i \in {1} : \A j \in {1} : i <= j) = 1
  OBVIOUS
<1>6. SelectInSeq(ps, LAMBDA m : m = n) = 1
  BY <1>4, <1>5 DEF SelectInSeq, Min
<1> QED BY <1>3, <1>6

\* The scope of a parameter list: its name, if it has one, is bound to the
\* first name_ref.
LEMMA ParamScopeIs ==
    ASSUME NEW ps \in Params, NEW r \in Nat \ {0}
    PROVE  /\ ps \in Seq(Idents) /\ Len(ps) \in {0, 1}
           /\ ParamScope(ps, r) \in [Idents -> Nat]
           /\ \A n \in Idents :
                 ParamScope(ps, r)[n] = IF n \in ToSet(ps) THEN r ELSE Nowhere
<1>1. ps \in Seq(Idents) /\ Len(ps) \in {0, 1}
  <2>1. CASE ps = <<>>
    BY <2>1
  <2>2. CASE \E n \in Idents : ps = <<n>>
    BY <2>2
  <2> QED BY <2>1, <2>2 DEF Params
<1>2. ASSUME NEW n \in Idents
      PROVE  ParamScope(ps, r)[n] = IF n \in ToSet(ps) THEN r ELSE Nowhere
  <2>1. ParamScope(ps, r)[n] = IF n \in ToSet(ps)
            THEN r + SelectInSeq(ps, LAMBDA m : m = n) - 1 ELSE Nowhere
    BY DEF ParamScope
  <2>2. CASE n \in ToSet(ps)
    <3>1. SelectInSeq(ps, LAMBDA m : m = n) = 1
      BY <2>2, ParamPlace
    <3>2. ParamScope(ps, r)[n] = r + 1 - 1
      BY <2>1, <2>2, <3>1
    <3> QED BY <2>2, <3>2
  <2>3. CASE n \notin ToSet(ps)
    BY <2>1, <2>3
  <2> QED BY <2>2, <2>3
<1>3. ParamScope(ps, r) = [n \in Idents |-> ParamScope(ps, r)[n]]
  BY DEF ParamScope
<1> QED BY <1>1, <1>2, <1>3 DEF Nowhere

-----------------------------------------------------------------------------
(* What a declaration adds                                                 *)

\* The declarations read before are as they were.
Kept ==
    /\ Len(idents') >= Len(idents)
    /\ \A r \in Refs :
          idents'[r] = idents[r] /\ kinds'[r] = kinds[r] /\ meaning'[r] = meaning[r]

\* The declarations are typed and those before kept, k are new.
Adds(k) ==
    /\ idents' \in Seq(Idents) /\ kinds' \in Seq(Kinds) /\ meaning' \in Seq(Entity)
    /\ Len(idents') = Len(idents) + k
    /\ Len(kinds') = Len(idents') /\ Len(meaning') = Len(idents')
    /\ Kept

\* An element and a sequence appended.
LEMMA Between ==
    ASSUME NEW S, NEW s \in Seq(S), NEW e \in S, NEW t \in Seq(S)
    PROVE  /\ s \o <<e>> \o t \in Seq(S)
           /\ Len(s \o <<e>> \o t) = Len(s) + 1 + Len(t)
           /\ \A i \in 1 .. Len(s) : (s \o <<e>> \o t)[i] = s[i]
           /\ (s \o <<e>> \o t)[Len(s) + 1] = e
           /\ \A i \in 1 .. Len(t) : (s \o <<e>> \o t)[Len(s) + 1 + i] = t[i]
<1> DEFINE u == s \o <<e>>
<1>1. /\ u \in Seq(S) /\ Len(u) = Len(s) + 1 /\ u[Len(s) + 1] = e
      /\ \A i \in 1 .. Len(s) : u[i] = s[i]
  OBVIOUS
<1> HIDE DEF u
<1>2. /\ u \o t \in Seq(S)
      /\ Len(u \o t) = Len(u) + Len(t)
      /\ \A i \in 1 .. Len(u) : (u \o t)[i] = u[i]
      /\ \A i \in 1 .. Len(t) : (u \o t)[Len(u) + i] = t[i]
  BY <1>1
<1>3. Len(s) \in Nat
  OBVIOUS
<1> QED BY <1>1, <1>2, <1>3 DEF u

\* A declarator at file level adds one declaration and one per parameter.
LEMMA Reads ==
    ASSUME TypeInv, NEW n \in Idents, NEW ps \in Seq(Idents), NEW kind \in Kinds,
           ReadDeclarator(n, ps, kind)
    PROVE  /\ Adds(1 + Len(ps))
           /\ idents'[NewRef] = n /\ kinds'[NewRef] = kind
           /\ kind = "object" => meaning'[NewRef] = File(n)
           /\ \A k \in 1 .. Len(ps) : meaning'[NewRef + k] = Own(NewRef + k)
<1> DEFINE L == Len(idents)
           e == IF kind = "object" THEN File(n) ELSE Own(NewRef)
           ks == [k \in 1 .. Len(ps) |-> "object"]
           es == [k \in 1 .. Len(ps) |-> Own(NewRef + k)]
<1>1. /\ L \in Nat /\ Len(kinds) = L /\ Len(meaning) = L /\ Len(ps) \in Nat
      /\ idents \in Seq(Idents) /\ kinds \in Seq(Kinds) /\ meaning \in Seq(Entity)
  BY DEF TypeInv
<1>2. e \in Entity /\ \A k \in 1 .. Len(ps) : Own(NewRef + k) \in Entity
  <2>1. NewRef \in Nat /\ \A k \in 1 .. Len(ps) : NewRef + k \in Nat
    BY <1>1 DEF NewRef
  <2> QED BY <2>1, Entities
<1>3. ks \in Seq(Kinds) /\ Len(ks) = Len(ps)
  BY <1>1 DEF Kinds
<1>4. es \in Seq(Entity) /\ Len(es) = Len(ps)
  BY <1>1, <1>2
<1>5. /\ idents' = idents \o <<n>> \o ps
      /\ kinds' = kinds \o <<kind>> \o ks
      /\ meaning' = meaning \o <<e>> \o es
  BY DEF ReadDeclarator
<1>6. \A k \in 1 .. Len(ps) : es[k] = Own(NewRef + k)
  OBVIOUS
<1> HIDE DEF ks, es, e
<1>7. /\ idents' \in Seq(Idents) /\ Len(idents') = L + 1 + Len(ps)
      /\ idents'[L + 1] = n /\ \A r \in 1 .. L : idents'[r] = idents[r]
  BY <1>1, <1>5, Between
<1>8. /\ kinds' \in Seq(Kinds) /\ Len(kinds') = L + 1 + Len(ps)
      /\ kinds'[L + 1] = kind /\ \A r \in 1 .. L : kinds'[r] = kinds[r]
  <2>1. kinds \in Seq(Kinds) /\ kind \in Kinds /\ ks \in Seq(Kinds)
    BY <1>1, <1>3
  <2>2. /\ kinds \o <<kind>> \o ks \in Seq(Kinds)
        /\ Len(kinds \o <<kind>> \o ks) = Len(kinds) + 1 + Len(ks)
        /\ \A i \in 1 .. Len(kinds) : (kinds \o <<kind>> \o ks)[i] = kinds[i]
        /\ (kinds \o <<kind>> \o ks)[Len(kinds) + 1] = kind
    BY <2>1, Between
  <2> QED BY <1>1, <1>3, <1>5, <2>2
<1>9. /\ meaning' \in Seq(Entity) /\ Len(meaning') = L + 1 + Len(ps)
      /\ meaning'[L + 1] = e /\ \A r \in 1 .. L : meaning'[r] = meaning[r]
      /\ \A k \in 1 .. Len(ps) : meaning'[L + 1 + k] = es[k]
  <2>1. meaning \in Seq(Entity) /\ e \in Entity /\ es \in Seq(Entity)
    BY <1>1, <1>2, <1>4
  <2>2. /\ meaning \o <<e>> \o es \in Seq(Entity)
        /\ Len(meaning \o <<e>> \o es) = Len(meaning) + 1 + Len(es)
        /\ \A i \in 1 .. Len(meaning) : (meaning \o <<e>> \o es)[i] = meaning[i]
        /\ (meaning \o <<e>> \o es)[Len(meaning) + 1] = e
        /\ \A i \in 1 .. Len(es) : (meaning \o <<e>> \o es)[Len(meaning) + 1 + i] = es[i]
    BY <2>1, Between
  <2> QED BY <1>1, <1>4, <1>5, <2>2
<1> QED BY <1>1, <1>6, <1>7, <1>8, <1>9 DEF Adds, Kept, NewRef, Refs, e

\* Any other declaration adds itself.
LEMMA ReadsOne ==
    ASSUME TypeInv, NEW n \in Idents, NEW kind \in Kinds,
           idents' = Append(idents, n), kinds' = Append(kinds, kind),
           meaning' = Append(meaning, Own(NewRef))
    PROVE  /\ Adds(1)
           /\ kinds'[NewRef] = kind /\ meaning'[NewRef] = Own(NewRef)
<1>1. /\ Len(idents) \in Nat /\ Len(kinds) = Len(idents) /\ Len(meaning) = Len(idents)
      /\ idents \in Seq(Idents) /\ kinds \in Seq(Kinds) /\ meaning \in Seq(Entity)
  BY DEF TypeInv
<1>2. Own(NewRef) \in Entity
  BY <1>1, Entities DEF NewRef
<1> QED BY <1>1, <1>2 DEF Adds, Kept, NewRef, Refs

-----------------------------------------------------------------------------
(* Declarations keep the part of the invariant about scopes                *)

\* Where a scope binds what a block declares, and the declarations before are
\* kept, the parser's scopes are typed.
LEMMA BoundRefs ==
    ASSUME TypeInv, NEW k \in Nat \ {0}, Adds(k)
    PROVE  /\ NewRef \in Nat \ {0} /\ NewRef \in Refs' /\ NewRef \notin Refs
           /\ Refs \subseteq Refs'
           /\ \A i \in 1 .. Len(scopes), n \in Idents :
                 scopes[i][n] # Nowhere => scopes[i][n] \in Refs
<1>1. Len(idents) \in Nat /\ Len(idents') = Len(idents) + k
  BY DEF TypeInv, Adds
<1>2. \A i \in 1 .. Len(scopes), n \in Idents :
         scopes[i][n] # Nowhere => scopes[i][n] \in Refs
  BY DEF TypeInv
<1> QED BY <1>1, <1>2 DEF NewRef, Refs

\* One element of a sequence replaced.
LEMMA Replaced ==
    ASSUME NEW S, NEW s \in Seq(S), NEW i \in 1 .. Len(s), NEW e \in S
    PROVE  /\ s[i] \in S
           /\ [s EXCEPT ![i] = e] \in Seq(S)
           /\ Len([s EXCEPT ![i] = e]) = Len(s)
           /\ [s EXCEPT ![i] = e][i] = e
           /\ \A j \in 1 .. Len(s) \ {i} : [s EXCEPT ![i] = e][j] = s[j]
OBVIOUS

\* A function's body adds a scope of the parser, and any number of blocks.
LEMMA Depth ==
    ASSUME TypeInv
    PROVE  \/ Len(blocks) = 1 /\ Len(scopes) = 1 /\ ~InFunction
           \/ Len(blocks) \in Nat /\ Len(blocks) >= 2 /\ Len(scopes) = 2 /\ InFunction
<1>1. Len(blocks) \in Nat /\ Len(blocks) >= 1
  BY DEF TypeInv
<1>2. Len(scopes) = IF Len(blocks) = 1 THEN 1 ELSE 2
  BY DEF TypeInv
<1>3. ASSUME NEW B \in Nat, NEW L, B >= 1, L = IF B = 1 THEN 1 ELSE 2
      PROVE  (B = 1 /\ L = 1 /\ ~(B > 1)) \/ (B >= 2 /\ L = 2 /\ B > 1)
  BY <1>3
<1> QED BY <1>1, <1>2, <1>3, Zenon DEF InFunction

\* At file level there is one scope, and one block of C.
LEMMA Top ==
    ASSUME TypeInv, AtTop
    PROVE  Len(blocks) = 1 /\ Len(scopes) = 1 /\ ~finished
BY Depth DEF AtTop

\* An object or a function of the file.
DeclaresAtFile(n, b) ==
    /\ AtTop
    /\ scopes' = [scopes EXCEPT ![1] = Bind(@, n, NewRef)]
    /\ objects' = WithObject(NewRef, b)
    /\ blocks' = [blocks EXCEPT ![1][n] = File(n)]
    /\ UNCHANGED <<locals, finished>>

LEMMA FileDeclaration ==
    ASSUME ScopeInv, NEW n \in Idents, NEW ps \in Seq(Idents), NEW b \in BOOLEAN,
           ReadDeclarator(n, ps, "object"), DeclaresAtFile(n, b)
    PROVE  ScopeInv'
<1>1. TypeInv /\ Found /\ Known /\ FileMeaning
  BY DEF ScopeInv
<1>2. Len(blocks) = 1 /\ Len(scopes) = 1 /\ ~finished
  BY <1>1, Top DEF DeclaresAtFile
<1>3. /\ Adds(1 + Len(ps)) /\ kinds'[NewRef] = "object"
      /\ meaning'[NewRef] = File(n)
  BY <1>1, Reads DEF Kinds
<1>4. /\ NewRef \in Nat \ {0} /\ NewRef \in Refs' /\ NewRef \notin Refs /\ Refs \subseteq Refs'
      /\ \A m \in Idents : scopes[1][m] # Nowhere => scopes[1][m] \in Refs
  BY <1>1, <1>2, <1>3, BoundRefs
<1>5. /\ 1 \in 1 .. Len(scopes) /\ scopes \in Seq(Tables) /\ scopes[1] \in Tables
      /\ 1 \in 1 .. Len(blocks) /\ blocks \in Seq(Meanings) /\ blocks[1] \in Meanings
  <2>1. scopes \in Seq(Tables) /\ blocks \in Seq(Meanings)
    BY <1>1 DEF TypeInv
  <2>2. 1 \in 1 .. Len(scopes) /\ 1 \in 1 .. Len(blocks)
    BY <1>2
  <2> QED BY <2>1, <2>2
<1>6. /\ Len(scopes') = 1 /\ scopes' \in Seq(Tables)
      /\ \A m \in Idents : scopes'[1][m] =
            IF m = n /\ scopes[1][n] = Nowhere THEN NewRef ELSE scopes[1][m]
  <2> DEFINE t == Bind(scopes[1], n, NewRef)
  <2>1. /\ t \in Tables
        /\ \A m \in Idents : t[m] =
              IF m = n /\ scopes[1][n] = Nowhere THEN NewRef ELSE scopes[1][m]
    BY <1>4, <1>5, BindIs DEF Tables
  <2>2. scopes' = [scopes EXCEPT ![1] = t]
    BY DEF DeclaresAtFile
  <2> HIDE DEF t
  <2>3. scopes' \in Seq(Tables) /\ Len(scopes') = Len(scopes) /\ scopes'[1] = t
    BY <1>5, <2>1, <2>2, Replaced
  <2> QED BY <1>2, <2>1, <2>3
<1>7. /\ Len(blocks') = 1 /\ blocks' \in Seq(Meanings)
      /\ \A m \in Idents : blocks'[1][m] = IF m = n THEN File(n) ELSE blocks[1][m]
  <2> DEFINE t == [blocks[1] EXCEPT ![n] = File(n)]
  <2>1. /\ t \in Meanings
        /\ \A m \in Idents : t[m] = IF m = n THEN File(n) ELSE blocks[1][m]
    BY <1>5, Entities DEF Meanings
  <2>2. blocks' = [blocks EXCEPT ![1] = t]
    BY DEF DeclaresAtFile
  <2> HIDE DEF t
  <2>3. blocks' \in Seq(Meanings) /\ Len(blocks') = Len(blocks) /\ blocks'[1] = t
    BY <1>5, <2>1, <2>2, Replaced
  <2> QED BY <1>2, <2>1, <2>3
<1>8. /\ DOMAIN objects' = DOMAIN objects \cup {NewRef}
      /\ objects' \in [DOMAIN objects \cup {NewRef} -> BOOLEAN]
  BY <1>1, <1>4, WithObjectIs DEF TypeInv, DeclaresAtFile
<1>9. TypeInv'
  <2>1. \A m \in Idents : scopes'[1][m] \in Refs' \cup {Nowhere}
    BY <1>4, <1>6
  <2>2. locals' \subseteq Refs' /\ DOMAIN objects' \subseteq Refs'
    BY <1>1, <1>4, <1>8 DEF TypeInv, DeclaresAtFile
  <2>3. objects' \in [DOMAIN objects' -> BOOLEAN]
    BY <1>8
  <2>4. ~finished' /\ finished' \in BOOLEAN
    BY <1>1, <1>2 DEF TypeInv, DeclaresAtFile
  <2>5. /\ Len(blocks') >= 1 /\ Len(scopes') = IF Len(blocks') = 1 THEN 1 ELSE 2
        /\ \A i \in 1 .. Len(scopes'), m \in Idents : scopes'[i][m] \in Refs' \cup {Nowhere}
    BY <1>6, <1>7, <2>1
  <2> QED BY <1>3, <1>6, <1>7, <2>2, <2>3, <2>4, <2>5 DEF TypeInv, Adds
<1>10. Found'
  BY <1>1, <1>4, <1>6, <1>7 DEF Found, Nowhere
<1>11. Known'
  <2>1. \A m \in Idents : scopes'[1][m] # Nowhere => scopes'[1][m] \in DOMAIN objects'
    <3>1. \A m \in Idents : scopes[1][m] # Nowhere => scopes[1][m] \in DOMAIN objects
      BY <1>1, <1>2 DEF Known
    <3> QED BY <1>6, <1>8, <3>1
  <2> QED BY <1>6, <2>1 DEF Known
<1>12. FileMeaning'
  <2> SUFFICES ASSUME NEW m \in Idents, scopes'[1][m] # Nowhere
               PROVE  /\ meaning'[scopes'[1][m]] = blocks'[1][m]
                      /\ kinds'[scopes'[1][m]] = "object" => meaning'[scopes'[1][m]] = File(m)
    BY DEF FileMeaning
  <2>1. CASE m = n /\ scopes[1][n] = Nowhere
    BY <1>3, <1>6, <1>7, <2>1
  <2>2. CASE m = n /\ scopes[1][n] # Nowhere
    <3>1. scopes'[1][n] = scopes[1][n] /\ scopes[1][n] \in Refs
      BY <1>4, <1>6, <2>2
    <3>2. kinds[scopes[1][n]] = "object"
      BY <2>2 DEF ReadDeclarator, MayBind
    <3>3. meaning[scopes[1][n]] = File(n)
      BY <1>1, <2>2, <3>2 DEF FileMeaning
    <3> QED BY <1>3, <1>7, <2>2, <3>1, <3>2, <3>3 DEF Adds, Kept
  <2>3. CASE m # n
    <3>1. scopes'[1][m] = scopes[1][m] /\ scopes[1][m] \in Refs /\ blocks'[1][m] = blocks[1][m]
      BY <1>4, <1>6, <1>7, <2>3
    <3> QED BY <1>1, <1>3, <3>1 DEF FileMeaning, Adds, Kept
  <2> QED BY <2>1, <2>2, <2>3
<1> QED BY <1>9, <1>10, <1>11, <1>12 DEF ScopeInv

\* An enumerator, or an object of a function.
DeclaresOwn(n, kind) ==
    /\ idents' = Append(idents, n) /\ kinds' = Append(kinds, kind)
    /\ meaning' = Append(meaning, Own(NewRef))
    /\ kind # "enumerator" => InFunction
    /\ ~finished
    /\ MayBind(Last(scopes), n, kind)
    /\ Last(blocks)[n] = None
    /\ scopes' = [scopes EXCEPT ![Len(scopes)] = Bind(@, n, NewRef)]
    /\ blocks' = [blocks EXCEPT ![Len(blocks)][n] = Own(NewRef)]
    /\ \/ objects' = WithObject(NewRef, FALSE) /\ UNCHANGED locals
       \/ InFunction /\ UNCHANGED objects /\ locals' = locals \cup {NewRef}
    /\ UNCHANGED finished

\* It is bound in the last scope unless the name is, and seen in the last
\* block.
LEMMA OwnEffect ==
    ASSUME TypeInv, NEW n \in Idents, NEW kind \in Kinds, DeclaresOwn(n, kind)
    PROVE  /\ Adds(1) /\ kinds'[NewRef] = kind /\ meaning'[NewRef] = Own(NewRef)
           /\ Len(scopes') = Len(scopes) /\ scopes' \in Seq(Tables)
           /\ Len(blocks') = Len(blocks) /\ blocks' \in Seq(Meanings)
           /\ \A i \in 1 .. Len(scopes), m \in Idents :
                 scopes'[i][m] = IF i = Len(scopes) /\ m = n /\ scopes[i][n] = Nowhere
                                 THEN NewRef ELSE scopes[i][m]
           /\ \A i \in 1 .. Len(blocks), m \in Idents :
                 blocks'[i][m] = IF i = Len(blocks) /\ m = n
                                 THEN Own(NewRef) ELSE blocks[i][m]
<1> DEFINE L == Len(scopes)
           B == Len(blocks)
<1>1. Adds(1) /\ kinds'[NewRef] = kind /\ meaning'[NewRef] = Own(NewRef)
  BY ReadsOne DEF DeclaresOwn
<1>2. NewRef \in Nat \ {0}
  BY <1>1, BoundRefs
<1>3. scopes \in Seq(Tables) /\ blocks \in Seq(Meanings) /\ Len(scopes) >= 1 /\ Len(blocks) >= 1
  BY DEF TypeInv
<1>4. L \in 1 .. Len(scopes) /\ B \in 1 .. Len(blocks)
  BY <1>3
<1>5. scopes[L] \in Tables /\ blocks[B] \in Meanings
  BY <1>3, <1>4
<1>6. /\ Len(scopes') = L /\ scopes' \in Seq(Tables)
      /\ \A i \in 1 .. L, m \in Idents :
            scopes'[i][m] = IF i = L /\ m = n /\ scopes[i][n] = Nowhere
                            THEN NewRef ELSE scopes[i][m]
  <2> DEFINE t == Bind(scopes[L], n, NewRef)
  <2>1. /\ t \in Tables
        /\ \A m \in Idents : t[m] =
              IF m = n /\ scopes[L][n] = Nowhere THEN NewRef ELSE scopes[L][m]
    BY <1>2, <1>5, BindIs DEF Tables
  <2>2. scopes' = [scopes EXCEPT ![L] = t]
    BY DEF DeclaresOwn
  <2> HIDE DEF t
  <2>3. /\ scopes' \in Seq(Tables) /\ Len(scopes') = Len(scopes) /\ scopes'[L] = t
        /\ \A i \in 1 .. Len(scopes) \ {L} : scopes'[i] = scopes[i]
    BY <1>3, <1>4, <2>1, <2>2, Replaced
  <2> HIDE DEF L
  <2> QED BY <2>1, <2>3 DEF L
<1>7. /\ Len(blocks') = B /\ blocks' \in Seq(Meanings)
      /\ \A i \in 1 .. B, m \in Idents :
            blocks'[i][m] = IF i = B /\ m = n THEN Own(NewRef) ELSE blocks[i][m]
  <2> DEFINE t == [blocks[B] EXCEPT ![n] = Own(NewRef)]
  <2>1. /\ t \in Meanings
        /\ \A m \in Idents : t[m] = IF m = n THEN Own(NewRef) ELSE blocks[B][m]
    BY <1>2, <1>5, Entities DEF Meanings
  <2>2. blocks' = [blocks EXCEPT ![B] = t]
    BY DEF DeclaresOwn
  <2> HIDE DEF t
  <2>3. /\ blocks' \in Seq(Meanings) /\ Len(blocks') = Len(blocks) /\ blocks'[B] = t
        /\ \A i \in 1 .. Len(blocks) \ {B} : blocks'[i] = blocks[i]
    BY <1>3, <1>4, <2>1, <2>2, Replaced
  <2> QED BY <2>1, <2>3
<1> QED BY <1>1, <1>6, <1>7

LEMMA OwnDeclaration ==
    ASSUME ScopeInv, NEW n \in Idents, NEW kind \in Kinds, DeclaresOwn(n, kind)
    PROVE  ScopeInv'
<1> DEFINE L == Len(scopes)
           B == Len(blocks)
<1>1. TypeInv /\ Found /\ Known /\ FileMeaning
  BY DEF ScopeInv
<1>2. /\ Adds(1) /\ kinds'[NewRef] = kind /\ meaning'[NewRef] = Own(NewRef)
      /\ Len(scopes') = L /\ scopes' \in Seq(Tables)
      /\ Len(blocks') = B /\ blocks' \in Seq(Meanings)
  BY <1>1, OwnEffect
<1>3. \A i \in 1 .. L, m \in Idents :
         scopes'[i][m] = IF i = L /\ m = n /\ scopes[i][n] = Nowhere
                         THEN NewRef ELSE scopes[i][m]
  BY <1>1, OwnEffect
<1>4. \A i \in 1 .. B, m \in Idents :
         blocks'[i][m] = IF i = B /\ m = n THEN Own(NewRef) ELSE blocks[i][m]
  BY <1>1, OwnEffect
<1>5. /\ NewRef \in Nat \ {0} /\ NewRef \in Refs' /\ Refs \subseteq Refs'
      /\ \A i \in 1 .. L, m \in Idents : scopes[i][m] # Nowhere => scopes[i][m] \in Refs
  BY <1>1, <1>2, BoundRefs
<1>6. /\ B \in Nat /\ L \in Nat /\ 1 \in 1 .. L /\ 1 \in 1 .. B
      /\ (B = 1 /\ L = 1 /\ ~InFunction) \/ (B >= 2 /\ L = 2 /\ InFunction)
  BY <1>1, Depth
<1>7. /\ objects' \in [DOMAIN objects' -> BOOLEAN]
      /\ DOMAIN objects \subseteq DOMAIN objects' /\ locals \subseteq locals'
      /\ DOMAIN objects' \subseteq Refs' /\ locals' \subseteq Refs'
      /\ NewRef \in DOMAIN objects' \/ (L = 2 /\ NewRef \in locals')
  <2>1. /\ objects \in [DOMAIN objects -> BOOLEAN] /\ DOMAIN objects \subseteq Refs
        /\ locals \subseteq Refs
    BY <1>1 DEF TypeInv
  <2>2. CASE objects' = WithObject(NewRef, FALSE) /\ UNCHANGED locals
    <3>1. /\ DOMAIN objects' = DOMAIN objects \cup {NewRef}
          /\ objects' \in [DOMAIN objects \cup {NewRef} -> BOOLEAN]
      BY <1>5, <2>1, <2>2, WithObjectIs
    <3> QED BY <1>5, <2>1, <2>2, <3>1
  <2>3. CASE InFunction /\ UNCHANGED objects /\ locals' = locals \cup {NewRef}
    <3>1. L = 2
      BY <1>6, <2>3
    <3> QED BY <1>5, <2>1, <2>3, <3>1
  <2> QED BY <2>2, <2>3 DEF DeclaresOwn
<1>8. TypeInv'
  <2>1. \A i \in 1 .. Len(scopes'), m \in Idents : scopes'[i][m] \in Refs' \cup {Nowhere}
    BY <1>2, <1>3, <1>5
  <2>2. ~finished' /\ finished' \in BOOLEAN
    BY <1>1 DEF TypeInv, DeclaresOwn
  <2>3. Len(blocks') >= 1 /\ Len(scopes') = IF Len(blocks') = 1 THEN 1 ELSE 2
    BY <1>2, <1>6
  <2> QED BY <1>2, <1>7, <2>1, <2>2, <2>3 DEF TypeInv, Adds
<1>9. Found'
  <2>1. ASSUME NEW m \in Idents, blocks'[1][m] # None PROVE scopes'[1][m] # Nowhere
    BY <1>1, <1>3, <1>4, <1>5, <1>6, <2>1 DEF Found, Nowhere
  <2>2. ASSUME NEW i \in 2 .. B, NEW m \in Idents, blocks'[i][m] # None
        PROVE  scopes'[2][m] # Nowhere
    BY <1>1, <1>3, <1>4, <1>5, <1>6, <2>2 DEF Found, Nowhere
  <2> QED BY <1>2, <2>1, <2>2 DEF Found
<1>10. Known'
  <2> SUFFICES ASSUME NEW i \in 1 .. L, NEW m \in Idents, scopes'[i][m] # Nowhere
               PROVE  scopes'[i][m] \in (IF i = 1 THEN {} ELSE locals') \cup DOMAIN objects'
    BY <1>2 DEF Known
  <2>1. CASE scopes'[i][m] = scopes[i][m]
    BY <1>1, <1>7, <2>1 DEF Known
  <2>2. CASE i = L /\ scopes'[i][m] = NewRef
    BY <1>6, <1>7, <2>2
  <2> QED BY <1>3, <2>1, <2>2
<1>11. FileMeaning'
  <2> SUFFICES ASSUME NEW m \in Idents, scopes'[1][m] # Nowhere
               PROVE  /\ meaning'[scopes'[1][m]] = blocks'[1][m]
                      /\ kinds'[scopes'[1][m]] = "object" => meaning'[scopes'[1][m]] = File(m)
    BY DEF FileMeaning
  <2>1. CASE L = 1 /\ m = n
    <3>1. B = 1 /\ kind = "enumerator"
      BY <1>6, <2>1 DEF DeclaresOwn
    <3>2. Last(scopes) = scopes[1]
      BY <2>1 DEF Last
    <3>3. scopes[1][n] = Nowhere
      BY <3>1, <3>2 DEF DeclaresOwn, MayBind
    <3> QED BY <1>2, <1>3, <1>4, <2>1, <3>1, <3>3
  <2>2. CASE L # 1 \/ m # n
    <3>1. /\ scopes'[1][m] = scopes[1][m] /\ scopes[1][m] \in Refs
          /\ blocks'[1][m] = blocks[1][m]
      BY <1>3, <1>4, <1>5, <1>6, <2>2
    <3> QED BY <1>1, <1>2, <3>1 DEF FileMeaning, Adds, Kept
  <2> QED BY <2>1, <2>2
<1> QED BY <1>8, <1>9, <1>10, <1>11 DEF ScopeInv

\* The block of a function's parameters.
ParamBlock(ps, r) ==
    [m \in Idents |-> IF m \in ToSet(ps)
                      THEN Own(r + SelectInSeq(ps, LAMBDA p : p = m)) ELSE None]

LEMMA ParamBlockIs ==
    ASSUME NEW ps \in Params, NEW r \in Nat
    PROVE  /\ ParamBlock(ps, r) \in Meanings
           /\ \A n \in Idents :
                 ParamBlock(ps, r)[n] = IF n \in ToSet(ps) THEN Own(r + 1) ELSE None
<1>1. ASSUME NEW n \in Idents
      PROVE  ParamBlock(ps, r)[n] = IF n \in ToSet(ps) THEN Own(r + 1) ELSE None
  <2>1. ParamBlock(ps, r)[n] = IF n \in ToSet(ps)
            THEN Own(r + SelectInSeq(ps, LAMBDA p : p = n)) ELSE None
    BY DEF ParamBlock
  <2>2. CASE n \in ToSet(ps)
    <3>1. SelectInSeq(ps, LAMBDA p : p = n) = 1
      BY <2>2, ParamPlace
    <3> QED BY <2>1, <2>2, <3>1
  <2>3. CASE n \notin ToSet(ps)
    BY <2>1, <2>3
  <2> QED BY <2>2, <2>3
<1>2. ParamBlock(ps, r) = [n \in Idents |-> ParamBlock(ps, r)[n]]
  BY DEF ParamBlock
<1>3. Own(r + 1) \in Entity /\ None \in Entity
  BY Entities
<1> QED BY <1>1, <1>2, <1>3 DEF Meanings

\* A function's body begins with the scope of its parameters.
LEMMA BeginEffect ==
    ASSUME TypeInv, NEW n \in Idents, NEW ps \in Params, NEW qs \in Params,
           NEW storage \in Storage, BeginFunction(n, ps, qs, storage)
    PROVE  /\ Len(blocks) = 1 /\ Len(scopes) = 1 /\ ~finished
           /\ Adds(1 + Len(ps \o qs)) /\ Len(ps \o qs) \in Nat /\ Len(ps) \in {0, 1}
           /\ kinds'[NewRef] = "object" /\ meaning'[NewRef] = File(n)
           /\ Len(ps) = 1 =>
                 /\ NewRef + 1 \in Refs' /\ NewRef + 1 \in locals'
                 /\ meaning'[NewRef + 1] = Own(NewRef + 1)
           /\ locals' \subseteq Refs'
           /\ Len(scopes') = 2 /\ scopes' \in Seq(Tables)
           /\ Len(blocks') = 2 /\ blocks' \in Seq(Meanings)
           /\ \A m \in Idents :
                 /\ scopes'[1][m] = IF m = n /\ scopes[1][n] = Nowhere
                                    THEN NewRef ELSE scopes[1][m]
                 /\ scopes'[2][m] = IF m \in ToSet(ps) THEN NewRef + 1 ELSE Nowhere
                 /\ blocks'[1][m] = IF m = n THEN File(n) ELSE blocks[1][m]
                 /\ blocks'[2][m] = IF m \in ToSet(ps) THEN Own(NewRef + 1) ELSE None
           /\ \A m \in ToSet(ps) : Len(ps) = 1
<1>1. Len(blocks) = 1 /\ Len(scopes) = 1 /\ ~finished
  BY Top DEF BeginFunction
<1>2. /\ ps \in Seq(Idents) /\ qs \in Seq(Idents) /\ Len(ps) \in {0, 1} /\ Len(qs) \in {0, 1}
  BY ParamScopeIs
<1>3. ps \o qs \in Seq(Idents) /\ Len(ps \o qs) = Len(ps) + Len(qs)
  BY <1>2
<1>4. /\ Adds(1 + Len(ps \o qs)) /\ kinds'[NewRef] = "object" /\ meaning'[NewRef] = File(n)
      /\ \A k \in 1 .. Len(ps \o qs) : meaning'[NewRef + k] = Own(NewRef + k)
  BY <1>3, Reads DEF BeginFunction, Kinds
<1>5. NewRef \in Nat \ {0} /\ Len(idents') = NewRef + Len(ps) + Len(qs)
  <2>1. Len(idents) \in Nat /\ Len(idents') = Len(idents) + (1 + Len(ps \o qs))
    BY <1>4 DEF TypeInv, Adds
  <2> QED BY <1>2, <1>3, <2>1 DEF NewRef
<1>6. /\ Len(ps) = 1 =>
            /\ NewRef + 1 \in Refs' /\ NewRef + 1 \in locals'
            /\ meaning'[NewRef + 1] = Own(NewRef + 1)
      /\ locals' \subseteq Refs'
  <2>1. locals' = {NewRef + k : k \in 1 .. Len(ps)}
    BY DEF BeginFunction
  <2>2. Refs' = 1 .. NewRef + Len(ps) + Len(qs)
    BY <1>5 DEF Refs
  <2>3. CASE Len(ps) = 0
    BY <2>1, <2>3
  <2>4. CASE Len(ps) = 1
    <3>1. 1 \in 1 .. Len(ps \o qs)
      BY <1>2, <1>3, <2>4
    <3>2. meaning'[NewRef + 1] = Own(NewRef + 1)
      BY <1>4, <3>1
    <3>3. locals' = {NewRef + 1}
      BY <2>1, <2>4
    <3> QED BY <1>2, <1>5, <2>2, <2>4, <3>2, <3>3
  <2> QED BY <1>2, <2>3, <2>4
<1>7. scopes[1] \in Tables /\ blocks[1] \in Meanings
  <2>1. scopes \in Seq(Tables) /\ blocks \in Seq(Meanings)
    BY DEF TypeInv
  <2>2. 1 \in 1 .. Len(scopes) /\ 1 \in 1 .. Len(blocks)
    BY <1>1
  <2> QED BY <2>1, <2>2
<1>8. /\ Len(scopes') = 2 /\ scopes' \in Seq(Tables)
      /\ \A m \in Idents :
            /\ scopes'[1][m] = IF m = n /\ scopes[1][n] = Nowhere
                               THEN NewRef ELSE scopes[1][m]
            /\ scopes'[2][m] = IF m \in ToSet(ps) THEN NewRef + 1 ELSE Nowhere
  <2> DEFINE t == Bind(scopes[1], n, NewRef)
             u == ParamScope(ps, NewRef + 1)
  <2>1. /\ t \in Tables
        /\ \A m \in Idents : t[m] =
              IF m = n /\ scopes[1][n] = Nowhere THEN NewRef ELSE scopes[1][m]
    BY <1>5, <1>7, BindIs DEF Tables
  <2>2. /\ u \in Tables
        /\ \A m \in Idents : u[m] = IF m \in ToSet(ps) THEN NewRef + 1 ELSE Nowhere
    BY <1>5, ParamScopeIs DEF Tables
  <2>3. scopes' = <<t, u>>
    BY DEF BeginFunction, PendingScope
  <2> HIDE DEF t, u
  <2> QED BY <2>1, <2>2, <2>3
<1>9. /\ Len(blocks') = 2 /\ blocks' \in Seq(Meanings)
      /\ \A m \in Idents :
            /\ blocks'[1][m] = IF m = n THEN File(n) ELSE blocks[1][m]
            /\ blocks'[2][m] = IF m \in ToSet(ps) THEN Own(NewRef + 1) ELSE None
  <2> DEFINE t == [blocks[1] EXCEPT ![n] = File(n)]
             u == ParamBlock(ps, NewRef)
  <2>1. /\ t \in Meanings
        /\ \A m \in Idents : t[m] = IF m = n THEN File(n) ELSE blocks[1][m]
    BY <1>7, Entities DEF Meanings
  <2>2. /\ u \in Meanings
        /\ \A m \in Idents : u[m] = IF m \in ToSet(ps) THEN Own(NewRef + 1) ELSE None
    BY <1>5, ParamBlockIs
  <2>3. blocks' = <<t, u>>
    BY DEF BeginFunction, ParamBlock
  <2> HIDE DEF t, u
  <2> QED BY <2>1, <2>2, <2>3
<1>10. ASSUME NEW m \in ToSet(ps) PROVE Len(ps) = 1
  <2>1. ps = <<m>>
    BY ParamPlace
  <2> QED BY <2>1
<1> QED BY <1>1, <1>2, <1>3, <1>4, <1>6, <1>8, <1>9, <1>10

LEMMA Beginning ==
    ASSUME ScopeInv, NEW n \in Idents, NEW ps \in Params, NEW qs \in Params,
           NEW storage \in Storage, BeginFunction(n, ps, qs, storage)
    PROVE  ScopeInv'
<1>1. TypeInv /\ Found /\ Known /\ FileMeaning
  BY DEF ScopeInv
<1>2. /\ Len(blocks) = 1 /\ Len(scopes) = 1 /\ ~finished
      /\ Adds(1 + Len(ps \o qs)) /\ Len(ps \o qs) \in Nat /\ Len(ps) \in {0, 1}
      /\ kinds'[NewRef] = "object" /\ meaning'[NewRef] = File(n)
      /\ Len(ps) = 1 => NewRef + 1 \in Refs' /\ NewRef + 1 \in locals'
      /\ locals' \subseteq Refs'
      /\ Len(scopes') = 2 /\ scopes' \in Seq(Tables)
      /\ Len(blocks') = 2 /\ blocks' \in Seq(Meanings)
      /\ \A m \in ToSet(ps) : Len(ps) = 1
  BY <1>1, BeginEffect
<1>3. \A m \in Idents :
         /\ scopes'[1][m] = IF m = n /\ scopes[1][n] = Nowhere THEN NewRef ELSE scopes[1][m]
         /\ scopes'[2][m] = IF m \in ToSet(ps) THEN NewRef + 1 ELSE Nowhere
         /\ blocks'[1][m] = IF m = n THEN File(n) ELSE blocks[1][m]
         /\ blocks'[2][m] = IF m \in ToSet(ps) THEN Own(NewRef + 1) ELSE None
  BY <1>1, BeginEffect
<1>4. /\ NewRef \in Nat \ {0} /\ NewRef \in Refs' /\ Refs \subseteq Refs'
      /\ \A m \in Idents : scopes[1][m] # Nowhere => scopes[1][m] \in Refs
  BY <1>1, <1>2, BoundRefs
<1>5. /\ DOMAIN objects' = DOMAIN objects \cup {NewRef}
      /\ objects' \in [DOMAIN objects \cup {NewRef} -> BOOLEAN]
  BY <1>1, <1>4, WithObjectIs DEF TypeInv, BeginFunction
<1>6. TypeInv'
  <2>1. \A m \in Idents : /\ scopes'[1][m] \in Refs' \cup {Nowhere}
                          /\ scopes'[2][m] \in Refs' \cup {Nowhere}
    BY <1>2, <1>3, <1>4
  <2>2. DOMAIN objects' \subseteq Refs' /\ objects' \in [DOMAIN objects' -> BOOLEAN]
    BY <1>1, <1>4, <1>5 DEF TypeInv
  <2>3. ~finished' /\ finished' \in BOOLEAN
    BY <1>1, <1>2 DEF TypeInv, BeginFunction
  <2>4. \A i \in 1 .. Len(scopes'), m \in Idents : scopes'[i][m] \in Refs' \cup {Nowhere}
    BY <1>2, <2>1
  <2>5. Len(blocks') >= 1 /\ Len(scopes') = IF Len(blocks') = 1 THEN 1 ELSE 2
    BY <1>2
  <2> QED BY <1>2, <2>2, <2>3, <2>4, <2>5 DEF TypeInv, Adds
<1>7. Found'
  <2>1. ASSUME NEW m \in Idents, blocks'[1][m] # None PROVE scopes'[1][m] # Nowhere
    BY <1>1, <1>3, <1>4, <2>1 DEF Found, Nowhere
  <2>2. ASSUME NEW m \in Idents, blocks'[2][m] # None PROVE scopes'[2][m] # Nowhere
    BY <1>3, <1>4, <2>2 DEF Nowhere
  <2> QED BY <1>2, <2>1, <2>2 DEF Found
<1>8. Known'
  <2>1. \A m \in Idents : scopes'[1][m] # Nowhere => scopes'[1][m] \in DOMAIN objects'
    <3>1. \A m \in Idents : scopes[1][m] # Nowhere => scopes[1][m] \in DOMAIN objects
      BY <1>1, <1>2 DEF Known
    <3> QED BY <1>3, <1>5, <3>1
  <2>2. \A m \in Idents : scopes'[2][m] # Nowhere => scopes'[2][m] \in locals'
    BY <1>2, <1>3
  <2> QED BY <1>2, <2>1, <2>2 DEF Known
<1>9. FileMeaning'
  <2> SUFFICES ASSUME NEW m \in Idents, scopes'[1][m] # Nowhere
               PROVE  /\ meaning'[scopes'[1][m]] = blocks'[1][m]
                      /\ kinds'[scopes'[1][m]] = "object" => meaning'[scopes'[1][m]] = File(m)
    BY DEF FileMeaning
  <2>1. CASE m = n /\ scopes[1][n] = Nowhere
    BY <1>2, <1>3, <2>1
  <2>2. CASE m = n /\ scopes[1][n] # Nowhere
    <3>1. scopes'[1][n] = scopes[1][n] /\ scopes[1][n] \in Refs
      BY <1>3, <1>4, <2>2
    <3>2. kinds[scopes[1][n]] = "object"
      BY <2>2 DEF BeginFunction, ReadDeclarator, MayBind
    <3>3. meaning[scopes[1][n]] = File(n)
      BY <1>1, <2>2, <3>2 DEF FileMeaning
    <3> QED BY <1>2, <1>3, <2>2, <3>1, <3>2, <3>3 DEF Adds, Kept
  <2>3. CASE m # n
    <3>1. scopes'[1][m] = scopes[1][m] /\ scopes[1][m] \in Refs /\ blocks'[1][m] = blocks[1][m]
      BY <1>3, <1>4, <2>3
    <3> QED BY <1>1, <1>2, <3>1 DEF FileMeaning, Adds, Kept
  <2> QED BY <2>1, <2>2, <2>3
<1> QED BY <1>6, <1>7, <1>8, <1>9 DEF ScopeInv

\* A sequence without its last element.
LEMMA FrontIs ==
    ASSUME NEW S, NEW s \in Seq(S), Len(s) >= 1
    PROVE  /\ Front(s) \in Seq(S) /\ Len(Front(s)) = Len(s) - 1
           /\ \A i \in 1 .. Len(s) - 1 : Front(s)[i] = s[i]
<1>1. Len(s) \in Nat /\ Len(s) - 1 \in Nat
  OBVIOUS
<1>2. \A i \in 1 .. Len(s) - 1 : i \in 1 .. Len(s) /\ s[i] \in S
  BY <1>1
<1>3. Front(s) = [i \in 1 .. Len(s) - 1 |-> s[i]]
  BY <1>1, <1>2 DEF Front
<1>4. [i \in 1 .. Len(s) - 1 |-> s[i]] \in Seq(S)
  BY <1>1, <1>2
<1> QED BY <1>1, <1>3, <1>4

\* An inner block comes and goes and is empty when it comes.
LEMMA InnerBlock ==
    ASSUME TypeInv, EnterBlock \/ LeaveBlock
    PROVE  /\ Len(scopes) = 2 /\ Len(blocks) \in Nat /\ Len(blocks) >= 2
           /\ Len(blocks') \in Nat /\ Len(blocks') >= 2 /\ blocks' \in Seq(Meanings)
           /\ \A i \in 1 .. Len(blocks'), m \in Idents :
                 \/ i \in 1 .. Len(blocks) /\ blocks'[i][m] = blocks[i][m]
                 \/ i >= 3 /\ blocks'[i][m] = None
<1>1. blocks \in Seq(Meanings) /\ EmptyBlock \in Meanings
  BY Entities DEF TypeInv, EmptyBlock, Meanings
<1>2. CASE EnterBlock
  <2>1. Len(scopes) = 2 /\ Len(blocks) \in Nat /\ Len(blocks) >= 2
    BY <1>2, Depth DEF EnterBlock
  <2>2. blocks' = Append(blocks, EmptyBlock)
    BY <1>2 DEF EnterBlock
  <2>3. /\ blocks' \in Seq(Meanings) /\ Len(blocks') = Len(blocks) + 1
        /\ blocks'[Len(blocks) + 1] = EmptyBlock
        /\ \A i \in 1 .. Len(blocks) : blocks'[i] = blocks[i]
    BY <1>1, <2>2
  <2>4. \A m \in Idents : EmptyBlock[m] = None
    BY DEF EmptyBlock
  <2>5. ASSUME NEW i \in 1 .. Len(blocks'), NEW m \in Idents
        PROVE  \/ i \in 1 .. Len(blocks) /\ blocks'[i][m] = blocks[i][m]
               \/ i >= 3 /\ blocks'[i][m] = None
    <3>1. CASE i \in 1 .. Len(blocks)
      BY <2>3, <3>1
    <3>2. CASE i = Len(blocks) + 1
      BY <2>1, <2>3, <2>4, <3>2
    <3> QED BY <2>1, <2>3, <3>1, <3>2
  <2> QED BY <2>1, <2>3, <2>5
<1>3. CASE LeaveBlock
  <2>1. ASSUME NEW B \in Nat, B > 2 PROVE B >= 3
    BY <2>1
  <2>2. Len(blocks) \in Nat
    BY <1>1
  <2>3. Len(blocks) >= 3
    BY <1>3, <2>1, <2>2 DEF LeaveBlock
  <2>4. Len(scopes) = 2
    BY <2>3, Depth
  <2>5. blocks' = Front(blocks)
    BY <1>3 DEF LeaveBlock
  <2>6. /\ blocks' \in Seq(Meanings) /\ Len(blocks') = Len(blocks) - 1
        /\ \A i \in 1 .. Len(blocks) - 1 : blocks'[i] = blocks[i]
    BY <1>1, <2>2, <2>3, <2>5, FrontIs
  <2> QED BY <2>2, <2>3, <2>4, <2>6
<1> QED BY <1>2, <1>3

LEMMA Blocks ==
    ASSUME ScopeInv, EnterBlock \/ LeaveBlock
    PROVE  ScopeInv'
<1>1. TypeInv /\ Found /\ Known /\ FileMeaning
  BY DEF ScopeInv
<1>2. /\ Len(scopes) = 2 /\ Len(blocks) \in Nat /\ Len(blocks) >= 2
      /\ Len(blocks') \in Nat /\ Len(blocks') >= 2 /\ blocks' \in Seq(Meanings)
      /\ \A i \in 1 .. Len(blocks'), m \in Idents :
            \/ i \in 1 .. Len(blocks) /\ blocks'[i][m] = blocks[i][m]
            \/ i >= 3 /\ blocks'[i][m] = None
  BY <1>1, InnerBlock
<1>3. UNCHANGED <<parserVars, compilerVars, meaning>>
  BY DEF EnterBlock, LeaveBlock
<1>4. UNCHANGED <<idents, kinds, scopes, objects, locals, finished, meaning>>
  BY <1>3 DEF parserVars, compilerVars
<1>5. \A m \in Idents : blocks'[1][m] = blocks[1][m]
  BY <1>2
<1>6. TypeInv'
  <2> ASSUME NEW B \in Nat, B >= 2 PROVE B >= 1 /\ B # 1
    OBVIOUS
  <2>1. Len(blocks') >= 1 /\ Len(blocks') # 1 /\ Len(blocks) # 1
    BY <1>2
  <2>2. Len(scopes') = IF Len(blocks') = 1 THEN 1 ELSE 2
    BY <1>2, <1>4, <2>1
  <2>3. ~finished /\ finished \in BOOLEAN
    BY <1>1, <2>1 DEF TypeInv
  <2> QED BY <1>1, <1>2, <1>4, <2>1, <2>2, <2>3 DEF TypeInv, Refs
<1>7. Found'
  <2>1. ASSUME NEW i \in 2 .. Len(blocks'), NEW m \in Idents, blocks'[i][m] # None
        PROVE  scopes'[2][m] # Nowhere
    BY <1>1, <1>2, <1>4, <2>1 DEF Found
  <2> QED BY <1>1, <1>4, <1>5, <2>1 DEF Found
<1>8. Known'
  BY <1>1, <1>4 DEF Known
<1>9. FileMeaning'
  BY <1>1, <1>4, <1>5 DEF FileMeaning
<1> QED BY <1>6, <1>7, <1>8, <1>9 DEF ScopeInv

\* A body ends with its scope.
LEMMA Ending ==
    ASSUME ScopeInv, EndFunction
    PROVE  ScopeInv'
<1>1. TypeInv /\ Found /\ Known /\ FileMeaning
  BY DEF ScopeInv
<1>2. Len(blocks) = 2 /\ Len(scopes) = 2
  BY <1>1, Depth DEF EndFunction
<1>3. scopes \in Seq(Tables) /\ blocks \in Seq(Meanings)
  BY <1>1 DEF TypeInv
<1>4. /\ scopes' \in Seq(Tables) /\ Len(scopes') = 1 /\ scopes'[1] = scopes[1]
      /\ blocks' \in Seq(Meanings) /\ Len(blocks') = 1 /\ blocks'[1] = blocks[1]
  <2>1. scopes' = Front(scopes) /\ blocks' = Front(blocks)
    BY DEF EndFunction
  <2> Len(scopes) >= 1 /\ Len(blocks) >= 1
    BY <1>2
  <2>2. /\ Front(scopes) \in Seq(Tables) /\ Len(Front(scopes)) = Len(scopes) - 1
        /\ \A i \in 1 .. Len(scopes) - 1 : Front(scopes)[i] = scopes[i]
    BY <1>3, FrontIs
  <2>3. /\ Front(blocks) \in Seq(Meanings) /\ Len(Front(blocks)) = Len(blocks) - 1
        /\ \A i \in 1 .. Len(blocks) - 1 : Front(blocks)[i] = blocks[i]
    BY <1>3, FrontIs
  <2> QED BY <1>2, <2>1, <2>2, <2>3
<1>5. UNCHANGED <<idents, kinds, objects, finished, meaning>> /\ locals' = {}
  BY DEF EndFunction
<1>6. TypeInv'
  <2>1. \A i \in 1 .. Len(scopes'), m \in Idents : scopes'[i][m] \in Refs' \cup {Nowhere}
    BY <1>1, <1>2, <1>4, <1>5 DEF TypeInv, Refs
  <2>2. Len(blocks') >= 1 /\ Len(scopes') = IF Len(blocks') = 1 THEN 1 ELSE 2
    BY <1>4
  <2> QED BY <1>1, <1>4, <1>5, <2>1, <2>2 DEF TypeInv, Refs
<1>7. Found'
  BY <1>1, <1>4 DEF Found
<1>8. Known'
  <2>1. \A m \in Idents : scopes[1][m] # Nowhere => scopes[1][m] \in DOMAIN objects
    BY <1>1, <1>2 DEF Known
  <2> QED BY <1>4, <1>5, <2>1 DEF Known
<1>9. FileMeaning'
  BY <1>1, <1>4, <1>5 DEF FileMeaning
<1> QED BY <1>6, <1>7, <1>8, <1>9 DEF ScopeInv

-----------------------------------------------------------------------------
(* What is written and put off                                             *)

ObjectsKept ==
    /\ DOMAIN objects \subseteq DOMAIN objects'
    /\ \A r \in DOMAIN objects : objects'[r] = objects[r]

\* A definition put off is one until the coda.
LEMMA SamePutOff ==
    ASSUME TypeInv, Written, Kept, ObjectsKept, UNCHANGED tentatives
    PROVE  /\ PutOff' = PutOff
           /\ tentatives' \in Seq(DOMAIN objects')
           /\ \A r \in ToSet(tentatives') : objects'[r]
<1>1. /\ tentatives \in Seq(DOMAIN objects) /\ DOMAIN objects \subseteq Refs
      /\ \A r \in ToSet(tentatives) : objects[r]
  BY DEF TypeInv, Written
<1>2. ToSet(tentatives) \subseteq DOMAIN objects
  BY <1>1 DEF ToSet
<1>3. \A r \in ToSet(tentatives) : objects'[r] = objects[r] /\ idents'[r] = idents[r]
  BY <1>1, <1>2 DEF Kept, ObjectsKept
<1>4. \A r \in ToSet(tentatives') : objects'[r]
  BY <1>1, <1>3, Zenon
<1>5. /\ PutOff = {idents[r] : r \in ToSet(tentatives)}
      /\ PutOff' = {idents'[r] : r \in ToSet(tentatives)}
  <2>1. {t \in ToSet(tentatives) : objects[t]} = ToSet(tentatives)
    BY <1>1, Zenon
  <2>2. {t \in ToSet(tentatives) : objects'[t]} = ToSet(tentatives)
    BY <1>4, Zenon
  <2> QED BY <2>1, <2>2, Zenon DEF PutOff
<1>6. PutOff' = PutOff
  BY <1>3, <1>5
<1>7. tentatives' \in Seq(DOMAIN objects')
  BY <1>1 DEF ObjectsKept
<1> QED BY <1>4, <1>6, <1>7

\* A tentative definition of n is put off.
LEMMA MorePutOff ==
    ASSUME TypeInv, Written, Kept, ObjectsKept, NEW n, idents'[NewRef] = n,
           NewRef \in DOMAIN objects', objects'[NewRef] = TRUE,
           tentatives' = Append(tentatives, NewRef)
    PROVE  /\ PutOff' = PutOff \cup {n}
           /\ tentatives' \in Seq(DOMAIN objects')
           /\ \A r \in ToSet(tentatives') : objects'[r]
<1>1. /\ tentatives \in Seq(DOMAIN objects) /\ DOMAIN objects \subseteq Refs
      /\ \A r \in ToSet(tentatives) : objects[r]
  BY DEF TypeInv, Written
<1>2. ToSet(tentatives) \subseteq DOMAIN objects
  BY <1>1 DEF ToSet
<1>3. \A r \in ToSet(tentatives) : objects'[r] = objects[r] /\ idents'[r] = idents[r]
  BY <1>1, <1>2 DEF Kept, ObjectsKept
<1>4. tentatives' \in Seq(DOMAIN objects')
  BY <1>1 DEF ObjectsKept
<1>5. ToSet(tentatives') = ToSet(tentatives) \cup {NewRef}
  <2>1. /\ Len(tentatives) \in Nat /\ Len(tentatives') = Len(tentatives) + 1
        /\ tentatives'[Len(tentatives) + 1] = NewRef
        /\ \A i \in 1 .. Len(tentatives) : tentatives'[i] = tentatives[i]
        /\ DOMAIN tentatives = 1 .. Len(tentatives)
        /\ DOMAIN tentatives' = 1 .. Len(tentatives')
    BY <1>1
  <2>2. \A i \in 1 .. Len(tentatives) : i \in 1 .. Len(tentatives')
    BY <2>1
  <2>3. \A i \in 1 .. Len(tentatives') : i \in 1 .. Len(tentatives) \/ i = Len(tentatives) + 1
    BY <2>1
  <2>4. Len(tentatives) + 1 \in 1 .. Len(tentatives')
    BY <2>1
  <2>5. /\ ToSet(tentatives) = {tentatives[i] : i \in 1 .. Len(tentatives)}
        /\ ToSet(tentatives') = {tentatives'[i] : i \in 1 .. Len(tentatives')}
    BY <2>1 DEF ToSet
  <2>6. ASSUME NEW r \in ToSet(tentatives') PROVE r \in ToSet(tentatives) \cup {NewRef}
    BY <2>1, <2>3, <2>5
  <2>7. ToSet(tentatives) \subseteq ToSet(tentatives')
    BY <2>1, <2>2, <2>5
  <2>8. NewRef \in ToSet(tentatives')
    BY <2>1, <2>4, <2>5
  <2> QED BY <2>6, <2>7, <2>8
<1>6. \A r \in ToSet(tentatives') : objects'[r]
  BY <1>1, <1>3, <1>5, Zenon
<1>7. /\ PutOff = {idents[r] : r \in ToSet(tentatives)}
      /\ PutOff' = {idents'[r] : r \in ToSet(tentatives')}
  <2>1. {t \in ToSet(tentatives) : objects[t]} = ToSet(tentatives)
    BY <1>1, Zenon
  <2>2. {t \in ToSet(tentatives') : objects'[t]} = ToSet(tentatives')
    BY <1>6, Zenon
  <2> QED BY <2>1, <2>2, Zenon DEF PutOff
<1>8. PutOff' = PutOff \cup {n}
  BY <1>3, <1>5, <1>7
<1> QED BY <1>4, <1>6, <1>8

-----------------------------------------------------------------------------
(* The invariant                                                           *)

\* What objects holds of earlier declarations stays, the new one is added.
LEMMA AddsObject ==
    ASSUME TypeInv, NEW k \in Nat \ {0}, Adds(k), NEW b \in BOOLEAN,
           objects' = WithObject(NewRef, b)
    PROVE  Kept /\ ObjectsKept /\ NewRef \in DOMAIN objects' /\ objects'[NewRef] = b
<1>1. NewRef \in Nat /\ NewRef \notin Refs
  BY BoundRefs
<1>2. objects \in [DOMAIN objects -> BOOLEAN] /\ DOMAIN objects \subseteq Refs
  BY DEF TypeInv
<1>3. /\ DOMAIN WithObject(NewRef, b) = DOMAIN objects \cup {NewRef}
      /\ WithObject(NewRef, b)[NewRef] = b
      /\ \A s \in DOMAIN objects \ {NewRef} : WithObject(NewRef, b)[s] = objects[s]
  BY <1>1, <1>2, WithObjectIs
<1> QED BY <1>1, <1>2, <1>3 DEF Adds, ObjectsKept

LEMMA ObjectStep ==
    ASSUME TypeInv, Written, NEW n \in Idents, NEW storage \in Storage,
           NEW initialised \in BOOLEAN, DeclareObject(n, storage, initialised)
    PROVE  Written'
<1> DEFINE tentative == IsTentative(storage, initialised)
<1>1. ~finished
  BY DEF DeclareObject, AtTop
<1>2. Adds(1 + Len(<<>>)) /\ idents'[NewRef] = n
  <2>1. <<>> \in Seq(Idents) /\ "object" \in Kinds /\ ReadDeclarator(n, <<>>, "object")
    BY DEF DeclareObject, Kinds
  <2> QED BY <2>1, Reads
<1>3. tentative \in BOOLEAN /\ (tentative <=> ~initialised /\ storage # "extern")
  BY DEF IsTentative
<1> HIDE DEF tentative
<1>4. Adds(1)
  BY <1>2
<1>5. objects' = WithObject(NewRef, tentative)
  BY DEF DeclareObject, tentative
<1>6. Kept /\ ObjectsKept /\ NewRef \in DOMAIN objects' /\ objects'[NewRef] = tentative
  BY <1>3, <1>4, <1>5, AddsObject
<1>7. /\ tentatives' = IF tentative THEN Append(tentatives, NewRef) ELSE tentatives
      /\ defined' = IF initialised THEN defined \cup {n} ELSE defined
      /\ unit' = IF initialised \/ storage # "extern" THEN unit \cup {n} ELSE unit
      /\ finished' = finished
  BY DEF DeclareObject, tentative
<1>8. /\ PutOff' = IF tentative THEN PutOff \cup {n} ELSE PutOff
      /\ tentatives' \in Seq(DOMAIN objects')
      /\ \A r \in ToSet(tentatives') : objects'[r]
  <2>1. CASE tentative
    <3>1. tentatives' = Append(tentatives, NewRef) /\ objects'[NewRef] = TRUE
      BY <1>6, <1>7, <2>1
    <3> QED BY <1>1, <1>2, <1>6, <2>1, <3>1, MorePutOff
  <2>2. CASE ~tentative
    <3>1. tentatives' = tentatives
      BY <1>7, <2>2
    <3> QED BY <1>1, <1>6, <2>2, <3>1, SamePutOff
  <2> QED BY <1>3, <2>1, <2>2
<1>9. unit' = defined' \cup PutOff'
  <2>1. unit = defined \cup PutOff
    BY <1>1 DEF Written
  <2>2. CASE initialised
    BY <1>3, <1>7, <1>8, <2>1, <2>2
  <2>3. CASE ~initialised /\ storage # "extern"
    BY <1>3, <1>7, <1>8, <2>1, <2>3
  <2>4. CASE ~initialised /\ storage = "extern"
    BY <1>3, <1>7, <1>8, <2>1, <2>4
  <2> QED BY <2>2, <2>3, <2>4
<1>10. ~finished'
  BY <1>1, <1>7
<1> QED BY <1>8, <1>9, <1>10 DEF Written

\* Any other declaration of the file puts nothing off.
LEMMA FunctionStep ==
    ASSUME TypeInv, Written, NEW n \in Idents, NEW k \in Nat \ {0}, Adds(k), ~finished,
           objects' = WithObject(NewRef, FALSE), UNCHANGED <<tentatives, finished>>,
           \/ UNCHANGED <<defined, unit>>
           \/ defined' = defined \cup {n} /\ unit' = unit \cup {n}
    PROVE  Written'
<1>1. Kept /\ ObjectsKept
  BY AddsObject
<1>2. /\ PutOff' = PutOff
      /\ tentatives' \in Seq(DOMAIN objects')
      /\ \A r \in ToSet(tentatives') : objects'[r]
  BY <1>1, SamePutOff
<1>3. unit' = defined' \cup PutOff'
  <2>1. unit = defined \cup PutOff
    BY DEF Written
  <2> QED BY <1>2, <2>1
<1>4. ~finished'
  OBVIOUS
<1> QED BY <1>2, <1>3, <1>4 DEF Written

\* Where the declarations are kept and the output stays as it is.
LEMMA QuietStep ==
    ASSUME TypeInv, Written, Kept, ObjectsKept,
           UNCHANGED <<tentatives, defined, finished, unit>>
    PROVE  Written'
<1>1. /\ PutOff' = PutOff
      /\ tentatives' \in Seq(DOMAIN objects')
      /\ \A r \in ToSet(tentatives') : objects'[r]
  BY SamePutOff
<1>2. IF finished' THEN defined' = unit' ELSE unit' = defined' \cup PutOff'
  BY <1>1, Zenon DEF Written
<1> QED BY <1>1, <1>2 DEF Written

\* The coda writes what was put off.
LEMMA CodaStep ==
    ASSUME TypeInv, Written, Coda
    PROVE  Written'
<1>1. ~finished
  BY DEF Coda, AtTop
<1>2. UNCHANGED <<objects, tentatives, unit>>
  BY DEF Coda, parserVars, cVars
<1>3. defined' = defined \cup PutOff /\ finished'
  BY DEF Coda, PutOff
<1>4. unit = defined \cup PutOff
  BY <1>1 DEF Written
<1> QED BY <1>1, <1>2, <1>3, <1>4, Zenon DEF Written

\* Nothing is declared at first.
LEMMA Initially == Init => IndInv
<1> SUFFICES ASSUME Init PROVE IndInv
  OBVIOUS
<1>1. /\ idents = <<>> /\ kinds = <<>> /\ meaning = <<>> /\ scopes = <<EmptyScope>>
      /\ objects = [r \in {} |-> FALSE] /\ tentatives = <<>> /\ locals = {}
      /\ defined = {} /\ finished = FALSE /\ used = NoUse
      /\ blocks = <<EmptyBlock>> /\ unit = {}
  BY DEF Init
<1>2. /\ EmptyScope \in Tables /\ \A n \in Idents : EmptyScope[n] = Nowhere
      /\ EmptyBlock \in Meanings /\ \A n \in Idents : EmptyBlock[n] = None
  BY Entities DEF EmptyScope, EmptyBlock, Tables, Meanings, Nowhere
<1> HIDE DEF EmptyScope, EmptyBlock
<1>3. TypeInv
  <2>1. Len(scopes) = 1 /\ Len(blocks) = 1 /\ scopes \in Seq(Tables) /\ blocks \in Seq(Meanings)
    BY <1>1, <1>2
  <2>2. \A i \in 1 .. Len(scopes), n \in Idents : scopes[i][n] \in Refs \cup {Nowhere}
    BY <1>1, <1>2
  <2>3. DOMAIN objects \subseteq Refs /\ objects \in [DOMAIN objects -> BOOLEAN]
    BY <1>1
  <2>4. /\ idents \in Seq(Idents) /\ kinds \in Seq(Kinds) /\ Len(kinds) = Len(idents)
        /\ meaning \in Seq(Entity) /\ Len(meaning) = Len(idents)
    BY <1>1
  <2>5. locals \subseteq Refs /\ finished \in BOOLEAN /\ ~finished
    BY <1>1
  <2>6. Len(blocks) >= 1 /\ Len(scopes) = IF Len(blocks) = 1 THEN 1 ELSE 2
    BY <2>1
  <2> QED BY <2>1, <2>2, <2>3, <2>4, <2>5, <2>6 DEF TypeInv
<1>4. Found /\ Known /\ FileMeaning
  <2>1. Len(scopes) = 1 /\ Len(blocks) = 1 /\ scopes[1] = EmptyScope /\ blocks[1] = EmptyBlock
    BY <1>1
  <2>2. Found
    BY <1>2, <2>1 DEF Found
  <2>3. Known
    BY <1>2, <2>1 DEF Known
  <2>4. FileMeaning
    BY <1>2, <2>1 DEF FileMeaning
  <2> QED BY <2>2, <2>3, <2>4
<1>5. Written
  <2>1. ToSet(tentatives) = {} /\ tentatives \in Seq(DOMAIN objects)
    BY <1>1 DEF ToSet
  <2>2. PutOff = {}
    BY <2>1 DEF PutOff
  <2> QED BY <1>1, <2>1, <2>2 DEF Written
<1>6. BoundIsKnown
  BY <1>1 DEF BoundIsKnown, NoUse, None
<1> QED BY <1>3, <1>4, <1>5, <1>6 DEF IndInv, ScopeInv

\* What a name means has a declaration, and the compiler has it.
LEMMA UseFound ==
    ASSUME ScopeInv, NEW n \in Idents, Meant(n) # None
    PROVE  Lookup(n) # Nowhere /\ Lookup(n) \in locals \cup DOMAIN objects
<1>1. TypeInv /\ Found /\ Known
  BY DEF ScopeInv
<1>2. PICK i \in 1 .. Len(blocks) : blocks[i][n] # None
  BY <1>1, MeantIs
<1>3. CASE i = 1
  <2>1. scopes[1][n] # Nowhere
    BY <1>1, <1>2, <1>3 DEF Found
  <2>2. 1 \in 1 .. Len(scopes) /\ (Len(scopes) = 2 => 2 \in 1 .. Len(scopes))
    BY <1>1, Depth
  <2> QED BY <1>1, <2>1, <2>2, LookupIs DEF Known
<1>4. CASE i # 1
  <2>1. i \in 2 .. Len(blocks) /\ Len(scopes) = 2
    BY <1>1, <1>4, Depth
  <2>2. scopes[2][n] # Nowhere
    BY <1>1, <1>2, <2>1 DEF Found
  <2>3. 2 \in 1 .. Len(scopes)
    BY <2>1
  <2> QED BY <1>1, <2>1, <2>2, <2>3, LookupIs DEF Known
<1> QED BY <1>3, <1>4

\* Where no table changes the invariant stays.
LEMMA NothingDeclared ==
    ASSUME ScopeInv, Written,
           UNCHANGED <<idents, kinds, scopes, objects, tentatives, locals, defined,
                       finished, meaning, blocks, unit>>
    PROVE  ScopeInv' /\ Written'
<1>1. TypeInv'
  BY DEF ScopeInv, TypeInv, Refs
<1>2. Found' /\ Known' /\ FileMeaning'
  BY DEF ScopeInv, Found, Known, FileMeaning
<1>3. Kept /\ ObjectsKept
  BY DEF Kept, ObjectsKept, ScopeInv, TypeInv
<1>4. Written'
  BY <1>3, QuietStep DEF ScopeInv
<1> QED BY <1>1, <1>2, <1>4 DEF ScopeInv

\* One step, by action.
LEMMA Step == IndInv /\ [Next]_vars => IndInv'
<1> SUFFICES ASSUME IndInv, [Next]_vars PROVE IndInv'
  OBVIOUS
<1>1. ScopeInv /\ Written /\ BoundIsKnown /\ TypeInv
  BY DEF IndInv, ScopeInv
<1>2. used' = NoUse => BoundIsKnown'
  BY DEF BoundIsKnown, NoUse, None
<1>3. ASSUME NEW n \in Idents, NEW storage \in Storage, NEW initialised \in BOOLEAN,
             DeclareObject(n, storage, initialised)
      PROVE  IndInv'
  <2> DEFINE b == IsTentative(storage, initialised)
  <2>1. b \in BOOLEAN
    BY DEF IsTentative
  <2>2. /\ ReadDeclarator(n, <<>>, "object") /\ DeclaresAtFile(n, b) /\ used' = NoUse
    BY <1>3 DEF DeclareObject, DeclaresAtFile
  <2> HIDE DEF b
  <2>3. <<>> \in Seq(Idents)
    OBVIOUS
  <2>4. ScopeInv'
    BY <1>1, <2>1, <2>2, <2>3, FileDeclaration
  <2>5. Written'
    BY <1>1, <1>3, ObjectStep
  <2> QED BY <1>2, <2>2, <2>4, <2>5 DEF IndInv
<1>4. ASSUME NEW n \in Idents, NEW storage \in Storage, NEW ps \in Params,
             DeclareFunction(n, ps, storage)
      PROVE  IndInv'
  <2>1. /\ ReadDeclarator(n, ps, "object") /\ DeclaresAtFile(n, FALSE) /\ used' = NoUse
        /\ ~finished /\ UNCHANGED <<tentatives, finished, defined, unit>>
        /\ objects' = WithObject(NewRef, FALSE)
    BY <1>4 DEF DeclareFunction, DeclaresAtFile, AtTop
  <2>2. ps \in Seq(Idents) /\ Len(ps) \in {0, 1}
    BY ParamScopeIs
  <2>3. ScopeInv'
    BY <1>1, <2>1, <2>2, FileDeclaration
  <2>4. Adds(1 + Len(ps)) /\ 1 + Len(ps) \in Nat \ {0}
    BY <1>1, <2>1, <2>2, Reads DEF Kinds
  <2>5. Written'
    BY <1>1, <2>1, <2>4, FunctionStep
  <2> QED BY <1>2, <2>1, <2>3, <2>5 DEF IndInv
<1>5. ASSUME NEW n \in Idents, NEW storage \in Storage, NEW ps \in Params,
             NEW qs \in Params, BeginFunction(n, ps, qs, storage)
      PROVE  IndInv'
  <2>1. /\ UNCHANGED <<tentatives, finished>> /\ used' = NoUse
        /\ defined' = defined \cup {n} /\ unit' = unit \cup {n}
        /\ objects' = WithObject(NewRef, FALSE)
    BY <1>5 DEF BeginFunction
  <2>2. Adds(1 + Len(ps \o qs)) /\ 1 + Len(ps \o qs) \in Nat \ {0} /\ ~finished
    <3>1. Adds(1 + Len(ps \o qs)) /\ Len(ps \o qs) \in Nat /\ ~finished
      BY <1>1, <1>5, BeginEffect
    <3> QED BY <3>1
  <2>3. ScopeInv'
    BY <1>1, <1>5, Beginning
  <2>4. Written'
    BY <1>1, <2>1, <2>2, FunctionStep
  <2> QED BY <1>2, <2>1, <2>3, <2>4 DEF IndInv
<1>6. ASSUME NEW n \in Idents, NEW kind \in Kinds, DeclaresOwn(n, kind), used' = NoUse,
             UNCHANGED <<tentatives, defined, unit>>
      PROVE  IndInv'
  <2>1. Adds(1)
    BY <1>1, <1>6, OwnEffect
  <2>2. Kept /\ ObjectsKept
    <3>1. CASE objects' = WithObject(NewRef, FALSE)
      <4>1. 1 \in Nat \ {0} /\ FALSE \in BOOLEAN
        OBVIOUS
      <4> QED BY <1>1, <2>1, <3>1, <4>1, AddsObject, Zenon
    <3>2. CASE UNCHANGED objects
      BY <2>1, <3>2 DEF Adds, ObjectsKept
    <3> QED BY <1>6, <3>1, <3>2 DEF DeclaresOwn
  <2>3. UNCHANGED finished
    BY <1>6 DEF DeclaresOwn
  <2>4. Written'
    BY <1>1, <1>6, <2>2, <2>3, QuietStep
  <2>5. ScopeInv'
    BY <1>1, <1>6, OwnDeclaration
  <2> QED BY <1>2, <1>6, <2>4, <2>5 DEF IndInv
<1>7. ASSUME NEW n \in Idents, DeclareEnumerator(n)
      PROVE  IndInv'
  <2>1. DeclaresOwn(n, "enumerator") /\ "enumerator" \in Kinds
    BY <1>7 DEF DeclareEnumerator, DeclaresOwn, Kinds
  <2> QED BY <1>6, <1>7, <2>1 DEF DeclareEnumerator
<1>8. ASSUME NEW n \in Idents, DeclareLocal(n)
      PROVE  IndInv'
  <2>1. ~finished
    <3>1. Len(blocks) # 1
      BY <1>1, <1>8, Depth DEF DeclareLocal
    <3> QED BY <1>1, <3>1 DEF TypeInv
  <2>2. DeclaresOwn(n, "object") /\ "object" \in Kinds
    BY <1>8, <2>1 DEF DeclareLocal, DeclaresOwn, Kinds
  <2> QED BY <1>6, <1>8, <2>2 DEF DeclareLocal
<1>9. ASSUME NEW n \in Idents, UseIdent(n)
      PROVE  IndInv'
  <2>1. UNCHANGED <<idents, kinds, scopes, objects, tentatives, locals, defined,
                    finished, meaning, blocks, unit>>
    BY <1>9 DEF UseIdent, parserVars, compilerVars, cVars
  <2>2. ScopeInv' /\ Written'
    BY <1>1, <2>1, NothingDeclared
  <2>3. used' = [ref |-> Lookup(n), entity |-> Meant(n)] /\ Meant(n) # None
    BY <1>9 DEF UseIdent
  <2>4. BoundIsKnown'
    BY <1>1, <2>1, <2>3, UseFound DEF BoundIsKnown
  <2> QED BY <2>2, <2>4 DEF IndInv
<1>10. CASE EnterBlock \/ LeaveBlock
  <2>1. used' = NoUse /\ UNCHANGED <<parserVars, compilerVars, meaning, unit>>
    BY <1>10 DEF EnterBlock, LeaveBlock
  <2>2. /\ UNCHANGED <<idents, kinds, meaning, objects>>
        /\ UNCHANGED <<tentatives, defined, finished, unit>>
    BY <2>1 DEF parserVars, compilerVars
  <2>3. ScopeInv'
    BY <1>1, <1>10, Blocks
  <2>4. Kept /\ ObjectsKept
    BY <1>1, <2>2 DEF Kept, ObjectsKept, TypeInv
  <2>5. Written'
    BY <1>1, <2>2, <2>4, QuietStep
  <2> QED BY <1>2, <2>1, <2>3, <2>5 DEF IndInv
<1>11. CASE EndFunction
  <2>1. /\ used' = NoUse
        /\ UNCHANGED <<idents, kinds, meaning, objects>>
        /\ UNCHANGED <<tentatives, defined, finished, unit>>
    BY <1>11 DEF EndFunction
  <2>2. ScopeInv'
    BY <1>1, <1>11, Ending
  <2>3. Kept /\ ObjectsKept
    BY <1>1, <2>1 DEF Kept, ObjectsKept, TypeInv
  <2>4. Written'
    BY <1>1, <2>1, <2>3, QuietStep
  <2> QED BY <1>2, <2>1, <2>2, <2>4 DEF IndInv
<1>12. CASE Coda
  <2>1. /\ used' = NoUse /\ finished' = TRUE
        /\ UNCHANGED <<idents, kinds, scopes, objects, locals, meaning, blocks>>
    BY <1>12 DEF Coda, parserVars, cVars
  <2>2. Len(blocks) = 1
    BY <1>1, <1>12, Top DEF Coda
  <2>3. TypeInv'
    BY <1>1, <2>1, <2>2 DEF TypeInv, Refs
  <2>4. Found' /\ Known' /\ FileMeaning'
    BY <1>1, <2>1 DEF ScopeInv, Found, Known, FileMeaning
  <2>5. Written'
    BY <1>1, <1>12, CodaStep
  <2> QED BY <1>2, <2>1, <2>3, <2>4, <2>5 DEF IndInv, ScopeInv
<1>13. CASE UNCHANGED vars
  <2>1. UNCHANGED <<idents, kinds, scopes, objects, tentatives, locals, defined,
                    finished, used, meaning, blocks, unit>>
    BY <1>13 DEF vars, parserVars, compilerVars, cVars
  <2>2. ScopeInv' /\ Written'
    BY <1>1, <2>1, NothingDeclared
  <2>3. BoundIsKnown'
    BY <1>1, <2>1 DEF BoundIsKnown
  <2> QED BY <2>2, <2>3 DEF IndInv
<1> QED BY <1>3, <1>4, <1>5, <1>7, <1>8, <1>9, <1>10, <1>11, <1>12, <1>13 DEF Next

\* The parser's scopes and the compiler's tables agree with C's blocks and with
\* each other, whatever is declared and however deep blocks nest.
THEOREM Names_Inductive == Spec => []IndInv
<1>1. Init => IndInv
  BY Initially
<1>2. IndInv /\ [Next]_vars => IndInv'
  BY Step
<1> QED BY <1>1, <1>2, PTL DEF Spec

\* What tacc_parse_registry_lookup_untagged finds, the compiler has: a local of
\* the function it compiles or an object of the file.
THEOREM Bound_Known == Spec => []BoundIsKnown
<1>1. IndInv => BoundIsKnown
  BY DEF IndInv
<1> QED BY <1>1, Names_Inductive, PTL

\* After tacc_compile_coda the output defines exactly what C says the file
\* defines: put off or not, however often declared.
THEOREM Definitions_Emitted == Spec => []DefinitionsEmitted
<1>1. IndInv => DefinitionsEmitted
  BY Zenon DEF IndInv, Written, DefinitionsEmitted
<1> QED BY <1>1, Names_Inductive, PTL

-----------------------------------------------------------------------------
(* What an identifier means, where no block of a function hides a name     *)

\* A declaration that hides nothing is the only one of its name in the body.
LEMMA OwnBody ==
    ASSUME ScopeInv, BodyMeaning, NEW n \in Idents, NEW kind \in Kinds,
           DeclaresOwn(n, kind), InFunction, ~Hides(n)
    PROVE  BodyMeaning'
<1> DEFINE B == Len(blocks)
<1>1. TypeInv /\ Found
  BY DEF ScopeInv
<1>2. B \in Nat /\ B >= 2 /\ Len(scopes) = 2
  BY <1>1, Depth
<1>3. /\ Adds(1) /\ meaning'[NewRef] = Own(NewRef) /\ Len(blocks') = B
      /\ \A m \in Idents : scopes'[2][m] =
            IF m = n /\ scopes[2][n] = Nowhere THEN NewRef ELSE scopes[2][m]
      /\ \A i \in 1 .. B, m \in Idents :
            blocks'[i][m] = IF i = B /\ m = n THEN Own(NewRef) ELSE blocks[i][m]
  <2>1. 2 \in 1 .. Len(scopes) /\ 2 = Len(scopes)
    BY <1>2
  <2> QED BY <1>1, <2>1, OwnEffect
<1>4. scopes[2][n] = Nowhere /\ (B > 2 => Meant(n) = None)
  <2>1. Last(scopes) = scopes[2]
    BY <1>2 DEF Last
  <2> QED BY <2>1 DEF Hides, InFunction
<1>5. \A i \in 2 .. B : blocks[i][n] = None
  BY <1>1, <1>4 DEF Found
<1>6. \A i \in 2 .. B, m \in Idents : blocks[i][m] # None => scopes[2][m] \in Refs
  <2>1. 2 \in 1 .. Len(scopes)
    BY <1>2
  <2> QED BY <1>1, <2>1 DEF Found, TypeInv
<1>7. NewRef # Nowhere /\ Own(NewRef) # None
  BY <1>1, Entities DEF NewRef, Nowhere, TypeInv
<1>8. ASSUME NEW i \in 2 .. B, NEW m \in Idents, blocks'[i][m] # None
      PROVE  meaning'[scopes'[2][m]] = blocks'[i][m]
  <2>1. CASE m = n
    BY <1>3, <1>4, <1>5, <1>8, <2>1
  <2>2. CASE m # n
    <3>1. blocks'[i][m] = blocks[i][m] /\ scopes'[2][m] = scopes[2][m]
      BY <1>3, <2>2
    <3>2. scopes[2][m] \in Refs /\ meaning[scopes[2][m]] = blocks[i][m]
      BY <1>6, <1>8, <3>1 DEF BodyMeaning
    <3> QED BY <1>3, <3>1, <3>2 DEF Adds, Kept
  <2> QED BY <2>1, <2>2
<1>9. ASSUME NEW m \in Idents, scopes'[2][m] # Nowhere, blocks'[1][m] # None
      PROVE  blocks'[2][m] # None
  <2> ASSUME NEW b \in Nat, b >= 2 PROVE 1 \in 1 .. b /\ 2 \in 1 .. b /\ 1 # b
    OBVIOUS
  <2>1. 1 \in 1 .. B /\ 2 \in 1 .. B /\ 1 # B
    BY <1>2
  <2>2. blocks'[1][m] = blocks[1][m]
    BY <1>3, <2>1
  <2>3. CASE m # n
    <3>1. blocks'[2][m] = blocks[2][m] /\ scopes'[2][m] = scopes[2][m]
      BY <1>3, <2>1, <2>3
    <3> QED BY <1>9, <2>2, <3>1 DEF BodyMeaning
  <2>4. CASE m = n /\ B = 2
    BY <1>3, <1>7, <2>1, <2>4
  <2>5. CASE m = n /\ B # 2
    <3>1. ASSUME NEW b \in Nat, b >= 2, b # 2 PROVE b > 2
      BY <3>1
    <3>2. Meant(n) = None
      BY <1>2, <1>4, <2>5, <3>1
    <3>3. blocks[1][n] = None
      BY <1>1, <2>1, <3>2, MeantIs
    <3> QED BY <1>9, <2>2, <2>5, <3>3
  <2> QED BY <2>3, <2>4, <2>5
<1> QED BY <1>3, <1>8, <1>9 DEF BodyMeaning

\* At file level there is nothing to show.
LEMMA NoBody == ASSUME Len(blocks') = 1 PROVE BodyMeaning'
<1>1. ~InFunction'
  BY DEF InFunction
<1> QED BY <1>1 DEF BodyMeaning

LEMMA BodyStep ==
    ASSUME Shadowing = FALSE, ScopeInv, BodyMeaning, [Next]_vars
    PROVE  BodyMeaning'
<1>1. TypeInv
  BY DEF ScopeInv
<1>2. ASSUME NEW n \in Idents, NEW b, DeclaresAtFile(n, b)
      PROVE  BodyMeaning'
  <2>1. Len(blocks') = Len(blocks) /\ Len(blocks) = 1
    BY <1>1, <1>2, Top DEF DeclaresAtFile, TypeInv
  <2> QED BY <2>1, NoBody
<1>3. ASSUME NEW n \in Idents, NEW storage \in Storage, NEW ps \in Params,
             NEW qs \in Params, BeginFunction(n, ps, qs, storage)
      PROVE  BodyMeaning'
  <2>1. /\ Len(blocks') = 2
        /\ Len(ps) = 1 => meaning'[NewRef + 1] = Own(NewRef + 1)
        /\ \A m \in ToSet(ps) : Len(ps) = 1
        /\ \A m \in Idents :
              /\ scopes'[2][m] = IF m \in ToSet(ps) THEN NewRef + 1 ELSE Nowhere
              /\ blocks'[2][m] = IF m \in ToSet(ps) THEN Own(NewRef + 1) ELSE None
    BY <1>1, <1>3, BeginEffect
  <2>2. ASSUME NEW m \in Idents, blocks'[2][m] # None
        PROVE  meaning'[scopes'[2][m]] = blocks'[2][m]
    BY <2>1, <2>2
  <2>3. NewRef \in Nat /\ NewRef + 1 \in Nat
    BY <1>1 DEF NewRef, TypeInv
  <2>4. ASSUME NEW m \in Idents, scopes'[2][m] # Nowhere
        PROVE  blocks'[2][m] # None
    <3>1. m \in ToSet(ps)
      BY <2>1, <2>4
    <3> QED BY <2>1, <2>3, <3>1, Entities
  <2> QED BY <2>1, <2>2, <2>4 DEF BodyMeaning
<1>4. ASSUME NEW n \in Idents, NEW kind \in Kinds, DeclaresOwn(n, kind), ~Hides(n)
      PROVE  BodyMeaning'
  <2>1. CASE InFunction
    BY <1>4, <2>1, OwnBody
  <2>2. CASE ~InFunction
    <3>1. Len(blocks) = 1
      BY <1>1, <2>2, Depth
    <3>2. Len(blocks') = Len(blocks)
      BY <1>1, <1>4, OwnEffect
    <3> QED BY <3>1, <3>2, NoBody
  <2> QED BY <2>1, <2>2
<1>5. CASE EnterBlock \/ LeaveBlock
  <2>1. /\ Len(scopes) = 2 /\ Len(blocks) \in Nat /\ Len(blocks) >= 2
        /\ Len(blocks') \in Nat /\ Len(blocks') >= 2
        /\ \A i \in 1 .. Len(blocks'), m \in Idents :
              \/ i \in 1 .. Len(blocks) /\ blocks'[i][m] = blocks[i][m]
              \/ i >= 3 /\ blocks'[i][m] = None
    BY <1>1, <1>5, InnerBlock
  <2>2. UNCHANGED <<scopes, meaning>> /\ InFunction
    BY <1>1, <1>5, <2>1, Depth DEF EnterBlock, LeaveBlock, parserVars
  <2>3. \A m \in Idents : blocks'[1][m] = blocks[1][m] /\ blocks'[2][m] = blocks[2][m]
    BY <2>1
  <2>4. ASSUME NEW i \in 2 .. Len(blocks'), NEW m \in Idents, blocks'[i][m] # None
        PROVE  meaning'[scopes'[2][m]] = blocks'[i][m]
    BY <2>1, <2>2, <2>4 DEF BodyMeaning
  <2>5. ASSUME NEW m \in Idents, scopes'[2][m] # Nowhere, blocks'[1][m] # None
        PROVE  blocks'[2][m] # None
    BY <2>2, <2>3, <2>5 DEF BodyMeaning
  <2> QED BY <2>4, <2>5 DEF BodyMeaning
<1>6. CASE EndFunction
  <2>1. blocks \in Seq(Meanings) /\ Len(blocks) = 2 /\ blocks' = Front(blocks)
    BY <1>1, <1>6 DEF EndFunction, TypeInv
  <2>2. Len(blocks) >= 1
    BY <2>1
  <2>3. Len(Front(blocks)) = Len(blocks) - 1
    BY <2>1, <2>2, FrontIs
  <2>4. Len(blocks') = 1
    BY <2>1, <2>3
  <2> QED BY <2>4, NoBody
<1>7. ASSUME UNCHANGED <<scopes, meaning, blocks>> PROVE BodyMeaning'
  BY <1>7 DEF BodyMeaning, InFunction
<1>8. ASSUME NEW n \in Idents, NEW storage \in Storage, NEW initialised \in BOOLEAN,
             DeclareObject(n, storage, initialised)
      PROVE  BodyMeaning'
  <2>1. DeclaresAtFile(n, IsTentative(storage, initialised))
    BY <1>8 DEF DeclareObject, DeclaresAtFile
  <2> QED BY <1>2, <2>1
<1>9. ASSUME NEW n \in Idents, NEW storage \in Storage, NEW ps \in Params,
             DeclareFunction(n, ps, storage)
      PROVE  BodyMeaning'
  <2>1. DeclaresAtFile(n, FALSE)
    BY <1>9 DEF DeclareFunction, DeclaresAtFile
  <2> QED BY <1>2, <2>1
<1>10. ASSUME NEW n \in Idents, DeclareEnumerator(n)
       PROVE  BodyMeaning'
  <2>1. DeclaresOwn(n, "enumerator") /\ "enumerator" \in Kinds /\ ~Hides(n)
    BY <1>10 DEF DeclareEnumerator, DeclaresOwn, Kinds
  <2> QED BY <1>4, <2>1
<1>11. ASSUME NEW n \in Idents, DeclareLocal(n)
       PROVE  BodyMeaning'
  <2>1. ~finished
    <3>1. Len(blocks) # 1
      BY <1>1, <1>11, Depth DEF DeclareLocal
    <3> QED BY <1>1, <3>1 DEF TypeInv
  <2>2. DeclaresOwn(n, "object") /\ "object" \in Kinds /\ ~Hides(n)
    BY <1>11, <2>1 DEF DeclareLocal, DeclaresOwn, Kinds
  <2> QED BY <1>4, <2>2
<1>12. ASSUME NEW n \in Idents, UseIdent(n) PROVE BodyMeaning'
  BY <1>7, <1>12 DEF UseIdent, parserVars, cVars
<1>13. CASE Coda
  BY <1>7, <1>13 DEF Coda, parserVars, cVars
<1>14. CASE UNCHANGED vars
  BY <1>7, <1>14 DEF vars, parserVars, cVars
<1> QED BY <1>3, <1>5, <1>6, <1>8, <1>9, <1>10, <1>11, <1>12, <1>13, <1>14 DEF Next

\* The declaration Lookup finds is of the entity that is meant.
LEMMA UseMeans ==
    ASSUME ScopeInv, BodyMeaning, NEW n \in Idents, Meant(n) # None
    PROVE  meaning[Lookup(n)] = Meant(n)
<1>1. TypeInv /\ Found /\ FileMeaning
  BY DEF ScopeInv
<1>2. PICK i \in 1 .. Len(blocks) :
         /\ Meant(n) = blocks[i][n] /\ blocks[i][n] # None
         /\ \A j \in i + 1 .. Len(blocks) : blocks[j][n] = None
  BY <1>1, MeantIs
<1>3. Len(blocks) \in Nat
  BY <1>1 DEF TypeInv
<1>4. CASE i = 1
  <2>1. scopes[1][n] # Nowhere /\ meaning[scopes[1][n]] = blocks[1][n]
    BY <1>1, <1>2, <1>4 DEF Found, FileMeaning
  <2>2. CASE InFunction
    <3>1. Len(blocks) >= 2 /\ Len(scopes) = 2
      BY <1>1, <2>2, Depth
    <3>2. 2 \in i + 1 .. Len(blocks)
      BY <1>3, <1>4, <3>1
    <3>3. blocks[2][n] = None
      BY <1>2, <3>2
    <3>4. scopes[2][n] = Nowhere
      BY <1>2, <1>4, <2>2, <3>3 DEF BodyMeaning
    <3>5. Lookup(n) = scopes[1][n]
      BY <1>1, <3>4, LookupIs
    <3> QED BY <1>2, <1>4, <2>1, <3>5
  <2>3. CASE ~InFunction
    <3>1. Len(scopes) = 1
      BY <1>1, <2>3, Depth
    <3>2. Lookup(n) = scopes[1][n]
      BY <1>1, <3>1, LookupIs
    <3> QED BY <1>2, <1>4, <2>1, <3>2
  <2> QED BY <2>2, <2>3
<1>5. CASE i # 1
  <2>1. i \in 2 .. Len(blocks) /\ Len(scopes) = 2
    BY <1>1, <1>3, <1>5, Depth
  <2>2. scopes[2][n] # Nowhere
    BY <1>1, <1>2, <2>1 DEF Found
  <2>3. Lookup(n) = scopes[2][n]
    BY <1>1, <2>1, <2>2, LookupIs
  <2> QED BY <1>2, <2>1, <2>3 DEF BodyMeaning
<1> QED BY <1>4, <1>5

\* Where no block of a function hides a name or uses one again, an identifier
\* is taken for a declaration of the entity it means.  With hiding it is not:
\* tacc_parse_compound_statement opens no scope.
THEOREM Use_Means ==
    ASSUME Shadowing = FALSE
    PROVE  Spec => []UseMeansDeclaration
<1>1. Init => BodyMeaning /\ UseMeansDeclaration
  <2> SUFFICES ASSUME Init PROVE BodyMeaning /\ UseMeansDeclaration
    OBVIOUS
  <2>1. Len(blocks) = 1 /\ used = NoUse
    BY DEF Init
  <2>2. BodyMeaning
    BY <2>1 DEF BodyMeaning, InFunction
  <2>3. UseMeansDeclaration
    BY <2>1 DEF UseMeansDeclaration, NoUse, None
  <2> QED BY <2>2, <2>3
<1>2. IndInv /\ BodyMeaning /\ UseMeansDeclaration /\ [Next]_vars
          => BodyMeaning' /\ UseMeansDeclaration'
  <2> SUFFICES ASSUME IndInv, BodyMeaning, UseMeansDeclaration, [Next]_vars
               PROVE  BodyMeaning' /\ UseMeansDeclaration'
    OBVIOUS
  <2>1. ScopeInv
    BY DEF IndInv
  <2>2. BodyMeaning'
    BY <2>1, BodyStep
  <2>3. ASSUME used' = NoUse PROVE UseMeansDeclaration'
    BY <2>3 DEF UseMeansDeclaration, NoUse, None
  <2>4. ASSUME NEW n \in Idents, UseIdent(n) PROVE UseMeansDeclaration'
    <3>1. /\ meaning' = meaning /\ Meant(n) # None
          /\ used' = [ref |-> Lookup(n), entity |-> Meant(n)]
      BY <2>4 DEF UseIdent, cVars
    <3>2. Lookup(n) # Nowhere /\ meaning[Lookup(n)] = Meant(n)
      BY <2>1, <3>1, UseFound, UseMeans
    <3> QED BY <3>1, <3>2 DEF UseMeansDeclaration
  <2>5. ASSUME UNCHANGED vars PROVE UseMeansDeclaration'
    <3>1. used' = used /\ meaning' = meaning
      BY <2>5 DEF vars, cVars
    <3> QED BY <3>1 DEF UseMeansDeclaration
  <2>6. ASSUME Next PROVE UseMeansDeclaration'
    <3>1. CASE used' = NoUse
      BY <2>3, <3>1
    <3>2. CASE used' # NoUse
      <4>1. /\ ~EnterBlock /\ ~LeaveBlock /\ ~EndFunction /\ ~Coda
        BY <3>2 DEF EnterBlock, LeaveBlock, EndFunction, Coda
      <4>2. ASSUME NEW n \in Idents, NEW storage \in Storage
            PROVE  /\ \A b \in BOOLEAN : ~DeclareObject(n, storage, b)
                   /\ \A ps \in Params : ~DeclareFunction(n, ps, storage)
                   /\ \A ps, qs \in Params : ~BeginFunction(n, ps, qs, storage)
        BY <3>2 DEF DeclareObject, DeclareFunction, BeginFunction
      <4>3. ASSUME NEW n \in Idents PROVE ~DeclareEnumerator(n) /\ ~DeclareLocal(n)
        BY <3>2 DEF DeclareEnumerator, DeclareLocal
      <4>4. PICK n \in Idents : UseIdent(n)
        BY <2>6, <4>1, <4>2, <4>3, Zenon DEF Next
      <4> QED BY <2>4, <4>4
    <3> QED BY <3>1, <3>2
  <2>7. UseMeansDeclaration'
    BY <2>5, <2>6
  <2> QED BY <2>2, <2>7
<1> QED BY <1>1, <1>2, Names_Inductive, PTL DEF Spec

====
