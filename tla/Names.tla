---- MODULE Names ----
(***************************************************************************)
(* Names of one translation unit: how parse.c binds an identifier to a     *)
(* declaration, and what compile.c and codegen.c keep for each.  Every     *)
(* declarator interns its name anew, so a declaration is known by its      *)
(* name_ref; a scope remembers the first one of each name.  The parser     *)
(* reads the whole file before anything is compiled, in the same order; as *)
(* it asks nothing of the compiler a declaration is compiled here as soon  *)
(* as it has been read.  C's own scopes and linkage run alongside.         *)
(***************************************************************************)
EXTENDS Naturals, Sequences, SequencesExt

CONSTANTS Idents,    \* the identifiers
          MaxRefs,   \* bound on declarations, registry->interned_strings
          MaxBlocks, \* bound on nested compound statements
          Shadowing  \* may a block of a function hide a name or reuse an earlier one

ASSUME NamesAssumption ==
    /\ MaxRefs \in Nat /\ MaxBlocks \in Nat
    /\ Shadowing \in BOOLEAN

Storage == {"none", "static", "extern"}
Kinds   == {"object", "enumerator"}

\* Parameter lists, an abstract declarator has no name and no name_ref.
Params == {<<>>} \cup {<<n>> : n \in Idents}

VARIABLES
    idents,     \* registry->interned_strings
    kinds,      \* what each declares, UNTAGGED_IDENT_OBJECT or _ENUMERATOR
    scopes,     \* registry->scopes: in each the name_ref found for a name
    objects,    \* compiler->global_objects: is_tentative of each name_ref
    tentatives, \* compiler->maybe_tentative_globals
    locals,     \* state->locals of the function being compiled
    defined,    \* the labels written to the output
    exported,   \* the names given to .globl
    finished,   \* tacc_compile_coda has run
    used,       \* the last identifier in an expression: what it was taken for
                \* and what C says it means
    meaning,    \* C: the entity each declaration declares
    blocks,     \* C: the scopes and the entity of each name in them
    linkage,    \* C: the linkage of each name of the file; exported differs
                \* (see the README), it says which declarations C allows
    unit        \* C: the names of the file that are defined here

parserVars   == <<idents, kinds, scopes>>
compilerVars == <<objects, tentatives, locals, defined, exported, finished>>
cVars        == <<meaning, blocks, linkage, unit>>
vars         == <<parserVars, compilerVars, used, cVars>>

-----------------------------------------------------------------------------
(* Scopes of the parser *)

Nowhere    == 0
EmptyScope == [n \in Idents |-> Nowhere]
NoUse      == [ref |-> Nowhere, entity |-> <<"none">>]

\* tacc_parse_registry_intern: a fresh name_ref at every declarator
NewRef == Len(idents) + 1

\* tacc_parse_registry_add_variable into a scope, whose table keeps the first
Bind(scope, n, r) == IF scope[n] = Nowhere THEN [scope EXCEPT ![n] = r] ELSE scope

\* What it asserts before: the same kind, and no enumerator twice.
MayBind(scope, n, kind) ==
    scope[n] # Nowhere => kind = kinds[scope[n]] /\ kind # "enumerator"

\* tacc_parse_registry_lookup_untagged: innermost scope first
Lookup(n) ==
    LET at == {i \in 1 .. Len(scopes) : scopes[i][n] # Nowhere}
    IN  IF at = {} THEN Nowhere
        ELSE scopes[CHOOSE i \in at : \A j \in at : j <= i][n]

\* The scope of a parameter list whose first name_ref is r.
ParamScope(ps, r) ==
    [n \in Idents |-> IF n \in ToSet(ps) THEN r + SelectInSeq(ps, LAMBDA m : m = n) - 1
                                         ELSE Nowhere]

\* Mutation: a parameter list always leaves its scope pending.
BugPendingScope(ps, qs, r) == ParamScope(qs, r + Len(ps))

\* registry->pending_func_proto_scope behind a declarator.  Where a function
\* returns a function pointer its own parameters ps are read first and those
\* of what it returns, qs, find a scope pending and drop theirs.
PendingScope(ps, qs, r) == ParamScope(ps, r)

-----------------------------------------------------------------------------
(* C: entities.  All declarations of a name at file level are one entity,   *)
(* any other declaration is an entity of its own.                           *)

File(n) == <<"file", n>>
Own(r)  == <<"own", r>>
None    == <<"none">>

EmptyBlock == [n \in Idents |-> None]

\* The entity an identifier in an expression means.
Meant(n) ==
    LET at == {i \in 1 .. Len(blocks) : blocks[i][n] # None}
    IN  IF at = {} THEN None
        ELSE blocks[CHOOSE i \in at : \A j \in at : j <= i][n]

\* In a compound statement the name is seen from outside, or the function has
\* declared it before.
Hides(n) ==
    \/ Last(scopes)[n] # Nowhere /\ Len(blocks) > 1
    \/ Len(blocks) > 2 /\ Meant(n) # None

InFunction == Len(blocks) > 1
AtTop      == ~InFunction /\ ~finished
Room(k)    == Len(idents) + k <= MaxRefs

Undeclared == <<"unknown">>

\* The linkage a declaration of an object or a function gives its name: with
\* extern, and for a function without a storage class, the one it already has.
LinkageBy(n, storage, what) ==
    IF storage = "static" THEN <<"internal", what>>
    ELSE IF (storage = "extern" \/ what = "function") /\ linkage[n] # Undeclared
         THEN <<linkage[n][1], what>>
    ELSE <<"external", what>>

\* C gives no meaning to a name with both, as in int x; static int x; and has
\* no object that is a function.
Linked(n, storage, what) ==
    /\ linkage[n] \in {Undeclared, LinkageBy(n, storage, what)}
    /\ linkage' = [linkage EXCEPT ![n] = LinkageBy(n, storage, what)]

Init ==
    /\ idents = <<>>
    /\ kinds = <<>>
    /\ scopes = <<EmptyScope>>
    /\ objects = [r \in {} |-> FALSE]
    /\ tentatives = <<>>
    /\ locals = {}
    /\ defined = {}
    /\ exported = {}
    /\ finished = FALSE
    /\ used = NoUse
    /\ meaning = <<>>
    /\ blocks = <<EmptyBlock>>
    /\ linkage = [n \in Idents |-> Undeclared]
    /\ unit = {}

-----------------------------------------------------------------------------
(* Declarations at file level *)

\* The parser's part of a declarator of n and of the parameters ps behind it.
ReadDeclarator(n, ps, kind) ==
    /\ Room(1 + Len(ps))
    /\ MayBind(scopes[1], n, kind)
    /\ idents' = idents \o <<n>> \o ps
    /\ kinds' = kinds \o <<kind>> \o [k \in 1 .. Len(ps) |-> "object"]
    /\ meaning' = meaning \o <<IF kind = "object" THEN File(n) ELSE Own(NewRef)>>
                          \o [k \in 1 .. Len(ps) |-> Own(NewRef + k)]

\* tacc_compile_add_global_object: the name_ref is new, so nothing is found
\* under it and the checks on a redefinition do not apply
WithObject(r, tentative) ==
    [s \in DOMAIN objects \cup {r} |-> IF s = r THEN tentative ELSE objects[s]]

\* Mutation: a declaration with extern is taken for a tentative definition.
BugIsTentative(storage, initialised) == ~initialised

\* tacc_compile_top_decl: a definition without initialiser, put off
IsTentative(storage, initialised) == ~initialised /\ storage # "extern"

\* Names a definition or a function declaration exports.
Exports(storage) == storage # "static"

\* tacc_compile_top_decl of an object
DeclareObject(n, storage, initialised) ==
    /\ AtTop
    /\ ReadDeclarator(n, <<>>, "object")
    /\ scopes' = [scopes EXCEPT ![1] = Bind(@, n, NewRef)]
    /\ objects' = WithObject(NewRef, IsTentative(storage, initialised))
    /\ tentatives' = IF IsTentative(storage, initialised)
                     THEN Append(tentatives, NewRef) ELSE tentatives
    /\ defined' = IF initialised THEN defined \cup {n} ELSE defined
    /\ exported' = IF initialised /\ Exports(storage)
                   THEN exported \cup {n} ELSE exported
    /\ Linked(n, storage, "object")
    /\ initialised => n \notin defined
    /\ unit' = IF initialised \/ storage # "extern" THEN unit \cup {n} ELSE unit
    /\ blocks' = [blocks EXCEPT ![1][n] = File(n)]
    /\ used' = NoUse
    /\ UNCHANGED <<locals, finished>>

\* tacc_compile_top_decl of a function; its parameters' scope is dropped
DeclareFunction(n, ps, storage) ==
    /\ AtTop
    /\ ReadDeclarator(n, ps, "object")
    /\ scopes' = [scopes EXCEPT ![1] = Bind(@, n, NewRef)]
    /\ objects' = WithObject(NewRef, FALSE)
    /\ exported' = IF Exports(storage) THEN exported \cup {n} ELSE exported
    /\ Linked(n, storage, "function")
    /\ blocks' = [blocks EXCEPT ![1][n] = File(n)]
    /\ used' = NoUse
    /\ UNCHANGED <<tentatives, locals, defined, finished, unit>>

\* tacc_eval_enumerators: an enumerator is a global object wherever declared
DeclareEnumerator(n) ==
    /\ ~finished
    /\ Room(1)
    /\ MayBind(Last(scopes), n, "enumerator")
    /\ Last(blocks)[n] = None
    /\ Shadowing \/ ~Hides(n)
    /\ idents' = Append(idents, n)
    /\ kinds' = Append(kinds, "enumerator")
    /\ meaning' = Append(meaning, Own(NewRef))
    /\ scopes' = [scopes EXCEPT ![Len(scopes)] = Bind(@, n, NewRef)]
    /\ objects' = WithObject(NewRef, FALSE)
    /\ blocks' = [blocks EXCEPT ![Len(blocks)][n] = Own(NewRef)]
    /\ used' = NoUse
    /\ UNCHANGED <<tentatives, locals, defined, exported, finished, linkage, unit>>

\* A function definition up to its body: the pending scope becomes the body's,
\* tacc_cg_compile_function gives the parameters ps storage.
BeginFunction(n, ps, qs, storage) ==
    /\ AtTop
    /\ ReadDeclarator(n, ps \o qs, "object")
    /\ scopes' = <<Bind(scopes[1], n, NewRef), PendingScope(ps, qs, NewRef + 1)>>
    /\ objects' = WithObject(NewRef, FALSE)
    /\ locals' = {NewRef + k : k \in 1 .. Len(ps)}
    /\ defined' = defined \cup {n}
    /\ exported' = IF Exports(storage) THEN exported \cup {n} ELSE exported
    /\ Linked(n, storage, "function")
    /\ n \notin unit
    /\ unit' = unit \cup {n}
    /\ blocks' = <<[blocks[1] EXCEPT ![n] = File(n)],
                   [m \in Idents |->
                       IF m \in ToSet(ps)
                       THEN Own(NewRef + SelectInSeq(ps, LAMBDA p : p = m)) ELSE None]>>
    /\ used' = NoUse
    /\ UNCHANGED <<tentatives, finished>>

-----------------------------------------------------------------------------
(* Function bodies *)

\* tacc_cg_decl: storage for a name of its own
DeclareLocal(n) ==
    /\ InFunction
    /\ Room(1)
    /\ MayBind(Last(scopes), n, "object")
    /\ Last(blocks)[n] = None
    /\ Shadowing \/ ~Hides(n)
    /\ idents' = Append(idents, n)
    /\ kinds' = Append(kinds, "object")
    /\ meaning' = Append(meaning, Own(NewRef))
    /\ scopes' = [scopes EXCEPT ![Len(scopes)] = Bind(@, n, NewRef)]
    /\ locals' = locals \cup {NewRef}
    /\ blocks' = [blocks EXCEPT ![Len(blocks)][n] = Own(NewRef)]
    /\ used' = NoUse
    /\ UNCHANGED <<objects, tentatives, defined, exported, finished, linkage, unit>>

\* A compound statement is a scope of C but none of the parser's.
EnterBlock ==
    /\ InFunction
    /\ Len(blocks) < 2 + MaxBlocks
    /\ blocks' = Append(blocks, EmptyBlock)
    /\ used' = NoUse
    /\ UNCHANGED <<parserVars, compilerVars, meaning, linkage, unit>>

LeaveBlock ==
    /\ Len(blocks) > 2
    /\ blocks' = Front(blocks)
    /\ used' = NoUse
    /\ UNCHANGED <<parserVars, compilerVars, meaning, linkage, unit>>

\* An identifier in an expression; the program declares what it uses.
UseIdent(n) ==
    /\ ~finished
    /\ Meant(n) # None
    /\ used' = [ref |-> Lookup(n), entity |-> Meant(n)]
    /\ UNCHANGED <<parserVars, compilerVars, cVars>>

\* Mutation: the scope of a function outlives it.
BugEndFunction ==
    /\ Len(blocks) = 2
    /\ blocks' = Front(blocks)
    /\ locals' = {}
    /\ used' = NoUse
    /\ UNCHANGED <<parserVars, objects, tentatives, defined, exported, finished,
                   meaning, linkage, unit>>

\* tacc_parse_registry_end_scope, tacc_cg_state_free
EndFunction ==
    /\ Len(blocks) = 2
    /\ scopes' = Front(scopes)
    /\ blocks' = Front(blocks)
    /\ locals' = {}
    /\ used' = NoUse
    /\ UNCHANGED <<idents, kinds, objects, tentatives, defined, exported, finished,
                   meaning, linkage, unit>>

\* tacc_compile_coda: what is still tentative is defined; is_tentative is
\* never taken back
Coda ==
    /\ AtTop
    /\ defined' = defined \cup {idents[r] : r \in {t \in ToSet(tentatives) : objects[t]}}
    /\ finished' = TRUE
    /\ used' = NoUse
    /\ UNCHANGED <<parserVars, objects, tentatives, locals, exported, cVars>>

Next ==
    \/ \E n \in Idents :
        \/ \E storage \in Storage, initialised \in BOOLEAN :
              DeclareObject(n, storage, initialised)
        \/ \E storage \in Storage :
              \/ \E ps \in Params : DeclareFunction(n, ps, storage)
              \/ \E ps, qs \in Params : BeginFunction(n, ps, qs, storage)
        \/ DeclareEnumerator(n)
        \/ DeclareLocal(n)
        \/ UseIdent(n)
    \/ EnterBlock \/ LeaveBlock \/ EndFunction \/ Coda

Spec == Init /\ [][Next]_vars

-----------------------------------------------------------------------------
(* Properties *)

\* An identifier is taken for a declaration of the entity it means: a local
\* or a parameter hides the object of the file, but only from its declaration
\* on; a redeclaration at file level still means the same object; parameters
\* of a prototype, of a returned function pointer or of another function are
\* not seen.
UseMeansDeclaration ==
    used.entity # None =>
        used.ref # Nowhere /\ meaning[used.ref] = used.entity

\* What the parser binds an identifier to, the compiler knows: a local of the
\* function it is compiling or an object of the file.  Two tables filled by
\* two passes agree, "no declaration visible" is never reached.
BoundIsKnown ==
    used.entity # None => used.ref \in locals \cup DOMAIN objects

\* At the end the output defines the objects and functions C says this file
\* defines: also those only declared without initialiser, not those only
\* declared extern.
DefinitionsEmitted == finished => defined = unit
====
