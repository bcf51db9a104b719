---- MODULE MacroExpansion_proofs ----
(***************************************************************************)
(* Proofs about macro replacement, for any macros, files and nesting: the  *)
(* flag is_replacing of a macro is set exactly while its marker is still   *)
(* to be read, and there is one marker (Markers_Match).                    *)
(*                                                                         *)
(* A macro is replaced by an iterator in phase "replace"; all but the last *)
(* iterator are.  While a helper works for an argument of macro n the flag *)
(* of n is down although its marker is there, so besides the markers that  *)
(* count now, the invariant speaks of those that will count when the       *)
(* helpers above iterator e are gone: of the macro e replaces there is     *)
(* one (Suspended).  Finish then finds it.                                 *)
(*                                                                         *)
(* Concat and SplitArgs are recursive functions; that they exist and what  *)
(* they return is shown by induction over a set of numbers.                *)
(***************************************************************************)
EXTENDS MacroExpansion, WellFoundedInduction, TLAPS

Phases  == {"scan", "look", "collect", "defined", "operand", "close", "replace"}
Pending == Lexemes \cup {EOF} \cup {Placemarker} \cup [kind : {"end"}, text : Texts, final : BOOLEAN]

Iterators ==
    [pending : Seq(Pending), phase : Phases, name : Lexemes \cup {EOF},
     args : Seq(Lexemes) \cup Seq(Seq(Lexemes)), nest : Nat, at : Nat,
     last : Seq(Lexemes), out : Seq(Lexemes)]

TypeInv ==
    /\ macros \in [DOMAIN macros -> MacroDefs]
    /\ inIf \in BOOLEAN
    /\ iters \in Seq(Iterators) /\ iters # <<>>
    /\ replacing \in [DOMAIN macros -> BOOLEAN]

\* The end of the tokens is at the bottom of pending or nowhere.
Bottom(pending) == \A q \in 2 .. Len(pending) : pending[q].kind # "eof"

\* What holds of each iterator by itself
Calling(i) ==
    /\ i.name.kind = "ident" /\ i.name.text \in DOMAIN macros
    /\ macros[i.name.text].function
    /\ i.phase = "collect" => i.args \in Seq(Lexemes)
Substituting(i) ==
    /\ i.pending # <<>>
    /\ i.name.text \in DOMAIN macros
    /\ i.at <= Len(macros[i.name.text].body)
    /\ macros[i.name.text].function =>
          i.args \in [1 .. Arity(macros[i.name.text]) -> Seq(Lexemes)]
Sound(i) ==
    /\ Bottom(i.pending)
    /\ i.phase \in {"look", "collect"} => Calling(i)
    /\ i.phase = "replace" => Substituting(i)

\* What holds of the iterator that is running
Running(i, flags) ==
    /\ i.phase \in {"look", "collect"} => ~flags[i.name.text]
    /\ i.phase = "replace" => flags[i.name.text]

\* Position q of pending is a marker of n.
HasEnd(pending, q, n) ==
    q \in 1 .. Len(pending) /\ pending[q].kind = "end" /\ pending[q].text = n

\* A marker of m, and no other, comes to position top.
PutAt(new, old, top, m) ==
    \A q, n : HasEnd(new, q, n) <=> HasEnd(old, q, n) \/ (q = top /\ n = m)

\* It is in iterator i and counts when the iterators above d are gone.
Counts(its, d, i, q, n) ==
    /\ i \in 1 .. d /\ HasEnd(its[i].pending, q, n)
    /\ \A k \in i .. d - 1 : its[k].name.text # n

Some(its, d, n) == \E i, q : Counts(its, d, i, q, n)
AtMostOne(its, d, n) ==
    \A i, j, q, r : Counts(its, d, i, q, n) /\ Counts(its, d, j, r, n) => i = j /\ q = r

Suspended ==
    \A e \in 1 .. Len(iters) - 1 :
        /\ iters[e].phase = "replace"
        /\ Some(iters, e, iters[e].name.text) /\ AtMostOne(iters, e, iters[e].name.text)

Matching ==
    \A n \in DOMAIN macros :
        /\ replacing[n] <=> Some(iters, Len(iters), n)
        /\ AtMostOne(iters, Len(iters), n)

IndInv ==
    /\ TypeInv
    /\ \A k \in 1 .. Len(iters) : Sound(iters[k])
    /\ Running(Inner, replacing)
    /\ Suspended
    /\ Matching

\* Induction up to N, over a set.
LEMMA Induction ==
    ASSUME NEW N \in Nat, NEW G, 0 \in G, \A k \in 1 .. N : k - 1 \in G => k \in G
    PROVE  \A k \in 0 .. N : k \in G
<1> SUFFICES ASSUME NEW b \in 0 .. N, b \notin G PROVE FALSE
  OBVIOUS
<1> DEFINE D == {k \in 0 .. N : k \notin G}
<1>1. IsWellFoundedOn(OpToRel(<, Nat), Nat)
  BY NatLessThanWellFounded
<1>2. D \in SUBSET Nat /\ D # {}
  OBVIOUS
<1>3. PICK n \in D : \A j \in D : ~(<<j, n>> \in OpToRel(<, Nat))
  BY <1>1, <1>2, WFMin
<1>4. \A j \in D : ~(j < n)
  BY <1>2, <1>3 DEF OpToRel
<1>5. n \in 1 .. N /\ n \notin G
  OBVIOUS
<1>6. n - 1 \in G
  BY <1>4, <1>5
<1> QED BY <1>5, <1>6

\* A function given by its first value and by steps exists.
Steps(f, N, S, first, step) ==
    /\ f \in [0 .. N -> S] /\ f[0] = first
    /\ \A k \in 1 .. N : f[k] = step[k][f[k - 1]]

LEMMA Recursion ==
    ASSUME NEW N \in Nat, NEW S, NEW first \in S, NEW step \in [1 .. N -> [S -> S]]
    PROVE  \E f : Steps(f, N, S, first, step)
<1> DEFINE Is(f, n) == /\ f \in [0 .. n -> S] /\ f[0] = first
                       /\ \A k \in 1 .. n : f[k] = step[k][f[k - 1]]
           G == {n \in 0 .. N : \E f : Is(f, n)}
<1>1. 0 \in G
  <2>1. Is([k \in 0 .. 0 |-> first], 0)
    OBVIOUS
  <2> HIDE DEF Is
  <2>2. \E f : Is(f, 0)
    BY <2>1, Zenon
  <2> QED BY <2>2
<1>2. ASSUME NEW n \in 1 .. N, n - 1 \in G PROVE n \in G
  <2>1. PICK g : Is(g, n - 1)
    BY <1>2
  <2> DEFINE h == [k \in 0 .. n |-> IF k = n THEN step[n][g[n - 1]] ELSE g[k]]
  <2>2. n - 1 \in 0 .. n - 1 /\ g[n - 1] \in S /\ step[n][g[n - 1]] \in S
    BY <2>1
  <2>3. h \in [0 .. n -> S] /\ h[0] = first
    BY <2>1, <2>2
  <2>4. ASSUME NEW k \in 1 .. n PROVE h[k] = step[k][h[k - 1]]
    <3>1. h[k - 1] = g[k - 1]
      OBVIOUS
    <3>2. k # n => k \in 1 .. n - 1
      OBVIOUS
    <3> QED BY <2>1, <3>1, <3>2
  <2>5. Is(h, n)
    BY <2>3, <2>4
  <2> HIDE DEF Is, h
  <2>6. \E f : Is(f, n)
    BY <2>5, Zenon
  <2> QED BY <2>6
<1> HIDE DEF G
<1>3. \A n \in 0 .. N : n \in G
  BY <1>1, <1>2, Induction
<1> QED BY <1>3 DEF G, Steps

\* Sequences joined are a sequence.
LEMMA ConcatType ==
    ASSUME NEW X, NEW parts \in Seq(Seq(X))
    PROVE  Concat(parts) \in Seq(X)
<1> DEFINE N == Len(parts)
           Is(to) == to = [k \in 0 .. N |-> IF k = 0 THEN <<>> ELSE to[k - 1] \o parts[k]]
           to == CHOOSE to : Is(to)
           step == [k \in 1 .. N |-> [s \in Seq(X) |-> s \o parts[k]]]
<1>1. N \in Nat /\ <<>> \in Seq(X) /\ \A k \in 1 .. N : parts[k] \in Seq(X)
  OBVIOUS
<1>2. step \in [1 .. N -> [Seq(X) -> Seq(X)]]
  BY <1>1
<1>3. PICK f : Steps(f, N, Seq(X), <<>>, step)
  <2> HIDE DEF step, N
  <2> QED BY <1>1, <1>2, Recursion
<1>4. ASSUME NEW k \in 0 .. N
      PROVE  f[k] = IF k = 0 THEN <<>> ELSE f[k - 1] \o parts[k]
  <2>1. CASE k = 0
    BY <1>3, <2>1 DEF Steps
  <2>2. CASE k # 0
    <3>1. k \in 1 .. N /\ k - 1 \in 0 .. N
      BY <1>1, <2>2
    <3>2. f[k - 1] \in Seq(X) /\ f[k] = step[k][f[k - 1]]
      BY <1>3, <3>1 DEF Steps
    <3> QED BY <2>2, <3>1, <3>2
  <2> QED BY <2>1, <2>2
<1>5. Is(f)
  <2>1. f = [k \in 0 .. N |-> f[k]]
    BY <1>3 DEF Steps
  <2> QED BY <1>4, <2>1
<1>6. Is(to)
  BY <1>5
<1>7. Concat(parts) = to[N]
  BY DEF Concat
<1> HIDE DEF to
<1>8. \A k \in 0 .. N : k \in {j \in 0 .. N : to[j] \in Seq(X)}
  <2> DEFINE G == {j \in 0 .. N : to[j] \in Seq(X)}
  <2>1. 0 \in G
    BY <1>1, <1>6
  <2>2. ASSUME NEW k \in 1 .. N, k - 1 \in G PROVE k \in G
    <3>1. to[k] = to[k - 1] \o parts[k]
      <4>1. k \in 0 .. N /\ k # 0
        BY <1>1
      <4>2. to[k] = IF k = 0 THEN <<>> ELSE to[k - 1] \o parts[k]
        BY <1>6, <4>1
      <4> QED BY <4>1, <4>2
    <3>2. to[k - 1] \in Seq(X) /\ parts[k] \in Seq(X)
      BY <1>1, <2>2
    <3>3. to[k] \in Seq(X) /\ k \in 0 .. N
      BY <1>1, <3>1, <3>2
    <3> QED BY <3>3
  <2> HIDE DEF G, N
  <2>3. \A k \in 0 .. N : k \in G
    BY <1>1, <2>1, <2>2, Induction
  <2> QED BY <2>3 DEF G
<1> QED BY <1>1, <1>7, <1>8

\* The arguments of a call are as many as the macro takes.
LEMMA SplitType ==
    ASSUME NEW m \in MacroDefs, NEW X, NEW raw \in Seq(X)
    PROVE  SplitArgs(m, raw) \in [1 .. Arity(m) -> Seq(X)]
<1> DEFINE N == Len(raw)
           index ==
             LET to[k \in 0 .. Len(raw)] ==
                     IF k = 0 THEN <<1, FALSE>>
                     ELSE IF /\ raw[k].kind = "," /\ Depth(raw)[k] = 0
                             /\ to[k - 1][1] <= Len(m.params)
                          THEN <<to[k - 1][1] + 1, TRUE>>
                          ELSE <<to[k - 1][1], FALSE>>
             IN  to
           Own(a, k) == index[k] = <<a, FALSE>>
           Is(a, of) == of = [k \in 0 .. Len(raw) |->
                                 IF k = 0 THEN <<>>
                                 ELSE IF Own(a, k) THEN Append(of[k - 1], raw[k])
                                 ELSE of[k - 1]]
           Of(a) == CHOOSE of : Is(a, of)
<1>1. SplitArgs(m, raw) = [a \in 1 .. Arity(m) |-> Of(a)[Len(raw)]]
  BY DEF SplitArgs
<1> HIDE DEF index
<1>2. ASSUME NEW a \in 1 .. Arity(m) PROVE Of(a)[N] \in Seq(X)
  <2> DEFINE step == [k \in 1 .. N |-> [s \in Seq(X) |-> IF Own(a, k) THEN Append(s, raw[k]) ELSE s]]
             of == Of(a)
  <2> HIDE DEF Own
  <2>1. N \in Nat /\ <<>> \in Seq(X) /\ \A k \in 1 .. N : raw[k] \in X
    OBVIOUS
  <2>2. step \in [1 .. N -> [Seq(X) -> Seq(X)]]
    BY <2>1
  <2>3. PICK f : Steps(f, N, Seq(X), <<>>, step)
    <3> HIDE DEF step, N
    <3> QED BY <2>1, <2>2, Recursion
  <2>4. ASSUME NEW k \in 0 .. N
        PROVE  f[k] = IF k = 0 THEN <<>>
                      ELSE IF Own(a, k) THEN Append(f[k - 1], raw[k]) ELSE f[k - 1]
    <3>1. CASE k = 0
      BY <2>3, <3>1 DEF Steps
    <3>2. CASE k # 0
      <4>1. k \in 1 .. N /\ k - 1 \in 0 .. N
        BY <2>1, <3>2
      <4>2. f[k - 1] \in Seq(X) /\ f[k] = step[k][f[k - 1]]
        BY <2>3, <4>1 DEF Steps
      <4> QED BY <3>2, <4>1, <4>2
    <3> QED BY <3>1, <3>2
  <2>5. Is(a, f)
    <3>1. f = [k \in 0 .. N |-> f[k]]
      BY <2>3 DEF Steps
    <3> QED BY <2>4, <3>1
  <2>6. Is(a, of)
    BY <2>5
  <2> HIDE DEF Of, of
  <2> DEFINE G == {j \in 0 .. N : of[j] \in Seq(X)}
  <2>7. 0 \in G
    BY <2>1, <2>6
  <2>8. ASSUME NEW k \in 1 .. N, k - 1 \in G PROVE k \in G
    <3>1. k \in 0 .. N /\ k # 0
      BY <2>1
    <3>2. of[k] = IF Own(a, k) THEN Append(of[k - 1], raw[k]) ELSE of[k - 1]
      BY <2>6, <3>1
    <3>3. of[k - 1] \in Seq(X) /\ raw[k] \in X
      BY <2>1, <2>8
    <3>4. Append(of[k - 1], raw[k]) \in Seq(X)
      BY <3>3
    <3>5. of[k] \in Seq(X)
      BY <3>2, <3>3, <3>4
    <3> QED BY <3>1, <3>5
  <2>9. \A k \in 0 .. N : k \in G
    <3> HIDE DEF G, N
    <3> QED BY <2>1, <2>7, <2>8, Induction
  <2> QED BY <2>1, <2>9 DEF of
<1> QED BY <1>1, <1>2


-----------------------------------------------------------------------------
(* What the conversions make of tokens are tokens.                         *)

LEMMA TextFacts ==
    /\ <<>> \in Texts
    /\ \A p \in Pieces \cup MadePieces : <<p>> \in Texts
    /\ \A s, t \in Texts : s \o t \in Texts
<1> DEFINE X == Pieces \cup MadePieces
<1> HIDE DEF X
<1>1. /\ <<>> \in Seq(X)
      /\ \A p \in X : <<p>> \in Seq(X)
      /\ \A s, t \in Seq(X) : s \o t \in Seq(X)
  OBVIOUS
<1> QED BY <1>1 DEF Texts, X

LEMMA LexemeFacts ==
    ASSUME NEW t \in Lexemes
    PROVE  /\ t.kind \in Spelled \cup (Marks \ {"eof"}) /\ t.text \in Texts
           /\ t.final \in BOOLEAN
           /\ t.kind \notin {"eof", "end", "placemarker"}
BY DEF Lexemes, Spelled, Marks

LEMMA TokenType ==
    ASSUME NEW kind \in Spelled \cup (Marks \ {"eof"}), NEW text \in Texts
    PROVE  Token(kind, text) \in Lexemes
BY DEF Token, Lexemes

LEMMA FinalType ==
    ASSUME NEW t \in Lexemes, NEW b \in BOOLEAN
    PROVE  [t EXCEPT !.final = b] \in Lexemes
BY DEF Lexemes

LEMMA StringType ==
    ASSUME NEW arg \in Seq(Lexemes)
    PROVE  Stringified(arg) \in Lexemes
<1> DEFINE part(k) == <<" ">> \o Spelling(arg[k])
           parts == [k \in 1 .. Len(arg) |-> part(k)]
<1>0. {" ", "\""} \cup Spelled \cup Marks \subseteq Pieces \cup MadePieces
  BY DEF MadePieces
<1>1. ASSUME NEW k \in 1 .. Len(arg) PROVE part(k) \in Texts
  <2>1. arg[k] \in Lexemes
    OBVIOUS
  <2>2. arg[k].text \in Texts /\ <<arg[k].kind>> \in Texts
    BY <1>0, <2>1, LexemeFacts, TextFacts
  <2>3. Spelling(arg[k]) \in Texts
    BY <2>2 DEF Spelling
  <2> QED BY <1>0, <2>3, TextFacts
<1>2. parts \in Seq(Texts)
  <2> HIDE DEF part
  <2>1. Len(arg) \in Nat
    OBVIOUS
  <2> QED BY <1>1, <2>1
<1>3. Concat(parts) \in Texts
  <2> DEFINE X == Pieces \cup MadePieces
  <2> HIDE DEF parts, X
  <2>1. parts \in Seq(Seq(X))
    BY <1>2 DEF Texts, X
  <2>2. Concat(parts) \in Seq(X)
    BY <2>1, ConcatType
  <2> QED BY <2>2 DEF Texts, X
<1>4. Stringified(arg) = Token("string", <<"\"">> \o Concat(parts))
  BY DEF Stringified
<1>5. <<"\"">> \o Concat(parts) \in Texts
  <2> HIDE DEF parts
  <2> QED BY <1>0, <1>3, TextFacts
<1> HIDE DEF parts
<1>6. "string" \in Spelled
  BY DEF Spelled
<1> QED BY <1>4, <1>5, <1>6, TokenType

LEMMA JoinedType ==
    ASSUME NEW l \in Lexemes, NEW r, r.kind = "placemarker" \/ r \in Lexemes
    PROVE  Joined(l, r) \in Lexemes
<1>1. CASE r.kind = "placemarker"
  BY <1>1, FinalType DEF Joined
<1>2. CASE r.kind # "placemarker"
  <2>1. l.text \o r.text \in Texts
    BY <1>2, LexemeFacts, TextFacts
  <2>2. {"ident", "number"} \subseteq Spelled
    BY DEF Spelled
  <2>3. Lexed(l.text \o r.text) \in Lexemes
    BY <2>1, <2>2, TokenType DEF Lexed
  <2> QED BY <1>2, <2>3 DEF Joined
<1> QED BY <1>1, <1>2

LEMMA ParType ==
    ASSUME NEW m \in MacroDefs, NEW t
    PROVE  ParIndex(m, t) \in 0 .. Arity(m)
<1>1. Len(m.params) \in Nat /\ m.va \in BOOLEAN
  BY DEF MacroDefs
<1>0. /\ Arity(m) \in Nat /\ Len(m.params) <= Arity(m)
      /\ m.va => Arity(m) = Len(m.params) + 1
  <2>1. CASE m.va
    BY <1>1, <2>1 DEF Arity
  <2>2. CASE ~m.va
    BY <1>1, <2>2 DEF Arity
  <2> QED BY <2>1, <2>2
<1> DEFINE named == {k \in 1 .. Len(m.params) : <<m.params[k]>> = t.text}
<1>2. ASSUME named # {} PROVE (CHOOSE k \in named : TRUE) \in 1 .. Len(m.params)
  BY <1>2
<1>3. \/ ParIndex(m, t) = 0
      \/ m.va /\ ParIndex(m, t) = Len(m.params) + 1
      \/ named # {} /\ ParIndex(m, t) = CHOOSE k \in named : TRUE
  BY Zenon DEF ParIndex
<1> HIDE DEF named
<1>4. CASE m.va /\ ParIndex(m, t) = Len(m.params) + 1
  BY <1>0, <1>1, <1>4
<1>5. CASE named # {} /\ ParIndex(m, t) = CHOOSE k \in named : TRUE
  <2>1. ParIndex(m, t) \in 1 .. Len(m.params)
    BY <1>2, <1>5
  <2> QED BY <1>0, <1>1, <2>1
<1>6. CASE ParIndex(m, t) = 0
  BY <1>0, <1>6
<1> QED BY <1>3, <1>4, <1>5, <1>6

LEMMA NumberType == \A b : NumberOf(b) \in Lexemes
<1> SUFFICES ASSUME NEW b PROVE NumberOf(b) \in Lexemes
  OBVIOUS
<1>1. {"0", "1"} \subseteq Pieces \cup MadePieces /\ "number" \in Spelled
  BY DEF MadePieces, Spelled
<1>2. Number(IF b THEN "1" ELSE "0") \in Lexemes
  BY <1>1, TextFacts, TokenType DEF Number
<1> QED BY <1>2, FinalType DEF NumberOf

-----------------------------------------------------------------------------
(* What is pending                                                         *)

LEMMA PendingFacts ==
    ASSUME NEW t \in Pending
    PROVE  /\ t.text \in Texts
           /\ t.kind \notin {"eof", "end", "placemarker"} => t \in Lexemes
           /\ t.kind = "eof" => t = EOF
<1>1. EOF.text = <<>> /\ Placemarker.text = <<>>
      /\ EOF.kind = "eof" /\ Placemarker.kind = "placemarker"
  BY DEF EOF, Placemarker, Mark, Token
<1>2. CASE t \in Lexemes
  BY <1>2, LexemeFacts
<1>3. CASE t \in {EOF, Placemarker}
  BY <1>1, <1>3, TextFacts
<1>4. CASE t \in [kind : {"end"}, text : Texts, final : BOOLEAN]
  BY <1>4
<1> QED BY <1>2, <1>3, <1>4 DEF Pending

LEMMA PendingTypes ==
    /\ Lexemes \subseteq Pending /\ EOF \in Pending /\ Placemarker \in Pending
    /\ \A n \in Texts : EndOf(n) \in Pending
BY DEF Pending, EndOf, Token

\* Tokens put on top of pending are no markers, and not the end.
LEMMA Pushed ==
    ASSUME NEW p \in Seq(Pending), Bottom(p), NEW ts \in Seq(Pending),
           \A k \in 1 .. Len(ts) : ts[k].kind \notin {"eof", "end"}
    PROVE  /\ p \o ts \in Seq(Pending) /\ Bottom(p \o ts)
           /\ p # <<>> => p \o ts # <<>>
           /\ \A q, n : HasEnd(p \o ts, q, n) <=> HasEnd(p, q, n)
<1> DEFINE s == p \o ts
<1>1. s \in Seq(Pending) /\ Len(s) = Len(p) + Len(ts) /\ Len(p) \in Nat /\ Len(ts) \in Nat
  OBVIOUS
<1>2. \A q \in 1 .. Len(p) : s[q] = p[q]
  OBVIOUS
<1>3. ASSUME NEW q \in 1 .. Len(s), q \notin 1 .. Len(p)
      PROVE  s[q].kind \notin {"eof", "end"}
  <2>1. q - Len(p) \in 1 .. Len(ts) /\ s[q] = ts[q - Len(p)]
    BY <1>1, <1>3
  <2> QED BY <2>1
<1> HIDE DEF s
<1>4. Bottom(s)
  BY <1>1, <1>2, <1>3 DEF Bottom
<1>5. \A q, n : HasEnd(s, q, n) <=> HasEnd(p, q, n)
  BY <1>1, <1>2, <1>3 DEF HasEnd
<1>6. p # <<>> => s # <<>>
  <2>1. p # <<>> => Len(p) # 0
    OBVIOUS
  <2> QED BY <1>1, <2>1
<1> QED BY <1>1, <1>4, <1>5, <1>6 DEF s

LEMMA FrontIs ==
    ASSUME NEW S, NEW s \in Seq(S), s # <<>>
    PROVE  /\ Len(s) \in Nat \ {0}
           /\ SubSeq(s, 1, Len(s) - 1) \in Seq(S)
           /\ Len(SubSeq(s, 1, Len(s) - 1)) = Len(s) - 1
           /\ \A i \in 1 .. Len(s) - 1 : SubSeq(s, 1, Len(s) - 1)[i] = s[i]
<1>1. Len(s) \in Nat \ {0} /\ Len(s) - 1 \in Nat
  OBVIOUS
<1>2. \A i \in 1 .. Len(s) - 1 : i \in 1 .. Len(s) /\ s[i] \in S
  BY <1>1
<1>3. SubSeq(s, 1, Len(s) - 1) = [i \in 1 .. Len(s) - 1 |-> s[i]]
  BY <1>1, <1>2
<1>4. [i \in 1 .. Len(s) - 1 |-> s[i]] \in Seq(S)
  BY <1>1, <1>2
<1>5. Len([i \in 1 .. Len(s) - 1 |-> s[i]]) = Len(s) - 1
  BY <1>1, <1>4
<1> QED BY <1>1, <1>3, <1>4, <1>5

LEMMA BelowIs ==
    ASSUME NEW p \in Seq(Pending), p # <<>>, Bottom(p)
    PROVE  /\ Below(p) \in Seq(Pending) /\ Bottom(Below(p))
           /\ Len(Below(p)) = Len(p) - 1 /\ Len(p) \in Nat \ {0}
           /\ \A q \in 1 .. Len(p) - 1 : Below(p)[q] = p[q]
           /\ p[Len(p)] \in Pending
           /\ \A q, n : HasEnd(Below(p), q, n) <=> HasEnd(p, q, n) /\ q # Len(p)
<1>1. Len(p) \in Nat \ {0}
  OBVIOUS
<1> DEFINE s == Below(p)
<1>2. /\ s \in Seq(Pending) /\ Len(s) = Len(p) - 1
      /\ \A q \in 1 .. Len(p) - 1 : s[q] = p[q]
  BY FrontIs DEF Below
<1>3. p[Len(p)] \in Pending
  BY <1>1
<1> HIDE DEF s
<1>4. Bottom(s)
  BY <1>1, <1>2 DEF Bottom
<1>5. \A q, n : HasEnd(s, q, n) <=> HasEnd(p, q, n) /\ q # Len(p)
  BY <1>1, <1>2 DEF HasEnd
<1> QED BY <1>1, <1>2, <1>3, <1>4, <1>5 DEF s

LEMMA ReversedType ==
    ASSUME NEW X, NEW s \in Seq(X)
    PROVE  Reversed(s) \in Seq(X)
<1>1. Len(s) \in Nat /\ \A k \in 1 .. Len(s) : s[Len(s) + 1 - k] \in X
  OBVIOUS
<1> QED BY <1>1 DEF Reversed

-----------------------------------------------------------------------------
(* Markers that count                                                      *)

LEMMA SameCounts ==
    ASSUME NEW a, NEW b, NEW d \in Nat, NEW n,
           \A i \in 1 .. d : \A q : HasEnd(a[i].pending, q, n) <=> HasEnd(b[i].pending, q, n),
           \A k \in 1 .. d - 1 : a[k].name.text = b[k].name.text
    PROVE  /\ Some(a, d, n) <=> Some(b, d, n)
           /\ AtMostOne(a, d, n) <=> AtMostOne(b, d, n)
<1>1. \A i, q : Counts(a, d, i, q, n) <=> Counts(b, d, i, q, n)
  BY DEF Counts
<1> QED BY <1>1 DEF Some, AtMostOne

\* MarkersMatch in these terms
LEMMA MatchingIs ==
    ASSUME TypeInv
    PROVE  Matching <=> MarkersMatch
<1> DEFINE d == Len(iters)
<1>1. d \in Nat /\ \A i \in 1 .. d : Len(iters[i].pending) \in Nat
  <2>1. iters \in Seq(Iterators)
    BY DEF TypeInv
  <2>2. d \in Nat /\ \A i \in 1 .. d : iters[i] \in Iterators
    BY ONLY <2>1
  <2>3. \A x \in Iterators : x.pending \in Seq(Pending)
    BY DEF Iterators
  <2>4. \A s \in Seq(Pending) : Len(s) \in Nat
    OBVIOUS
  <2> QED BY ONLY <2>2, <2>3, <2>4
<1>2. ASSUME NEW n
      PROVE  \A p : p \in Markers(n) <=> \E i, q : p = <<i, q>> /\ Counts(iters, d, i, q, n)
  <2>1. ASSUME NEW i, NEW q
        PROVE  <<i, q>> \in Markers(n) <=> Counts(iters, d, i, q, n)
    <3>1. <<i, q>> \in UNION {{j} \X (1 .. Len(iters[j].pending)) : j \in 1 .. Len(iters)}
            <=> i \in 1 .. d /\ q \in 1 .. Len(iters[i].pending)
      OBVIOUS
    <3> QED BY <3>1 DEF Markers, Counts, HasEnd, Arguments
  <2>2. ASSUME NEW p \in Markers(n) PROVE \E i, q : p = <<i, q>>
    <3>1. PICK j \in 1 .. d : p \in {j} \X (1 .. Len(iters[j].pending))
      BY DEF Markers
    <3> QED BY <3>1
  <2> QED BY <2>1, <2>2
<1>3. ASSUME NEW n
      PROVE  /\ Markers(n) # {} <=> Some(iters, d, n)
             /\ (\A p, q \in Markers(n) : p = q) <=> AtMostOne(iters, d, n)
  <2>1. Markers(n) # {} <=> Some(iters, d, n)
    BY <1>2 DEF Some
  <2>2. ASSUME \A p, q \in Markers(n) : p = q PROVE AtMostOne(iters, d, n)
    <3> SUFFICES ASSUME NEW i, NEW j, NEW q, NEW r,
                        Counts(iters, d, i, q, n), Counts(iters, d, j, r, n)
                 PROVE  i = j /\ q = r
      BY DEF AtMostOne
    <3>1. <<i, q>> = <<j, r>>
      BY <1>2, <2>2
    <3> QED BY <3>1
  <2>3. ASSUME AtMostOne(iters, d, n) PROVE \A p, q \in Markers(n) : p = q
    BY <1>2, <2>3 DEF AtMostOne
  <2> QED BY <2>1, <2>2, <2>3
<1> QED BY <1>3 DEF Matching, MarkersMatch

-----------------------------------------------------------------------------
(* Four ways a step changes the iterators and the flags                    *)

\* The current iterator is replaced by i.
LEMMA SetIs ==
    ASSUME TypeInv, NEW i \in Iterators, Set(i)
    PROVE  /\ Len(iters) \in Nat \ {0} /\ Len(iters') = Len(iters)
           /\ iters' \in Seq(Iterators) /\ iters' # <<>>
           /\ Inner' = i /\ iters'[Len(iters)] = i
           /\ \A k \in 1 .. Len(iters) - 1 : iters'[k] = iters[k]
<1>1. iters \in Seq(Iterators) /\ iters # <<>>
  BY DEF TypeInv
<1>2. /\ Outer \in Seq(Iterators) /\ Len(Outer) = Len(iters) - 1
      /\ Len(iters) \in Nat \ {0}
      /\ \A k \in 1 .. Len(iters) - 1 : Outer[k] = iters[k]
  BY <1>1, FrontIs DEF Outer
<1>3. iters' = Append(Outer, i)
  BY DEF Set
<1>4. /\ Append(Outer, i) \in Seq(Iterators)
      /\ Len(Append(Outer, i)) = Len(Outer) + 1
      /\ Append(Outer, i)[Len(Outer) + 1] = i
      /\ \A k \in 1 .. Len(Outer) : Append(Outer, i)[k] = Outer[k]
  BY <1>2
<1>5. Len(iters') = Len(iters) /\ iters' \in Seq(Iterators) /\ iters'[Len(iters)] = i
  BY <1>2, <1>3, <1>4
<1>6. \A k \in 1 .. Len(iters) - 1 : iters'[k] = iters[k]
  BY <1>2, <1>3, <1>4
<1>7. iters' # <<>>
  BY <1>2, <1>5
<1>8. Inner' = i
  BY <1>5 DEF Inner
<1> QED BY <1>2, <1>5, <1>6, <1>7, <1>8

\* What was waiting below is as it was.
LEMMA BelowSet ==
    ASSUME IndInv, UNCHANGED <<macros, inIf>>, NEW i \in Iterators, Set(i), Sound(i)
    PROVE  /\ Suspended'
           /\ \A k \in 1 .. Len(iters') : Sound(iters[k])'
<1> DEFINE d == Len(iters)
<1>1. TypeInv /\ Suspended
  BY DEF IndInv
<1>2. /\ d \in Nat \ {0} /\ Len(iters') = d /\ iters'[d] = i
      /\ \A k \in 1 .. d - 1 : iters'[k] = iters[k]
  BY <1>1, SetIs
<1>3. Suspended'
  <2> SUFFICES ASSUME NEW e \in 1 .. d - 1
               PROVE  /\ iters'[e].phase = "replace"
                      /\ Some(iters', e, iters'[e].name.text)
                      /\ AtMostOne(iters', e, iters'[e].name.text)
    BY <1>2 DEF Suspended
  <2> DEFINE n == iters[e].name.text
  <2>1. iters'[e] = iters[e] /\ e \in Nat
    BY <1>2
  <2>2. \A k \in 1 .. e : iters'[k] = iters[k]
    BY <1>2
  <2>3. /\ Some(iters', e, n) <=> Some(iters, e, n)
        /\ AtMostOne(iters', e, n) <=> AtMostOne(iters, e, n)
    <3>1. \A k \in 1 .. e : \A q :
             HasEnd(iters'[k].pending, q, n) <=> HasEnd(iters[k].pending, q, n)
      BY <2>2
    <3>2. \A k \in 1 .. e - 1 : iters'[k].name.text = iters[k].name.text
      BY <2>1, <2>2
    <3> HIDE DEF n
    <3> QED BY <2>1, <3>1, <3>2, SameCounts
  <2> QED BY <1>1, <2>1, <2>3 DEF Suspended
<1>4. ASSUME NEW k \in 1 .. d PROVE Sound(iters[k])'
  <2>1. CASE k = d
    BY <1>2, <2>1 DEF Sound, Calling, Substituting
  <2>2. CASE k # d
    <3>1. Sound(iters[k]) /\ iters'[k] = iters[k]
      BY <1>2, <2>2 DEF IndInv
    <3> QED BY <3>1 DEF Sound, Calling, Substituting
  <2> QED BY <2>1, <2>2
<1> QED BY <1>2, <1>3, <1>4

\* No marker comes or goes.
LEMMA NoMarker ==
    ASSUME IndInv, UNCHANGED <<macros, inIf, replacing>>,
           NEW i \in Iterators, Set(i), Sound(i), Running(i, replacing),
           \A q, n : HasEnd(i.pending, q, n) <=> HasEnd(Inner.pending, q, n)
    PROVE  IndInv'
<1> DEFINE d == Len(iters)
<1>1. TypeInv /\ Matching
  BY DEF IndInv
<1>2. /\ d \in Nat \ {0} /\ Len(iters') = d /\ iters'[d] = i /\ Inner' = i
      /\ \A k \in 1 .. d - 1 : iters'[k] = iters[k]
      /\ iters' \in Seq(Iterators) /\ iters' # <<>>
  BY <1>1, SetIs
<1>3. TypeInv'
  BY <1>1, <1>2 DEF TypeInv
<1>4. \A n : /\ Some(iters', d, n) <=> Some(iters, d, n)
             /\ AtMostOne(iters', d, n) <=> AtMostOne(iters, d, n)
  <2> TAKE n
  <2>1. \A k \in 1 .. d : \A q :
           HasEnd(iters'[k].pending, q, n) <=> HasEnd(iters[k].pending, q, n)
    BY <1>2 DEF Inner
  <2>2. \A k \in 1 .. d - 1 : iters'[k].name.text = iters[k].name.text
    BY <1>2
  <2> QED BY <1>2, <2>1, <2>2, SameCounts
<1>5. Matching'
  BY <1>1, <1>2, <1>4 DEF Matching
<1>6. Running(Inner, replacing)'
  BY <1>2 DEF Running
<1>7. Suspended' /\ \A k \in 1 .. Len(iters') : Sound(iters[k])'
  BY BelowSet
<1> QED BY <1>3, <1>5, <1>6, <1>7 DEF IndInv

\* The marker of m is put on top, and its flag raised.
LEMMA MarkerPut ==
    ASSUME IndInv, UNCHANGED <<macros, inIf>>,
           NEW m \in DOMAIN macros, ~replacing[m],
           replacing' = [replacing EXCEPT ![m] = TRUE],
           NEW i \in Iterators, Set(i), Sound(i), i.phase = "replace", i.name.text = m,
           NEW top, PutAt(i.pending, Inner.pending, top, m)
    PROVE  IndInv'
<1> DEFINE d == Len(iters)
<1>0. \A q, n : HasEnd(i.pending, q, n)
                  <=> HasEnd(Inner.pending, q, n) \/ (q = top /\ n = m)
  BY DEF PutAt
<1>1. TypeInv /\ Matching
  BY DEF IndInv
<1>2. /\ d \in Nat \ {0} /\ Len(iters') = d /\ iters'[d] = i /\ Inner' = i
      /\ \A k \in 1 .. d - 1 : iters'[k] = iters[k]
      /\ iters' \in Seq(Iterators) /\ iters' # <<>>
  BY <1>1, SetIs
<1>3. TypeInv'
  BY <1>1, <1>2 DEF TypeInv
<1>4. \A n : n # m => /\ Some(iters', d, n) <=> Some(iters, d, n)
                      /\ AtMostOne(iters', d, n) <=> AtMostOne(iters, d, n)
  <2> SUFFICES ASSUME NEW n, n # m
               PROVE  /\ Some(iters', d, n) <=> Some(iters, d, n)
                      /\ AtMostOne(iters', d, n) <=> AtMostOne(iters, d, n)
    OBVIOUS
  <2>1. \A k \in 1 .. d : \A q :
           HasEnd(iters'[k].pending, q, n) <=> HasEnd(iters[k].pending, q, n)
    BY <1>0, <1>2 DEF Inner
  <2>2. \A k \in 1 .. d - 1 : iters'[k].name.text = iters[k].name.text
    BY <1>2
  <2> QED BY <1>2, <2>1, <2>2, SameCounts
<1>5. \A j, q : Counts(iters', d, j, q, m) <=> j = d /\ q = top
  <2>1. \A j, q : ~Counts(iters, d, j, q, m)
    BY <1>1 DEF Matching, Some
  <2>2. ASSUME NEW j, NEW q, Counts(iters', d, j, q, m) PROVE j = d /\ q = top
    <3>1. CASE j = d
      <4>1. HasEnd(i.pending, q, m)
        BY <1>2, <2>2, <3>1 DEF Counts
      <4>2. ~HasEnd(Inner.pending, q, m)
        <5>1. \A k \in d .. d - 1 : iters[k].name.text # m
          BY <1>2
        <5>2. ~Counts(iters, d, d, q, m) /\ d \in 1 .. d
          BY <1>2, <2>1
        <5> QED BY <5>1, <5>2 DEF Counts, Inner
      <4> QED BY <1>0, <3>1, <4>1, <4>2
    <3>2. CASE j # d
      <4>1. Counts(iters, d, j, q, m)
        BY <1>2, <2>2, <3>2 DEF Counts
      <4> QED BY <2>1, <4>1
    <3> QED BY <3>1, <3>2
  <2>3. Counts(iters', d, d, top, m)
    BY <1>0, <1>2 DEF Counts
  <2> QED BY <2>2, <2>3
<1>6. Some(iters', d, m) /\ AtMostOne(iters', d, m)
  <2> HIDE DEF d
  <2>1. Counts(iters', d, d, top, m)
    BY <1>5
  <2>2. Some(iters', d, m)
    BY <2>1 DEF Some
  <2>3. AtMostOne(iters', d, m)
    BY <1>5 DEF AtMostOne
  <2> QED BY <2>2, <2>3
<1>7. replacing'[m] = TRUE /\ \A n \in DOMAIN macros : n # m => replacing'[n] = replacing[n]
  BY <1>1 DEF TypeInv
<1>8. Matching'
  BY <1>1, <1>2, <1>4, <1>6, <1>7 DEF Matching
<1>9. Running(Inner, replacing)'
  BY <1>2, <1>7 DEF Running
<1>10. Suspended' /\ \A k \in 1 .. Len(iters') : Sound(iters[k])'
  BY BelowSet
<1> QED BY <1>3, <1>8, <1>9, <1>10 DEF IndInv

\* The marker on top, of m, is taken off, and its flag lowered.
LEMMA MarkerTaken ==
    ASSUME IndInv, UNCHANGED <<macros, inIf>>,
           NEW m, replacing' = [replacing EXCEPT ![m] = FALSE],
           NEW i \in Iterators, Set(i), Sound(i), i.phase = Inner.phase, i.name = Inner.name,
           Inner.phase # "replace",
           NEW top, HasEnd(Inner.pending, top, m),
           \A q, n : HasEnd(i.pending, q, n) <=> HasEnd(Inner.pending, q, n) /\ q # top
    PROVE  IndInv'
<1> DEFINE d == Len(iters)
<1>1. TypeInv /\ Matching /\ Running(Inner, replacing)
  BY DEF IndInv
<1>2. /\ d \in Nat \ {0} /\ Len(iters') = d /\ iters'[d] = i /\ Inner' = i
      /\ \A k \in 1 .. d - 1 : iters'[k] = iters[k]
      /\ iters' \in Seq(Iterators) /\ iters' # <<>>
  BY <1>1, SetIs
<1>3. TypeInv'
  BY <1>1, <1>2 DEF TypeInv
<1>4. \A n : n # m => /\ Some(iters', d, n) <=> Some(iters, d, n)
                      /\ AtMostOne(iters', d, n) <=> AtMostOne(iters, d, n)
  <2> SUFFICES ASSUME NEW n, n # m
               PROVE  /\ Some(iters', d, n) <=> Some(iters, d, n)
                      /\ AtMostOne(iters', d, n) <=> AtMostOne(iters, d, n)
    OBVIOUS
  <2>0. \A q : HasEnd(i.pending, q, n) <=> HasEnd(Inner.pending, q, n)
    <3>1. ~HasEnd(Inner.pending, top, n)
      BY DEF HasEnd
    <3> QED BY <3>1
  <2>1. \A k \in 1 .. d : \A q :
           HasEnd(iters'[k].pending, q, n) <=> HasEnd(iters[k].pending, q, n)
    BY <1>2, <2>0 DEF Inner
  <2>2. \A k \in 1 .. d - 1 : iters'[k].name.text = iters[k].name.text
    BY <1>2
  <2> QED BY <1>2, <2>1, <2>2, SameCounts
<1>5. Counts(iters, d, d, top, m)
  BY <1>2 DEF Counts, Inner
<1>6. ASSUME m \in DOMAIN macros, NEW j, NEW q PROVE ~Counts(iters', d, j, q, m)
  <2> SUFFICES ASSUME Counts(iters', d, j, q, m) PROVE FALSE
    OBVIOUS
  <2>1. j \in 1 .. d /\ HasEnd(iters'[j].pending, q, m)
        /\ \A k \in j .. d - 1 : iters[k].name.text # m
    <3>1. /\ j \in 1 .. d /\ HasEnd(iters'[j].pending, q, m)
          /\ \A k \in j .. d - 1 : iters'[k].name.text # m
      BY DEF Counts
    <3>2. \A k \in j .. d - 1 : iters'[k] = iters[k]
      BY <1>2, <3>1
    <3> QED BY <3>1, <3>2
  <2>2. HasEnd(iters[j].pending, q, m) /\ (j = d => q # top)
    BY <1>2, <2>1 DEF Inner
  <2>3. Counts(iters, d, j, q, m)
    BY <2>1, <2>2 DEF Counts
  <2>4. j = d /\ q = top
    <3>1. AtMostOne(iters, d, m)
      BY <1>1, <1>6 DEF Matching
    <3> HIDE DEF d
    <3> QED BY <1>5, <2>3, <3>1 DEF AtMostOne
  <2> QED BY <2>2, <2>4
<1>7. ASSUME m \in DOMAIN macros
      PROVE  ~Some(iters', d, m) /\ AtMostOne(iters', d, m)
  <2> HIDE DEF d
  <2>1. \A j, q : ~Counts(iters', d, j, q, m)
    BY <1>6, <1>7
  <2> QED BY <2>1 DEF Some, AtMostOne
<1>8. /\ m \in DOMAIN macros => replacing'[m] = FALSE
      /\ \A n \in DOMAIN macros : n # m => replacing'[n] = replacing[n]
  BY <1>1 DEF TypeInv
<1>9. Matching'
  BY <1>1, <1>2, <1>4, <1>7, <1>8 DEF Matching
<1>10. Running(Inner, replacing)'
  <2>1. ASSUME i.phase \in {"look", "collect"} PROVE ~replacing'[i.name.text]
    <3>1. ~replacing[i.name.text]
      BY <1>1, <2>1 DEF Running
    <3>2. i.name.text \in DOMAIN macros
      BY <2>1 DEF Sound, Calling
    <3> QED BY <1>8, <3>1, <3>2
  <2> QED BY <1>2, <2>1 DEF Running
<1>11. Suspended' /\ \A k \in 1 .. Len(iters') : Sound(iters[k])'
  BY BelowSet
<1> QED BY <1>3, <1>9, <1>10, <1>11 DEF IndInv

LEMMA TwoMore ==
    ASSUME NEW S, NEW s \in Seq(S), NEW a \in S, NEW b \in S, NEW t, t = s \o <<a, b>>
    PROVE  /\ t \in Seq(S) /\ Len(t) = Len(s) + 2
           /\ t[Len(s) + 1] = a /\ t[Len(s) + 2] = b
           /\ \A k \in 1 .. Len(s) : t[k] = s[k]
<1>1. <<a, b>> \in Seq(S) /\ Len(<<a, b>>) = 2 /\ Len(s) \in Nat
  OBVIOUS
<1>2. t \in Seq(S) /\ Len(t) = Len(s) + 2
  BY <1>1
<1>3. \A k \in 1 .. Len(s) : t[k] = s[k]
  BY <1>1
<1>4. t[Len(s) + 1] = a /\ t[Len(s) + 2] = b
  BY <1>1
<1> QED BY <1>2, <1>3, <1>4

\* A helper h is put on top; the flag of the macro below is lowered.
LEMMA HelperPut ==
    ASSUME IndInv, UNCHANGED <<macros, inIf>>, Inner.phase = "replace",
           replacing' = [replacing EXCEPT ![Inner.name.text] = FALSE],
           NEW i \in Iterators, NEW h \in Iterators, iters' = Outer \o <<i, h>>,
           Sound(i), i.phase = "replace", i.name = Inner.name,
           \A q, n : HasEnd(i.pending, q, n) <=> HasEnd(Inner.pending, q, n),
           Sound(h), h.phase = "scan", \A q, n : ~HasEnd(h.pending, q, n)
    PROVE  IndInv'
<1> DEFINE d == Len(iters)
           m == Inner.name.text
<1>1. TypeInv /\ Matching /\ Running(Inner, replacing) /\ Suspended
  BY DEF IndInv
<1>2. /\ Outer \in Seq(Iterators) /\ Len(Outer) = d - 1 /\ d \in Nat \ {0}
      /\ \A k \in 1 .. d - 1 : Outer[k] = iters[k]
  BY <1>1, FrontIs DEF Outer, TypeInv
<1>3. /\ iters' \in Seq(Iterators) /\ Len(iters') = d + 1
      /\ iters'[d] = i /\ iters'[d + 1] = h
      /\ \A k \in 1 .. d - 1 : iters'[k] = iters[k]
  <2>1. Len(Outer) + 1 = d /\ Len(Outer) + 2 = d + 1
    BY <1>2
  <2>2. /\ iters' \in Seq(Iterators) /\ Len(iters') = Len(Outer) + 2
        /\ iters'[Len(Outer) + 1] = i /\ iters'[Len(Outer) + 2] = h
        /\ \A k \in 1 .. Len(Outer) : iters'[k] = Outer[k]
    <3>1. \A t : t = Outer \o <<i, h>> =>
            /\ t \in Seq(Iterators) /\ Len(t) = Len(Outer) + 2
            /\ t[Len(Outer) + 1] = i /\ t[Len(Outer) + 2] = h
            /\ \A k \in 1 .. Len(Outer) : t[k] = Outer[k]
      <4>1. Outer \in Seq(Iterators)
        BY <1>2
      <4> HIDE DEF Outer
      <4> QED BY ONLY <4>1, TwoMore, i \in Iterators, h \in Iterators
    <3> QED BY <3>1, Zenon
  <2>3. \A k \in 1 .. d - 1 : iters'[k] = iters[k]
    BY <1>2, <2>2
  <2> HIDE DEF d
  <2> QED BY <2>1, <2>2, <2>3
<1>4. Inner' = h /\ iters' # <<>>
  BY <1>2, <1>3 DEF Inner
<1>5. m \in DOMAIN macros /\ replacing[m]
  <2>1. Sound(Inner)
    BY <1>2 DEF IndInv, Inner
  <2> QED BY <1>1, <2>1 DEF Sound, Substituting, Running
<1>6. /\ replacing'[m] = FALSE
      /\ \A n \in DOMAIN macros : n # m => replacing'[n] = replacing[n]
  BY <1>1, <1>5 DEF TypeInv
<1>7. TypeInv'
  BY <1>1, <1>3, <1>4 DEF TypeInv
<1>8. \A k \in 1 .. Len(iters') : Sound(iters[k])'
  <2> SUFFICES ASSUME NEW k \in 1 .. d + 1 PROVE Sound(iters[k])'
    BY <1>3
  <2>1. CASE k \in {d, d + 1}
    <3>1. CASE k = d
      BY <1>3, <3>1 DEF Sound, Calling, Substituting
    <3>2. CASE k = d + 1
      BY <1>3, <3>2 DEF Sound, Calling, Substituting
    <3> QED BY <2>1, <3>1, <3>2
  <2>2. CASE k \in 1 .. d - 1
    <3>1. Sound(iters[k]) /\ iters'[k] = iters[k]
      BY <1>2, <1>3, <2>2 DEF IndInv
    <3> QED BY <3>1 DEF Sound, Calling, Substituting
  <2> QED BY <1>2, <2>1, <2>2
<1>9. ASSUME NEW e \in 1 .. d, NEW n
      PROVE  /\ Some(iters', e, n) <=> Some(iters, e, n)
             /\ AtMostOne(iters', e, n) <=> AtMostOne(iters, e, n)
  <2>0. \A k \in 1 .. e : k = d \/ k \in 1 .. d - 1
    BY <1>2
  <2>1. \A k \in 1 .. e : \A q :
           HasEnd(iters'[k].pending, q, n) <=> HasEnd(iters[k].pending, q, n)
    BY <1>3, <2>0 DEF Inner
  <2>2. \A k \in 1 .. e - 1 : iters'[k].name.text = iters[k].name.text
    <3>1. \A k \in 1 .. e - 1 : k \in 1 .. d - 1
      BY <1>2
    <3> QED BY <1>3, <3>1
  <2>3. e \in Nat
    BY <1>2
  <2> HIDE DEF d
  <2> QED BY <2>1, <2>2, <2>3, SameCounts
<1>10. \A e \in 1 .. d : iters'[e].name = iters[e].name
  <2>1. iters'[d].name = iters[d].name
    BY <1>3 DEF Inner
  <2>2. \A e \in 1 .. d - 1 : iters'[e].name = iters[e].name
    BY <1>3
  <2>3. \A e \in 1 .. d : e = d \/ e \in 1 .. d - 1
    BY <1>2
  <2> HIDE DEF d
  <2> QED BY <2>1, <2>2, <2>3
<1>11. Suspended'
  <2> SUFFICES ASSUME NEW e \in 1 .. d
               PROVE  /\ iters'[e].phase = "replace"
                      /\ Some(iters, e, iters[e].name.text)
                      /\ AtMostOne(iters, e, iters[e].name.text)
    <3>1. Len(iters') - 1 = d
      BY <1>2, <1>3
    <3> HIDE DEF d
    <3> QED BY <1>9, <1>10, <3>1 DEF Suspended
  <2>1. CASE e = d
    BY <1>1, <1>3, <1>5, <2>1 DEF Matching, Inner
  <2>2. CASE e # d
    BY <1>1, <1>2, <1>3, <2>2 DEF Suspended
  <2> QED BY <2>1, <2>2
<1>12. \A j, q, n : Counts(iters', d + 1, j, q, n) <=> Counts(iters', d, j, q, n) /\ n # m
  <2> SUFFICES ASSUME NEW j, NEW q, NEW n
               PROVE  Counts(iters', d + 1, j, q, n) <=> Counts(iters', d, j, q, n) /\ n # m
    OBVIOUS
  <2>1. iters'[d].name.text = m
    BY <1>3
  <2>2. ASSUME Counts(iters', d + 1, j, q, n) PROVE Counts(iters', d, j, q, n) /\ n # m
    <3>1. j # d + 1
      BY <1>3, <2>2 DEF Counts
    <3>2. j \in 1 .. d /\ d \in j .. d
      BY <1>2, <2>2, <3>1 DEF Counts
    <3> QED BY <1>2, <2>1, <2>2, <3>2 DEF Counts
  <2>3. ASSUME Counts(iters', d, j, q, n), n # m PROVE Counts(iters', d + 1, j, q, n)
    BY <1>2, <2>1, <2>3 DEF Counts
  <2> QED BY <2>2, <2>3
<1>13. Matching'
  <2> SUFFICES ASSUME NEW n \in DOMAIN macros
               PROVE  /\ replacing'[n] <=> Some(iters', d + 1, n)
                      /\ AtMostOne(iters', d + 1, n)
    BY <1>3 DEF Matching
  <2>1. CASE n = m
    <3> HIDE DEF d, m
    <3>1. \A j, q : ~Counts(iters', d + 1, j, q, n)
      BY <1>12, <2>1
    <3> QED BY <1>6, <2>1, <3>1 DEF Some, AtMostOne
  <2>2. CASE n # m
    <3>1. /\ Some(iters', d + 1, n) <=> Some(iters', d, n)
          /\ AtMostOne(iters', d + 1, n) <=> AtMostOne(iters', d, n)
      <4> HIDE DEF d, m
      <4>1. \A j, q : Counts(iters', d + 1, j, q, n) <=> Counts(iters', d, j, q, n)
        BY <1>12, <2>2
      <4>2. Some(iters', d + 1, n) <=> Some(iters', d, n)
        BY <4>1, Zenon DEF Some
      <4>3. AtMostOne(iters', d + 1, n) <=> AtMostOne(iters', d, n)
        <5>1. ASSUME AtMostOne(iters', d, n) PROVE AtMostOne(iters', d + 1, n)
          BY <4>1, <5>1, SMTT(30) DEF AtMostOne
        <5>2. ASSUME AtMostOne(iters', d + 1, n) PROVE AtMostOne(iters', d, n)
          BY <4>1, <5>2, SMTT(30) DEF AtMostOne
        <5> QED BY <5>1, <5>2
      <4> QED BY <4>2, <4>3
    <3>2. /\ Some(iters', d, n) <=> Some(iters, d, n)
          /\ AtMostOne(iters', d, n) <=> AtMostOne(iters, d, n)
      <4>1. d \in 1 .. d
        BY <1>2
      <4> HIDE DEF d
      <4> QED BY <1>9, <4>1
    <3> QED BY <1>1, <1>6, <2>2, <3>1, <3>2 DEF Matching
  <2> QED BY <2>1, <2>2
<1>14. Running(Inner, replacing)'
  BY <1>4 DEF Running
<1> QED BY <1>7, <1>8, <1>11, <1>13, <1>14 DEF IndInv

\* The helper on top has no marker left and goes; the macro of the iterator
\* below, i from now on, has its flag raised.
LEMMA HelperTaken ==
    ASSUME IndInv, UNCHANGED <<macros, inIf>>, Len(iters) # 1,
           \A q, n : ~HasEnd(Inner.pending, q, n),
           NEW helped, helped = Outer[Len(Outer)],
           NEW i \in Iterators, iters' = Append(Below(Outer), i),
           Sound(i), i.phase = helped.phase, i.name = helped.name,
           \A q, n : HasEnd(i.pending, q, n) <=> HasEnd(helped.pending, q, n),
           replacing' = [replacing EXCEPT ![helped.name.text] = TRUE]
    PROVE  IndInv'
<1> DEFINE d == Len(iters)
           c == d - 1
           m == helped.name.text
<1>1. TypeInv /\ Matching /\ Suspended
  BY DEF IndInv
<1>2. /\ Outer \in Seq(Iterators) /\ Len(Outer) = c /\ d \in Nat \ {0}
      /\ \A k \in 1 .. d - 1 : Outer[k] = iters[k]
  BY <1>1, FrontIs DEF Outer, TypeInv
<1>3. c \in Nat \ {0} /\ d = c + 1 /\ helped = iters[c] /\ Inner = iters[d]
  BY <1>2 DEF Inner
<1>4. /\ iters' \in Seq(Iterators) /\ Len(iters') = c
      /\ iters'[c] = i /\ iters' # <<>>
      /\ \A k \in 1 .. c - 1 : iters'[k] = iters[k]
  <2>1. Outer # <<>>
    BY <1>2, <1>3
  <2>2. /\ Below(Outer) \in Seq(Iterators) /\ Len(Below(Outer)) = c - 1
        /\ \A k \in 1 .. c - 1 : Below(Outer)[k] = Outer[k]
    <3>1. \A s : s \in Seq(Iterators) /\ s # <<>> =>
            /\ Below(s) \in Seq(Iterators) /\ Len(Below(s)) = Len(s) - 1
            /\ \A k \in 1 .. Len(s) - 1 : Below(s)[k] = s[k]
      BY FrontIs DEF Below
    <3> QED BY <1>2, <2>1, <3>1
  <2>3. /\ Append(Below(Outer), i) \in Seq(Iterators)
        /\ Len(Append(Below(Outer), i)) = c
        /\ Append(Below(Outer), i)[c] = i
        /\ \A k \in 1 .. c - 1 : Append(Below(Outer), i)[k] = Below(Outer)[k]
    <3> HIDE DEF c
    <3> QED BY <1>3, <2>2
  <2>4. \A k \in 1 .. c - 1 : iters'[k] = iters[k]
    BY <1>2, <1>3, <2>2, <2>3
  <2>5. iters' # <<>>
    BY <1>3, <2>3
  <2> QED BY <2>3, <2>4, <2>5
<1>5. Inner' = i
  BY <1>4 DEF Inner
<1>6. iters[c].phase = "replace" /\ Some(iters, c, m) /\ AtMostOne(iters, c, m)
  BY <1>1, <1>3 DEF Suspended
<1>7. m \in DOMAIN macros
  <2>1. Sound(iters[c])
    BY <1>3 DEF IndInv
  <2> QED BY <1>3, <1>6, <2>1 DEF Sound, Substituting
<1>8. /\ replacing'[m] = TRUE
      /\ \A n \in DOMAIN macros : n # m => replacing'[n] = replacing[n]
  BY <1>1, <1>7 DEF TypeInv
<1>9. TypeInv'
  BY <1>1, <1>4, <1>8 DEF TypeInv
<1>10. \A k \in 1 .. Len(iters') : Sound(iters[k])'
  <2> SUFFICES ASSUME NEW k \in 1 .. c PROVE Sound(iters[k])'
    BY <1>4
  <2>1. CASE k = c
    BY <1>4, <2>1 DEF Sound, Calling, Substituting
  <2>2. CASE k # c
    <3>1. Sound(iters[k]) /\ iters'[k] = iters[k]
      BY <1>3, <1>4, <2>2 DEF IndInv
    <3> QED BY <3>1 DEF Sound, Calling, Substituting
  <2> QED BY <2>1, <2>2
<1>11. ASSUME NEW e \in 1 .. c, NEW n
       PROVE  /\ Some(iters', e, n) <=> Some(iters, e, n)
              /\ AtMostOne(iters', e, n) <=> AtMostOne(iters, e, n)
  <2>0. \A k \in 1 .. e : k = c \/ k \in 1 .. c - 1
    <3> HIDE DEF c, d
    <3> QED BY <1>3
  <2>1. \A k \in 1 .. e : \A q :
           HasEnd(iters'[k].pending, q, n) <=> HasEnd(iters[k].pending, q, n)
    BY <1>3, <1>4, <2>0
  <2>2. \A k \in 1 .. e - 1 : iters'[k].name.text = iters[k].name.text
    <3>1. \A k \in 1 .. e - 1 : k \in 1 .. c - 1
      BY <1>3
    <3> QED BY <1>4, <3>1
  <2>3. e \in Nat
    BY <1>3
  <2> HIDE DEF d, c
  <2> QED BY <2>1, <2>2, <2>3, SameCounts
<1>12. Suspended'
  <2> SUFFICES ASSUME NEW e \in 1 .. c - 1
               PROVE  /\ iters'[e].phase = "replace"
                      /\ Some(iters', e, iters'[e].name.text)
                      /\ AtMostOne(iters', e, iters'[e].name.text)
    BY <1>4 DEF Suspended
  <2>1. iters'[e] = iters[e] /\ e \in 1 .. c /\ e \in 1 .. d - 1
    BY <1>3, <1>4
  <2>2. /\ iters[e].phase = "replace"
        /\ Some(iters, e, iters[e].name.text)
        /\ AtMostOne(iters, e, iters[e].name.text)
    BY <1>1, <2>1 DEF Suspended
  <2> HIDE DEF c, d
  <2> QED BY <1>11, <2>1, <2>2
<1>13. \A j, q, n : Counts(iters, d, j, q, n) <=> Counts(iters, c, j, q, n) /\ n # m
  <2> SUFFICES ASSUME NEW j, NEW q, NEW n
               PROVE  Counts(iters, d, j, q, n) <=> Counts(iters, c, j, q, n) /\ n # m
    OBVIOUS
  <2>1. iters[c].name.text = m
    BY <1>3
  <2>2. ASSUME Counts(iters, d, j, q, n) PROVE Counts(iters, c, j, q, n) /\ n # m
    <3>1. j # d
      BY <1>3, <2>2 DEF Counts
    <3>2. j \in 1 .. c /\ c \in j .. c
      <4>1. j \in 1 .. d
        BY <2>2 DEF Counts
      <4> HIDE DEF c, d
      <4> QED BY <1>3, <3>1, <4>1
    <3> QED BY <1>3, <2>1, <2>2, <3>2 DEF Counts
  <2>3. ASSUME Counts(iters, c, j, q, n), n # m PROVE Counts(iters, d, j, q, n)
    <3>1. j \in 1 .. d /\ \A k \in j .. d - 1 : k = c \/ k \in j .. c - 1
      <4>1. j \in 1 .. c
        BY <2>3 DEF Counts
      <4> HIDE DEF c, d
      <4> QED BY <1>3, <4>1
    <3>2. /\ HasEnd(iters[j].pending, q, n)
          /\ \A k \in j .. c - 1 : iters[k].name.text # n
      BY <2>3 DEF Counts
    <3>3. \A k \in j .. d - 1 : iters[k].name.text # n
      BY <2>1, <2>3, <3>1, <3>2
    <3> HIDE DEF c, d
    <3> QED BY <3>1, <3>2, <3>3 DEF Counts
  <2> QED BY <2>2, <2>3
<1>14. Matching'
  <2> SUFFICES ASSUME NEW n \in DOMAIN macros
               PROVE  /\ replacing'[n] <=> Some(iters', c, n)
                      /\ AtMostOne(iters', c, n)
    BY <1>4 DEF Matching
  <2>1. /\ Some(iters', c, n) <=> Some(iters, c, n)
        /\ AtMostOne(iters', c, n) <=> AtMostOne(iters, c, n)
    <3>1. c \in 1 .. c
      BY <1>3
    <3> HIDE DEF c, d
    <3> QED BY <1>11, <3>1
  <2>2. CASE n = m
    BY <1>6, <1>8, <2>1, <2>2
  <2>3. CASE n # m
    <3>1. /\ Some(iters, d, n) <=> Some(iters, c, n)
          /\ AtMostOne(iters, d, n) <=> AtMostOne(iters, c, n)
      <4> HIDE DEF d, c, m
      <4>1. \A j, q : Counts(iters, d, j, q, n) <=> Counts(iters, c, j, q, n)
        BY <1>13, <2>3
      <4>2. Some(iters, d, n) <=> Some(iters, c, n)
        BY <4>1, Zenon DEF Some
      <4>3. ASSUME AtMostOne(iters, c, n) PROVE AtMostOne(iters, d, n)
        BY <4>1, <4>3 DEF AtMostOne
      <4>4. ASSUME AtMostOne(iters, d, n) PROVE AtMostOne(iters, c, n)
        BY <4>1, <4>4 DEF AtMostOne
      <4> QED BY <4>2, <4>3, <4>4
    <3> QED BY <1>1, <1>8, <2>1, <2>3, <3>1 DEF Matching
  <2> QED BY <2>2, <2>3
<1>15. Running(Inner, replacing)'
  BY <1>3, <1>5, <1>6, <1>8 DEF Running
<1> QED BY <1>9, <1>10, <1>12, <1>14, <1>15 DEF IndInv

-----------------------------------------------------------------------------
(* Reading                                                                 *)

LEMMA CurrentFacts ==
    ASSUME IndInv
    PROVE  /\ Inner \in Iterators /\ Sound(Inner) /\ Running(Inner, replacing)
           /\ macros \in [DOMAIN macros -> MacroDefs]
           /\ Len(iters) \in Nat \ {0}
<1>1. iters \in Seq(Iterators) /\ iters # <<>>
  BY DEF IndInv, TypeInv
<1>2. Len(iters) \in Nat \ {0} /\ Len(iters) \in 1 .. Len(iters)
  BY <1>1
<1>3. Inner \in Iterators
  BY <1>1, <1>2 DEF Inner
<1>4. Sound(Inner)
  BY <1>2 DEF IndInv, Inner
<1> QED BY <1>2, <1>3, <1>4 DEF IndInv, TypeInv

LEMMA PaintedFacts ==
    ASSUME NEW t \in Lexemes \cup {EOF}, replacing \in [DOMAIN macros -> BOOLEAN]
    PROVE  /\ Painted(t) \in Lexemes \cup {EOF}
           /\ Painted(t).kind = t.kind /\ Painted(t).text = t.text
           /\ IsMacro(Painted(t)) /\ ~Painted(t).final => ~replacing[t.text]
<1>1. CASE t \in Lexemes /\ IsMacro(t) /\ replacing[t.text]
  <2>1. Painted(t) = [t EXCEPT !.final = TRUE]
    BY <1>1 DEF Painted
  <2>2. /\ Painted(t) \in Lexemes
        /\ Painted(t).kind = t.kind /\ Painted(t).text = t.text /\ Painted(t).final = TRUE
    BY <1>1, <2>1, FinalType DEF Lexemes
  <2> QED BY <2>2
<1>2. CASE ~(IsMacro(t) /\ replacing[t.text])
  <2>1. Painted(t) = t
    BY <1>2 DEF Painted
  <2> QED BY <1>2, <2>1
<1>3. CASE t = EOF /\ IsMacro(t)
  BY <1>3 DEF IsMacro, EOF, Mark, Token
<1> QED BY <1>1, <1>2, <1>3

LEMMA PeekFacts ==
    ASSUME IndInv, NEW t \in Peek
    PROVE  /\ Inner.phase # "replace" /\ Inner.pending # <<>> /\ Next1 \in Pending
           /\ Next1.kind \notin {"end", "placemarker"}
           /\ t \in Lexemes \cup {EOF} /\ t.kind = Next1.kind /\ t.text \in Texts
           /\ t.kind = "eof" \/ t \in Lexemes
           /\ Replaceable(t) => /\ t \in Lexemes /\ t.kind = "ident"
                                /\ t.text \in DOMAIN macros /\ ~replacing[t.text]
<1>1. Reading /\ HasReal /\ t = Painted(Next1)
  BY DEF Peek
<1>2. Inner.pending \in Seq(Pending) /\ Bottom(Inner.pending)
  BY CurrentFacts DEF Iterators, Sound
<1>3. /\ Inner.phase # "replace" /\ Inner.pending # <<>>
      /\ Next1.kind \notin {"end", "placemarker"}
  BY <1>1 DEF Reading, HasReal, Fakes
<1>4. Next1 \in Pending
  BY <1>2, <1>3, BelowIs DEF Next1
<1>5. Next1 \in Lexemes \cup {EOF}
  BY <1>3, <1>4, PendingFacts
<1>6. replacing \in [DOMAIN macros -> BOOLEAN]
  BY DEF IndInv, TypeInv
<1>7. /\ t \in Lexemes \cup {EOF} /\ t.kind = Next1.kind /\ t.text = Next1.text
      /\ IsMacro(t) /\ ~t.final => ~replacing[t.text]
  BY <1>1, <1>5, <1>6, PaintedFacts
<1>8. t.kind = "eof" \/ t \in Lexemes
  BY <1>7 DEF EOF, Mark, Token
<1>9. Replaceable(t) => /\ t \in Lexemes /\ t.kind = "ident"
                        /\ t.text \in DOMAIN macros /\ ~replacing[t.text]
  BY <1>7, <1>8 DEF Replaceable, IsMacro
<1> QED BY <1>3, <1>4, <1>7, <1>8, <1>9, PendingFacts

\* The token on top goes.
LEMMA DroppedFacts ==
    ASSUME IndInv, NEW t \in Peek
    PROVE  /\ Below(Inner.pending) \in Seq(Pending) /\ Bottom(Below(Inner.pending))
           /\ \A q, n : HasEnd(Below(Inner.pending), q, n) <=> HasEnd(Inner.pending, q, n)
<1>1. Inner.pending \in Seq(Pending) /\ Bottom(Inner.pending)
  BY CurrentFacts DEF Iterators, Sound
<1>2. Inner.pending # <<>> /\ Next1.kind # "end"
  BY PeekFacts
<1>3. /\ Below(Inner.pending) \in Seq(Pending) /\ Bottom(Below(Inner.pending))
      /\ \A q, n : HasEnd(Below(Inner.pending), q, n)
                     <=> HasEnd(Inner.pending, q, n) /\ q # Len(Inner.pending)
  BY <1>1, <1>2, BelowIs
<1>4. \A n : ~HasEnd(Inner.pending, Len(Inner.pending), n)
  BY <1>2 DEF HasEnd, Next1
<1> QED BY <1>3, <1>4

\* ... and nothing is replaced or called.
LEMMA Taken ==
    ASSUME IndInv, NEW t \in Peek, UNCHANGED <<macros, inIf, replacing>>,
           NEW i \in Iterators, Set(i), i.pending = Below(Inner.pending),
           i.phase \in {"scan", "defined", "operand", "close"}
    PROVE  IndInv'
<1>1. Sound(i) /\ Running(i, replacing)
  BY DroppedFacts DEF Sound, Running
<1> QED BY <1>1, DroppedFacts, NoMarker

\* The token on top makes place for another.
LEMMA TopReplaced ==
    ASSUME NEW p \in Seq(Pending), p # <<>>, Bottom(p), NEW t \in Pending,
           t.kind # "end", p[Len(p)].kind # "end",
           t.kind = "eof" => p[Len(p)].kind = "eof"
    PROVE  /\ Below(p) \o <<t>> = Append(Below(p), t)
           /\ Append(Below(p), t) \in Seq(Pending) /\ Bottom(Append(Below(p), t))
           /\ Append(Below(p), t) # <<>>
           /\ \A q, n : HasEnd(Append(Below(p), t), q, n) <=> HasEnd(p, q, n)
<1>1. /\ Below(p) \in Seq(Pending) /\ Len(Below(p)) = Len(p) - 1
      /\ Len(p) \in Nat \ {0}
      /\ \A q \in 1 .. Len(p) - 1 : Below(p)[q] = p[q]
  BY BelowIs
<1> DEFINE b == Below(p)
           s == Append(b, t)
<1> HIDE DEF b
<1>2. /\ b \in Seq(Pending) /\ Len(b) = Len(p) - 1
      /\ \A q \in 1 .. Len(p) - 1 : b[q] = p[q]
  BY <1>1 DEF b
<1>3. b \o <<t>> = s
  BY <1>2
<1>4. /\ s \in Seq(Pending) /\ Len(s) = Len(p) /\ s[Len(p)] = t /\ s # <<>>
      /\ \A q \in 1 .. Len(p) - 1 : s[q] = p[q]
  BY <1>1, <1>2
<1> HIDE DEF s
<1>5. \A q \in 1 .. Len(p) : q = Len(p) \/ q \in 1 .. Len(p) - 1
  BY <1>1
<1>6. Bottom(s)
  BY <1>1, <1>4, <1>5 DEF Bottom
<1>7. \A q, n : HasEnd(s, q, n) <=> HasEnd(p, q, n)
  BY <1>4, <1>5 DEF HasEnd
<1> QED BY <1>3, <1>4, <1>6, <1>7 DEF b, s

\* Some field other than pending changes with it.
LEMMA FieldTypes ==
    ASSUME NEW i \in Iterators
    PROVE  /\ i.pending \in Seq(Pending) /\ i.phase \in Phases
           /\ i.name \in Lexemes \cup {EOF}
           /\ i.args \in Seq(Lexemes) \cup Seq(Seq(Lexemes))
           /\ i.nest \in Nat /\ i.at \in Nat
           /\ i.last \in Seq(Lexemes) /\ i.out \in Seq(Lexemes)
BY DEF Iterators

LEMMA ReadKeeps == ASSUME IndInv, AlphabetAssumption, Read PROVE IndInv'
<1>1. /\ Inner \in Iterators /\ Sound(Inner) /\ Running(Inner, replacing)
      /\ Inner.phase # "replace" /\ Inner.pending = <<>>
      /\ UNCHANGED <<macros, inIf, replacing>>
  BY CurrentFacts DEF Read, Reading, Quiet
<1>2. inIf \in BOOLEAN
  BY DEF IndInv, TypeInv
<1>3. PICK t \in Lexemes \cup {EOF} : Set(Pushing(Inner, <<t>>))
  BY <1>2 DEF Read, AlphabetAssumption
<1> DEFINE i == [Inner EXCEPT !.pending = <<t>>]
<1>4. Pushing(Inner, <<t>>) = i
  <2>1. <<>> \o <<t>> = <<t>>
    OBVIOUS
  <2> QED BY <1>1, <2>1 DEF Pushing
<1>5. t \in Pending /\ t.kind # "end"
  <2>1. EOF.kind = "eof"
    BY DEF EOF, Mark, Token
  <2> QED BY <2>1, PendingTypes, LexemeFacts
<1>6. <<t>> \in Seq(Pending) /\ Len(<<t>>) = 1 /\ <<t>>[1] = t
  BY <1>5
<1>7. i \in Iterators /\ i.pending = <<t>> /\ i.phase = Inner.phase
      /\ i.name = Inner.name /\ i.args = Inner.args
  BY <1>1, <1>6 DEF Iterators
<1>8. Sound(i)
  BY <1>1, <1>6, <1>7 DEF Sound, Calling, Bottom
<1>9. \A q, n : HasEnd(i.pending, q, n) <=> HasEnd(Inner.pending, q, n)
  BY <1>1, <1>5, <1>6, <1>7 DEF HasEnd
<1>10. Running(i, replacing)
  BY <1>1, <1>7 DEF Running
<1> HIDE DEF i
<1> QED BY <1>1, <1>3, <1>4, <1>7, <1>8, <1>9, <1>10, NoMarker

LEMMA DropFakeKeeps == ASSUME IndInv, DropFake PROVE IndInv'
<1>1. /\ Inner \in Iterators /\ Sound(Inner) /\ Running(Inner, replacing)
      /\ Inner.phase # "replace" /\ Inner.pending # <<>>
      /\ Set(Dropped) /\ replacing' = Ended /\ UNCHANGED <<macros, inIf>>
      /\ Next1.kind \in {"end", "placemarker"}
  BY CurrentFacts DEF DropFake, Reading, Fakes
<1> DEFINE p == Inner.pending
           i == Dropped
<1>2. p \in Seq(Pending) /\ Bottom(p)
  BY <1>1 DEF Sound, Iterators
<1>3. /\ Below(p) \in Seq(Pending) /\ Bottom(Below(p)) /\ Len(p) \in Nat \ {0}
      /\ \A q, n : HasEnd(Below(p), q, n) <=> HasEnd(p, q, n) /\ q # Len(p)
  BY <1>1, <1>2, BelowIs
<1>4. /\ i \in Iterators /\ i.pending = Below(p) /\ i.phase = Inner.phase
      /\ i.name = Inner.name /\ i.args = Inner.args
  BY <1>1, <1>3 DEF Dropped, Iterators
<1>5. Sound(i) /\ Running(i, replacing)
  BY <1>1, <1>3, <1>4 DEF Sound, Calling, Running
<1>6. CASE Next1.kind = "end"
  <2> DEFINE m == Next1.text
  <2>1. replacing' = [replacing EXCEPT ![m] = FALSE]
    BY <1>1, <1>6 DEF Ended
  <2>2. HasEnd(p, Len(p), m)
    BY <1>3, <1>6 DEF HasEnd, Next1
  <2>3. \A q, n : HasEnd(i.pending, q, n) <=> HasEnd(p, q, n) /\ q # Len(p)
    BY <1>3, <1>4
  <2> HIDE DEF i, m
  <2> QED BY <1>1, <1>4, <1>5, <2>1, <2>2, <2>3, MarkerTaken DEF i
<1>7. CASE Next1.kind # "end"
  <2>1. replacing' = replacing
    BY <1>1, <1>7 DEF Ended
  <2>2. \A n : ~HasEnd(p, Len(p), n)
    BY <1>7 DEF HasEnd, Next1
  <2>3. \A q, n : HasEnd(i.pending, q, n) <=> HasEnd(p, q, n)
    BY <1>3, <1>4, <2>2
  <2> HIDE DEF i
  <2> QED BY <1>1, <1>4, <1>5, <2>1, <2>3, NoMarker DEF i
<1> QED BY <1>6, <1>7

LEMMA DeliveredType ==
    ASSUME IndInv, NEW t \in Peek, NEW u \in Lexemes
    PROVE  /\ Delivering(u) \in Iterators
           /\ Delivering(u).pending = Below(Inner.pending)
           /\ Delivering(u).phase = "scan"
<1>1. Inner \in Iterators /\ Below(Inner.pending) \in Seq(Pending)
  BY CurrentFacts, DroppedFacts
<1>2. Append(Inner.out, u) \in Seq(Lexemes)
  BY <1>1, FieldTypes
<1> QED BY <1>1, <1>2 DEF Delivering, Dropped, Iterators, Phases

LEMMA PlainType ==
    ASSUME NEW t \in Lexemes
    PROVE  Plain(t) \in Lexemes
BY NumberType DEF Plain

LEMMA DeliverKeeps == ASSUME IndInv, Deliver PROVE IndInv'
<1>1. PICK t \in Peek : t.kind # "eof" /\ Set(Delivering(Plain(t)))
  BY DEF Deliver
<1>2. t \in Lexemes
  BY <1>1, PeekFacts
<1>3. UNCHANGED <<macros, inIf, replacing>>
  BY DEF Deliver, Quiet
<1> QED BY <1>1, <1>2, <1>3, PlainType, DeliveredType, Taken

LEMMA StartDefinedKeeps == ASSUME IndInv, StartDefined PROVE IndInv'
<1> DEFINE i == [Dropped EXCEPT !.phase = "defined"]
<1>1. PICK t \in Peek : Set(i)
  BY DEF StartDefined
<1>2. UNCHANGED <<macros, inIf, replacing>>
  BY DEF StartDefined, Quiet
<1>3. Inner \in Iterators /\ Below(Inner.pending) \in Seq(Pending)
  BY <1>1, CurrentFacts, DroppedFacts
<1>4. i \in Iterators /\ i.pending = Below(Inner.pending) /\ i.phase = "defined"
  BY <1>3 DEF Dropped, Iterators, Phases
<1> HIDE DEF i
<1> QED BY <1>1, <1>2, <1>4, Taken

\* The program stops with a diagnostic.
LEMMA DieKeeps == ASSUME IndInv, Die, UNCHANGED <<macros, inIf>> PROVE IndInv'
BY DEF IndInv, Die, TypeInv, Sound, Calling, Substituting, Running, Suspended, Matching,
       Inner, Some, AtMostOne, Counts, HasEnd

LEMMA OperandOfDefinedKeeps == ASSUME IndInv, OperandOfDefined PROVE IndInv'
<1>1. PICK t \in Peek :
        \/ Set([Dropped EXCEPT !.phase = "operand"]) /\ Quiet
        \/ Set(Delivering(IsDefined(t))) /\ Quiet
        \/ t.kind = "ident" /\ Set([Dropped EXCEPT !.phase = "close", !.name = t]) /\ Quiet
        \/ Set(Delivering(IsDefined(Inner.name))) /\ Quiet
        \/ Die
  BY Zenon DEF OperandOfDefined
<1>2. UNCHANGED <<macros, inIf>>
  BY DEF OperandOfDefined
<1>3. Inner \in Iterators /\ Below(Inner.pending) \in Seq(Pending)
  BY <1>1, CurrentFacts, DroppedFacts
<1>4. CASE Set([Dropped EXCEPT !.phase = "operand"]) /\ Quiet
  <2> DEFINE i == [Dropped EXCEPT !.phase = "operand"]
  <2>1. i \in Iterators /\ i.pending = Below(Inner.pending) /\ i.phase = "operand"
    BY <1>3 DEF Dropped, Iterators, Phases
  <2>2. UNCHANGED replacing
    BY <1>4 DEF Quiet
  <2> HIDE DEF i
  <2> QED BY <1>2, <1>4, <2>1, <2>2, Taken DEF i
<1>5. CASE t.kind = "ident" /\ Set([Dropped EXCEPT !.phase = "close", !.name = t]) /\ Quiet
  <2> DEFINE i == [Dropped EXCEPT !.phase = "close", !.name = t]
  <2>1. t \in Lexemes
    BY <1>5, PeekFacts
  <2>2. i \in Iterators /\ i.pending = Below(Inner.pending) /\ i.phase = "close"
    BY <1>3, <2>1 DEF Dropped, Iterators, Phases
  <2>3. UNCHANGED replacing
    BY <1>5 DEF Quiet
  <2> HIDE DEF i
  <2> QED BY <1>2, <1>5, <2>2, <2>3, Taken DEF i
<1>6. ASSUME NEW u, Set(Delivering(IsDefined(u))), Quiet PROVE IndInv'
  <2>1. IsDefined(u) \in Lexemes
    BY NumberType DEF IsDefined
  <2>2. UNCHANGED replacing
    BY <1>6 DEF Quiet
  <2> QED BY <1>2, <1>6, <2>1, <2>2, DeliveredType, Taken
<1>7. CASE Die
  BY <1>2, <1>7, DieKeeps
<1> QED BY <1>1, <1>4, <1>5, <1>6, <1>7

-----------------------------------------------------------------------------
(* Calls                                                                   *)

LEMMA TakeNameKeeps == ASSUME IndInv, TakeName PROVE IndInv'
<1>1. PICK t \in Peek : /\ Replaceable(t) /\ macros[t.text].function
                        /\ Set([Dropped EXCEPT !.phase = "look", !.name = t])
  BY DEF TakeName
<1> DEFINE i == [Dropped EXCEPT !.phase = "look", !.name = t]
<1>2. UNCHANGED <<macros, inIf, replacing>>
  BY DEF TakeName, Quiet
<1>3. Inner \in Iterators
  BY CurrentFacts
<1>4. t \in Lexemes /\ t.kind = "ident" /\ t.text \in DOMAIN macros /\ ~replacing[t.text]
  BY <1>1, PeekFacts
<1>5. /\ Below(Inner.pending) \in Seq(Pending) /\ Bottom(Below(Inner.pending))
      /\ \A q, n : HasEnd(Below(Inner.pending), q, n) <=> HasEnd(Inner.pending, q, n)
  BY DroppedFacts
<1>6. /\ i \in Iterators /\ i.pending = Below(Inner.pending) /\ i.phase = "look"
      /\ i.name = t
  BY <1>3, <1>4, <1>5 DEF Dropped, Iterators, Phases
<1>7. Sound(i) /\ Running(i, replacing)
  BY <1>1, <1>4, <1>5, <1>6 DEF Sound, Calling, Running
<1> HIDE DEF i
<1>8. Set(i)
  BY <1>1 DEF i
<1> QED BY <1>2, <1>5, <1>6, <1>7, <1>8, NoMarker

LEMMA NoCallKeeps == ASSUME IndInv, NoCall PROVE IndInv'
<1>1. PICK t \in Peek :
        Set([Pushing(Delivering(Plain(Inner.name)), <<t>>) EXCEPT !.name = EOF])
  BY DEF NoCall
<1> DEFINE u == Plain(Inner.name)
           p == Inner.pending
           i == [Pushing(Delivering(u), <<t>>) EXCEPT !.name = EOF]
<1>2. UNCHANGED <<macros, inIf, replacing>> /\ Inner.phase = "look"
  BY DEF NoCall, Quiet
<1>3. Inner \in Iterators /\ Calling(Inner) /\ p \in Seq(Pending) /\ Bottom(p)
  BY <1>2, CurrentFacts, FieldTypes DEF Sound
<1>4. Inner.name \in Lexemes
  <2>1. EOF.kind = "eof"
    BY DEF EOF, Mark, Token
  <2> QED BY <1>3, <2>1, FieldTypes DEF Calling
<1>5. u \in Lexemes
  BY <1>4, PlainType
<1>6. /\ p # <<>> /\ p[Len(p)].kind # "end" /\ t.kind = p[Len(p)].kind
      /\ t \in Pending
  BY PeekFacts, PendingTypes DEF Next1
<1>7. /\ Below(p) \o <<t>> \in Seq(Pending) /\ Bottom(Below(p) \o <<t>>)
      /\ \A q, n : HasEnd(Below(p) \o <<t>>, q, n) <=> HasEnd(p, q, n)
  <2> HIDE DEF p
  <2>1. /\ Below(p) \o <<t>> = Append(Below(p), t)
        /\ Append(Below(p), t) \in Seq(Pending) /\ Bottom(Append(Below(p), t))
        /\ \A q, n : HasEnd(Append(Below(p), t), q, n) <=> HasEnd(p, q, n)
    BY <1>3, <1>6, TopReplaced
  <2> QED BY <2>1
<1>8. /\ Delivering(u) \in Iterators /\ Delivering(u).pending = Below(p)
      /\ Delivering(u).phase = "scan"
  BY <1>5, DeliveredType
<1>9. i \in Iterators /\ i.pending = Below(p) \o <<t>> /\ i.phase = "scan"
  <2> HIDE DEF p, u
  <2>1. Pushing(Delivering(u), <<t>>) \in Iterators
    BY <1>7, <1>8 DEF Pushing, Iterators
  <2> QED BY <1>7, <1>8, <2>1 DEF Pushing, Iterators
<1>10. Sound(i) /\ Running(i, replacing)
  BY <1>7, <1>9 DEF Sound, Running
<1>11. Set(i) /\ \A q, n : HasEnd(i.pending, q, n) <=> HasEnd(Inner.pending, q, n)
  BY <1>1, <1>7, <1>9
<1> HIDE DEF i
<1> QED BY <1>2, <1>9, <1>10, <1>11, NoMarker

LEMMA StartCallKeeps == ASSUME IndInv, StartCall PROVE IndInv'
<1> DEFINE i == [Dropped EXCEPT !.phase = "collect", !.nest = 1, !.args = <<>>]
<1>1. PICK t \in Peek : Set(i)
  BY DEF StartCall
<1>2. UNCHANGED <<macros, inIf, replacing>> /\ Inner.phase = "look"
  BY DEF StartCall, Quiet
<1>3. Inner \in Iterators /\ Calling(Inner) /\ ~replacing[Inner.name.text]
  BY <1>2, CurrentFacts DEF Sound, Running
<1>4. /\ Below(Inner.pending) \in Seq(Pending) /\ Bottom(Below(Inner.pending))
      /\ \A q, n : HasEnd(Below(Inner.pending), q, n) <=> HasEnd(Inner.pending, q, n)
  BY <1>1, DroppedFacts
<1>5. <<>> \in Seq(Lexemes)
  OBVIOUS
<1>6. /\ i \in Iterators /\ i.pending = Below(Inner.pending) /\ i.phase = "collect"
      /\ i.name = Inner.name /\ i.args = <<>>
  BY <1>3, <1>4, <1>5 DEF Dropped, Iterators, Phases
<1>7. Sound(i) /\ Running(i, replacing)
  BY <1>3, <1>4, <1>5, <1>6 DEF Sound, Calling, Running
<1> HIDE DEF i
<1> QED BY <1>1, <1>2, <1>4, <1>6, <1>7, NoMarker

LEMMA CollectKeeps == ASSUME IndInv, Collect PROVE IndInv'
<1>1. PICK t \in Peek :
        /\ t.kind # "eof" /\ (t.kind = ")" => Inner.nest > 1)
        /\ Set([Dropped EXCEPT
                    !.args = Append(@, t),
                    !.nest = CASE t.kind = "(" -> @ + 1 [] t.kind = ")" -> @ - 1
                               [] OTHER -> @])
  BY DEF Collect
<1> DEFINE nest == CASE t.kind = "(" -> Inner.nest + 1 [] t.kind = ")" -> Inner.nest - 1
                     [] OTHER -> Inner.nest
           args == Append(Inner.args, t)
           i == [Dropped EXCEPT !.args = args, !.nest = nest]
<1>2. UNCHANGED <<macros, inIf, replacing>> /\ Inner.phase = "collect"
  BY DEF Collect, Quiet
<1>3. Inner \in Iterators /\ Calling(Inner) /\ ~replacing[Inner.name.text]
  BY <1>2, CurrentFacts DEF Sound, Running
<1>4. /\ Below(Inner.pending) \in Seq(Pending) /\ Bottom(Below(Inner.pending))
      /\ \A q, n : HasEnd(Below(Inner.pending), q, n) <=> HasEnd(Inner.pending, q, n)
  BY DroppedFacts
<1>5. args \in Seq(Lexemes)
  <2>1. t \in Lexemes /\ Inner.args \in Seq(Lexemes)
    BY <1>1, <1>2, <1>3, PeekFacts DEF Calling
  <2> QED BY <2>1
<1>6. nest \in Nat
  <2>1. Inner.nest \in Nat
    BY <1>3, FieldTypes
  <2> QED BY <1>1, <2>1
<1> HIDE DEF nest, args
<1>7. /\ i \in Iterators /\ i.pending = Below(Inner.pending) /\ i.phase = "collect"
      /\ i.name = Inner.name /\ i.args = args
  BY <1>2, <1>3, <1>4, <1>5, <1>6 DEF Dropped, Iterators
<1>8. Sound(i) /\ Running(i, replacing)
  BY <1>3, <1>4, <1>5, <1>7 DEF Sound, Calling, Running
<1>9. Set(i)
  <2>1. Dropped.args = Inner.args /\ Dropped.nest = Inner.nest
    BY <1>3 DEF Dropped, Iterators
  <2> QED BY <1>1, <2>1 DEF nest, args
<1> HIDE DEF i
<1> QED BY <1>2, <1>4, <1>7, <1>8, <1>9, NoMarker

\* The marker of m is put on top of what is pending.
LEMMA MarkerOnTop ==
    ASSUME NEW p \in Seq(Pending), Bottom(p), NEW m \in Texts
    PROVE  /\ p \o <<EndOf(m)>> \in Seq(Pending) /\ Bottom(p \o <<EndOf(m)>>)
           /\ p \o <<EndOf(m)>> # <<>>
           /\ PutAt(p \o <<EndOf(m)>>, p, Len(p) + 1, m)
<1> DEFINE t == EndOf(m)
           s == p \o <<t>>
<1>1. t \in Pending /\ t.kind = "end" /\ t.text = m
  BY PendingTypes DEF EndOf, Token
<1> HIDE DEF t
<1>2. /\ s \in Seq(Pending) /\ Len(s) = Len(p) + 1 /\ Len(p) \in Nat
      /\ s[Len(p) + 1] = t /\ s # <<>>
      /\ \A q \in 1 .. Len(p) : s[q] = p[q]
  BY <1>1
<1> HIDE DEF s
<1>3. \A q \in 1 .. Len(s) : q = Len(p) + 1 \/ q \in 1 .. Len(p)
  BY <1>2
<1>4. Bottom(s)
  BY <1>1, <1>2, <1>3 DEF Bottom
<1>5. \A q, n : HasEnd(s, q, n) <=> HasEnd(p, q, n) \/ (q = Len(p) + 1 /\ n = m)
  BY <1>1, <1>2, <1>3 DEF HasEnd
<1> QED BY <1>2, <1>4, <1>5 DEF s, t, PutAt

Raised(m) == replacing' = [replacing EXCEPT ![m] = TRUE]

\* A macro is replaced: i is the iterator with the marker.
LEMMA Replaced ==
    ASSUME IndInv, NEW t \in Peek, UNCHANGED <<macros, inIf>>,
           NEW m, m \in DOMAIN macros, m \in Texts, ~replacing[m],
           Raised(m),
           NEW i \in Iterators, Set(i), i.phase = "replace", i.name.text = m,
           i.pending = Below(Inner.pending) \o <<EndOf(m)>>,
           i.at <= Len(macros[m].body),
           macros[m].function => i.args \in [1 .. Arity(macros[m]) -> Seq(Lexemes)]
    PROVE  IndInv'
<1> DEFINE b == Below(Inner.pending)
<1>1. /\ b \in Seq(Pending) /\ Bottom(b)
      /\ \A q, n : HasEnd(b, q, n) <=> HasEnd(Inner.pending, q, n)
  BY DroppedFacts
<1>2. /\ Bottom(i.pending) /\ i.pending # <<>>
      /\ PutAt(i.pending, b, Len(b) + 1, m)
  <2> HIDE DEF b
  <2>1. i.pending = b \o <<EndOf(m)>>
    BY DEF b
  <2>2. /\ Bottom(b \o <<EndOf(m)>>) /\ b \o <<EndOf(m)>> # <<>>
        /\ PutAt(b \o <<EndOf(m)>>, b, Len(b) + 1, m)
    BY <1>1, MarkerOnTop
  <2> QED BY <2>1, <2>2
<1>3. Sound(i)
  BY <1>2 DEF Sound, Substituting
<1>4. PutAt(i.pending, Inner.pending, Len(b) + 1, m)
  BY <1>1, <1>2 DEF PutAt
<1>5. replacing' = [replacing EXCEPT ![m] = TRUE]
  BY DEF Raised
<1> HIDE DEF b
<1> QED BY <1>3, <1>4, <1>5, MarkerPut

LEMMA MacroFacts ==
    ASSUME IndInv, NEW m \in DOMAIN macros
    PROVE  /\ macros[m] \in MacroDefs /\ macros[m].body \in Seq(Lexemes)
           /\ Len(macros[m].body) \in Nat
           /\ Arity(macros[m]) \in Nat
<1>1. macros[m] \in MacroDefs
  BY CurrentFacts
<1>2. /\ macros[m].body \in Seq(Lexemes) /\ Len(macros[m].params) \in Nat
      /\ macros[m].va \in BOOLEAN
  BY <1>1 DEF MacroDefs
<1>3. Arity(macros[m]) \in Nat
  <2>1. CASE macros[m].va
    BY <1>2, <2>1 DEF Arity
  <2>2. CASE ~macros[m].va
    BY <1>2, <2>2 DEF Arity
  <2> QED BY <2>1, <2>2
<1> QED BY <1>1, <1>2, <1>3

LEMMA EndCallKeeps == ASSUME IndInv, EndCall PROVE IndInv'
<1> DEFINE m == Inner.name.text
           args == SplitArgs(macros[m], Inner.args)
           at == Len(macros[m].body)
           i == [Pushing(Dropped, <<EndOf(m)>>) EXCEPT
                   !.phase = "replace", !.nest = 0, !.args = args, !.at = at]
<1>1. /\ Inner.phase = "collect" /\ Mark(")") \in Peek
      /\ replacing' = [replacing EXCEPT ![m] = TRUE]
      /\ UNCHANGED <<macros, inIf>>
      /\ Set([Pushing(Dropped, <<EndOf(m)>>) EXCEPT
                !.phase = "replace", !.nest = 0,
                !.args = SplitArgs(macros[m], @), !.at = Len(macros[m].body)])
  BY DEF EndCall
<1>2. /\ Inner \in Iterators /\ Calling(Inner) /\ ~replacing[m]
      /\ Inner.args \in Seq(Lexemes) /\ m \in DOMAIN macros /\ macros[m].function
  BY <1>1, CurrentFacts DEF Sound, Running, Calling
<1>3. m \in Texts
  <2>1. EOF.text = <<>>
    BY DEF EOF, Mark, Token
  <2> QED BY <1>2, <2>1, FieldTypes, LexemeFacts, TextFacts
<1>4. macros[m] \in MacroDefs /\ at \in Nat /\ Arity(macros[m]) \in Nat
  BY <1>2, MacroFacts
<1>5. args \in [1 .. Arity(macros[m]) -> Seq(Lexemes)]
  BY <1>2, <1>4, SplitType
<1>6. args \in Seq(Seq(Lexemes))
  BY <1>4, <1>5
<1>7. Below(Inner.pending) \o <<EndOf(m)>> \in Seq(Pending)
  BY <1>1, <1>3, DroppedFacts, MarkerOnTop
<1>8. /\ Dropped \in Iterators /\ Dropped.pending = Below(Inner.pending)
      /\ Dropped.name = Inner.name /\ Dropped.args = Inner.args
  BY <1>1, <1>2, DroppedFacts DEF Dropped, Iterators
<1>9. LET j == Pushing(Dropped, <<EndOf(m)>>)
      IN  /\ j \in Iterators /\ j.pending = Below(Inner.pending) \o <<EndOf(m)>>
          /\ j.name = Inner.name /\ j.args = Inner.args
  BY <1>7, <1>8 DEF Pushing, Iterators
<1>10. Set(i)
  BY <1>1, <1>9
<1>11. /\ i \in Iterators /\ i.pending = Below(Inner.pending) \o <<EndOf(m)>>
       /\ i.phase = "replace" /\ i.name = Inner.name /\ i.args = args /\ i.at = at
  <2> HIDE DEF args, at
  <2> QED BY <1>4, <1>6, <1>9 DEF Iterators, Phases
<1>12. Raised(m)
  BY <1>1 DEF Raised
<1>13. /\ i.name.text = m /\ i.at <= Len(macros[m].body)
       /\ i.args \in [1 .. Arity(macros[m]) -> Seq(Lexemes)]
  BY <1>4, <1>5, <1>11
<1> HIDE DEF i, m, args, at
<1> QED BY <1>1, <1>2, <1>3, <1>10, <1>11, <1>12, <1>13, Replaced

LEMMA ObjectMacroKeeps == ASSUME IndInv, ObjectMacro PROVE IndInv'
<1>1. PICK t \in Peek :
        /\ Replaceable(t) /\ ~macros[t.text].function
        /\ Set([Pushing(Dropped, <<EndOf(t.text)>>) EXCEPT
                    !.phase = "replace", !.name = t, !.args = <<>>,
                    !.at = Len(macros[t.text].body)])
        /\ replacing' = [replacing EXCEPT ![t.text] = TRUE]
  BY DEF ObjectMacro
<1> DEFINE m == t.text
           at == Len(macros[m].body)
           i == [Pushing(Dropped, <<EndOf(m)>>) EXCEPT
                   !.phase = "replace", !.name = t, !.args = <<>>, !.at = at]
<1>2. UNCHANGED <<macros, inIf>> /\ Inner \in Iterators
  BY CurrentFacts DEF ObjectMacro
<1>3. t \in Lexemes /\ m \in DOMAIN macros /\ ~replacing[m] /\ m \in Texts
  BY <1>1, PeekFacts
<1>4. macros[m] \in MacroDefs /\ at \in Nat /\ <<>> \in Seq(Lexemes)
  BY <1>3, MacroFacts
<1>5. Below(Inner.pending) \o <<EndOf(m)>> \in Seq(Pending)
  BY <1>3, DroppedFacts, MarkerOnTop
<1>6. /\ Dropped \in Iterators /\ Dropped.pending = Below(Inner.pending)
  BY <1>2, DroppedFacts DEF Dropped, Iterators
<1>7. LET j == Pushing(Dropped, <<EndOf(m)>>)
      IN  j \in Iterators /\ j.pending = Below(Inner.pending) \o <<EndOf(m)>>
  BY <1>5, <1>6 DEF Pushing, Iterators
<1>8. /\ i \in Iterators /\ i.pending = Below(Inner.pending) \o <<EndOf(m)>>
      /\ i.phase = "replace" /\ i.name = t /\ i.at = at
  <2> HIDE DEF at
  <2> QED BY <1>3, <1>4, <1>7 DEF Iterators, Phases
<1>9. Set(i) /\ Raised(m) /\ ~macros[m].function
  BY <1>1 DEF Raised
<1> HIDE DEF i
<1> QED BY <1>2, <1>3, <1>4, <1>8, <1>9, Replaced

LEMMA FinishKeeps == ASSUME IndInv, Finish PROVE IndInv'
<1> DEFINE helped == Outer[Len(Outer)]
           ts == Reversed(Inner.out) \o helped.last
           i == [Pushing(helped, ts) EXCEPT !.last = <<>>]
<1>1. UNCHANGED <<macros, inIf>> /\ EOF \in Peek
  BY DEF Finish
<1>2. CASE Len(iters) = 1
  <2>1. UNCHANGED <<iters, replacing>>
    BY <1>2 DEF Finish
  <2> QED BY <1>1, <2>1 DEF IndInv, TypeInv, Sound, Calling, Substituting, Running,
                            Suspended, Matching, Inner, Some, AtMostOne, Counts, HasEnd
<1>3. CASE Len(iters) # 1
  <2>1. /\ iters' = Append(Below(Outer), i)
        /\ replacing' = [replacing EXCEPT ![helped.name.text] = TRUE]
    BY <1>3 DEF Finish
  <2>2. \A q, n : ~HasEnd(Inner.pending, q, n)
    <3>1. Next1.kind = "eof" /\ Inner.pending # <<>>
      BY <1>1, PeekFacts DEF EOF, Mark, Token
    <3>2. Inner.pending \in Seq(Pending) /\ Bottom(Inner.pending)
      BY CurrentFacts, FieldTypes DEF Sound
    <3>3. Len(Inner.pending) = 1
      <4>1. Len(Inner.pending) \in Nat \ {0}
        BY <3>1, <3>2
      <4>2. Len(Inner.pending) \notin 2 .. Len(Inner.pending)
        BY <3>1, <3>2 DEF Bottom, Next1
      <4>3. \A n \in Nat \ {0} : n \notin 2 .. n => n = 1
        OBVIOUS
      <4> QED BY <4>1, <4>2, <4>3
    <3> QED BY <3>1, <3>3 DEF HasEnd, Next1
  <2>3. /\ Len(iters) \in Nat \ {0, 1} /\ helped = iters[Len(iters) - 1]
    <3>1. iters \in Seq(Iterators) /\ iters # <<>>
      BY DEF IndInv, TypeInv
    <3>2. /\ Len(Outer) = Len(iters) - 1 /\ Len(iters) \in Nat \ {0}
          /\ \A k \in 1 .. Len(iters) - 1 : Outer[k] = iters[k]
      BY <3>1, FrontIs DEF Outer
    <3> QED BY <1>3, <3>2
  <2>4. /\ helped \in Iterators /\ Sound(helped) /\ helped.phase = "replace"
    <3>1. iters \in Seq(Iterators)
      BY DEF IndInv, TypeInv
    <3>2. Len(iters) - 1 \in 1 .. Len(iters) /\ Len(iters) - 1 \in 1 .. Len(iters) - 1
      <4>1. \A n \in Nat \ {0, 1} : n - 1 \in 1 .. n /\ n - 1 \in 1 .. n - 1
        OBVIOUS
      <4> QED BY <2>3, <4>1
    <3> QED BY <2>3, <3>1, <3>2 DEF IndInv, Suspended
  <2>5. /\ Inner.out \in Seq(Lexemes) /\ helped.last \in Seq(Lexemes)
        /\ helped.pending \in Seq(Pending) /\ Bottom(helped.pending)
    BY <2>4, CurrentFacts, FieldTypes DEF Sound
  <2>6. ts \in Seq(Lexemes)
    <3>1. Reversed(Inner.out) \in Seq(Lexemes)
      BY <2>5, ReversedType
    <3> QED BY <2>5, <3>1
  <2> HIDE DEF helped, ts
  <2>7. ts \in Seq(Pending) /\ \A k \in 1 .. Len(ts) : ts[k].kind \notin {"eof", "end"}
    BY <2>6, PendingTypes, LexemeFacts
  <2>8. /\ helped.pending \o ts \in Seq(Pending) /\ Bottom(helped.pending \o ts)
        /\ helped.pending # <<>> => helped.pending \o ts # <<>>
        /\ \A q, n : HasEnd(helped.pending \o ts, q, n) <=> HasEnd(helped.pending, q, n)
    BY <2>5, <2>7, Pushed
  <2>14. <<>> \in Seq(Lexemes)
    OBVIOUS
  <2>9. Pushing(helped, ts) \in Iterators
    BY <2>4, <2>8 DEF Pushing, Iterators
  <2>10. /\ i \in Iterators /\ i.pending = helped.pending \o ts /\ i.phase = helped.phase
         /\ i.name = helped.name /\ i.args = helped.args /\ i.at = helped.at
    BY <2>4, <2>8, <2>9, <2>14 DEF Pushing, Iterators
  <2>11. Sound(i)
    BY <2>4, <2>8, <2>10 DEF Sound, Substituting
  <2>12. \A q, n : HasEnd(i.pending, q, n) <=> HasEnd(helped.pending, q, n)
    BY <2>8, <2>10
  <2>13. helped = Outer[Len(Outer)]
    BY DEF helped
  <2> HIDE DEF i
  <2> QED BY <1>1, <1>3, <2>1, <2>2, <2>10, <2>11, <2>12, <2>13, HelperTaken
<1> QED BY <1>2, <1>3

-----------------------------------------------------------------------------
(* The replacement list                                                    *)

\* i goes on with the replacement, and no marker comes or goes.
Continues(i) ==
    /\ i \in Iterators /\ i.phase = "replace" /\ i.name = Inner.name
    /\ i.args = Inner.args /\ i.at <= Inner.at
    /\ Bottom(i.pending) /\ i.pending # <<>>
    /\ \A q, n : HasEnd(i.pending, q, n) <=> HasEnd(Inner.pending, q, n)

LEMMA ReplacingFacts ==
    ASSUME IndInv, Replacing
    PROVE  /\ Inner \in Iterators /\ Inner.phase = "replace" /\ Substituting(Inner)
           /\ Inner.pending \in Seq(Pending) /\ Bottom(Inner.pending)
           /\ Continues(Inner)
           /\ Body \in Seq(Lexemes) /\ At \in 0 .. Len(Body) /\ Len(Body) \in Nat
           /\ \A k \in 1 .. Len(Body) :
                /\ Body[k] \in Lexemes
                /\ Par(k) # 0 => Arg(k) \in Seq(Lexemes)
<1>1. Inner \in Iterators /\ Inner.phase = "replace" /\ Sound(Inner)
  BY CurrentFacts DEF Replacing
<1>2. /\ Substituting(Inner) /\ Bottom(Inner.pending) /\ Inner.pending # <<>>
      /\ Inner.name.text \in DOMAIN macros /\ Inner.at <= Len(Body)
      /\ Macro.function => Inner.args \in [1 .. Arity(Macro) -> Seq(Lexemes)]
  BY <1>1 DEF Sound, Substituting, Body, Macro
<1>3. Inner.at \in Nat /\ Inner.pending \in Seq(Pending)
  BY <1>1, FieldTypes
<1>4. Macro \in MacroDefs /\ Body \in Seq(Lexemes) /\ Len(Body) \in Nat /\ Arity(Macro) \in Nat
  BY <1>2, MacroFacts DEF Macro, Body
<1>5. At \in 0 .. Len(Body)
  BY <1>2, <1>3, <1>4 DEF At
<1>6. ASSUME NEW k \in 1 .. Len(Body), Par(k) # 0 PROVE Arg(k) \in Seq(Lexemes)
  <2>1. Macro.function /\ Par(k) = ParIndex(Macro, Body[k])
    BY <1>6 DEF Par
  <2>2. Par(k) \in 1 .. Arity(Macro)
    BY <1>4, <1>6, <2>1, ParType
  <2> QED BY <1>2, <2>1, <2>2 DEF Arg
<1>7. Continues(Inner)
  BY <1>1, <1>2, <1>3 DEF Continues
<1> QED BY <1>1, <1>2, <1>3, <1>4, <1>5, <1>6, <1>7

LEMMA ContinuesSound ==
    ASSUME IndInv, Replacing, NEW i, Continues(i)
    PROVE  Sound(i) /\ Running(i, replacing)
<1>1. /\ Substituting(Inner) /\ replacing[Inner.name.text]
      /\ Inner.at \in Nat /\ Inner.name.text \in DOMAIN macros
      /\ Len(macros[Inner.name.text].body) \in Nat
  <2>1. Inner.phase = "replace" /\ Inner \in Iterators /\ Substituting(Inner)
    BY ReplacingFacts
  <2>2. Inner.name.text \in DOMAIN macros
    BY <2>1 DEF Substituting
  <2> QED BY <2>1, <2>2, CurrentFacts, FieldTypes, MacroFacts DEF Running
<1>2. /\ i.phase = "replace" /\ i.name = Inner.name /\ i.args = Inner.args
      /\ i.at <= Inner.at /\ Bottom(i.pending) /\ i.pending # <<>> /\ i.at \in Nat
  BY FieldTypes DEF Continues
<1>3. Substituting(i)
  BY <1>1, <1>2 DEF Substituting
<1> QED BY <1>1, <1>2, <1>3 DEF Sound, Running

LEMMA SetContinues ==
    ASSUME IndInv, Replacing, NEW i, Continues(i), Set(i), Quiet, UNCHANGED <<macros, inIf>>
    PROVE  IndInv'
<1>1. /\ i \in Iterators
      /\ \A q, n : HasEnd(i.pending, q, n) <=> HasEnd(Inner.pending, q, n)
  BY DEF Continues
<1>2. UNCHANGED replacing
  BY DEF Quiet
<1> QED BY <1>1, <1>2, ContinuesSound, NoMarker

\* k tokens of the replacement list are done with.
LEMMA DoneContinues ==
    ASSUME IndInv, Replacing, NEW k \in 1 .. 2, k <= At
    PROVE  Continues(Done(k)) /\ Done(k).pending = Inner.pending
<1>1. Inner \in Iterators /\ Continues(Inner) /\ Inner.at \in Nat
  BY ReplacingFacts, FieldTypes
<1>2. Inner.at - k \in Nat /\ Inner.at - k <= Inner.at
  BY <1>1 DEF At
<1> DEFINE i == Done(k)
<1>3. /\ i \in Iterators /\ i.pending = Inner.pending /\ i.phase = Inner.phase
      /\ i.name = Inner.name /\ i.args = Inner.args /\ i.at = Inner.at - k
  BY <1>1, <1>2 DEF Done, Iterators
<1> HIDE DEF i
<1>4. Continues(i)
  BY <1>1, <1>2, <1>3 DEF Continues
<1> QED BY <1>3, <1>4 DEF i

\* Tokens are put on what is pending.
LEMMA PushingContinues ==
    ASSUME IndInv, Replacing, NEW i, Continues(i), NEW ts \in Seq(Pending),
           \A k \in 1 .. Len(ts) : ts[k].kind \notin {"eof", "end"}
    PROVE  Continues(Pushing(i, ts))
<1>1. i \in Iterators /\ i.pending \in Seq(Pending) /\ Bottom(i.pending)
  BY FieldTypes DEF Continues
<1>2. /\ i.pending \o ts \in Seq(Pending) /\ Bottom(i.pending \o ts)
      /\ i.pending # <<>> => i.pending \o ts # <<>>
      /\ \A q, n : HasEnd(i.pending \o ts, q, n) <=> HasEnd(i.pending, q, n)
  BY <1>1, Pushed
<1> DEFINE j == Pushing(i, ts)
<1>3. /\ j \in Iterators /\ j.pending = i.pending \o ts /\ j.phase = i.phase
      /\ j.name = i.name /\ j.args = i.args /\ j.at = i.at
  BY <1>1, <1>2 DEF Pushing, Iterators
<1> HIDE DEF j
<1>4. Continues(j)
  BY <1>2, <1>3 DEF Continues
<1> QED BY <1>4 DEF j

LEMMA OneToken ==
    ASSUME NEW t \in Lexemes \cup {Placemarker}
    PROVE  /\ <<t>> \in Seq(Pending)
           /\ \A k \in 1 .. Len(<<t>>) : <<t>>[k].kind \notin {"eof", "end"}
<1>1. Placemarker.kind = "placemarker"
  BY DEF Placemarker, Mark, Token
<1>2. t \in Pending /\ t.kind \notin {"eof", "end"}
  BY <1>1, PendingTypes, LexemeFacts
<1> QED BY <1>2

\* A helper replaces tokens, and the macro waits for it.
LEMMA HelpedKeeps ==
    ASSUME IndInv, Replacing, NEW i, Continues(i), NEW tokens \in Seq(Lexemes),
           NEW last \in Seq(Lexemes), Helped(i, tokens, last), UNCHANGED <<macros, inIf>>
    PROVE  IndInv'
<1> DEFINE j == [i EXCEPT !.last = last]
           h == NewIterator(Reversed(tokens))
<1>1. i \in Iterators
  BY DEF Continues
<1>2. /\ j \in Iterators /\ j.pending = i.pending /\ j.phase = i.phase
      /\ j.name = i.name /\ j.args = i.args /\ j.at = i.at
  BY <1>1 DEF Iterators
<1>3. /\ iters' = Outer \o <<j, h>>
      /\ replacing' = [replacing EXCEPT ![Inner.name.text] = FALSE]
  BY DEF Helped
<1> HIDE DEF j
<1>4. Continues(j)
  BY <1>2 DEF Continues
<1>5. /\ Reversed(tokens) \in Seq(Pending)
      /\ \A k \in 1 .. Len(Reversed(tokens)) : Reversed(tokens)[k].kind \notin {"eof", "end"}
  <2>1. Reversed(tokens) \in Seq(Lexemes)
    BY ReversedType
  <2> QED BY <2>1, PendingTypes, LexemeFacts
<1>6. h \in Iterators /\ h.pending = Reversed(tokens) /\ h.phase = "scan"
  <2>1. <<>> \in Seq(Lexemes)
    OBVIOUS
  <2> QED BY <1>5, <2>1 DEF NewIterator, Iterators, Phases
<1> HIDE DEF h
<1>7. Sound(h) /\ \A q, n : ~HasEnd(h.pending, q, n)
  <2>1. Len(h.pending) \in Nat
    BY <1>5, <1>6
  <2>2. \A q \in 1 .. Len(h.pending) : h.pending[q].kind \notin {"eof", "end"}
    BY <1>5, <1>6
  <2> QED BY <1>6, <2>1, <2>2 DEF Sound, Bottom, HasEnd
<1>8. Inner.phase = "replace"
  BY DEF Replacing
<1>9. /\ Sound(j) /\ j.phase = "replace" /\ j.name = Inner.name
      /\ \A q, n : HasEnd(j.pending, q, n) <=> HasEnd(Inner.pending, q, n)
  BY <1>4, ContinuesSound DEF Continues
<1> QED BY <1>2, <1>3, <1>6, <1>7, <1>8, <1>9, HelperPut

LEMMA PushTokenKeeps == ASSUME IndInv, PushToken PROVE IndInv'
<1>1. /\ Replacing /\ At > 0 /\ UNCHANGED <<macros, inIf>> /\ Quiet
      /\ Set(Pushing(Done(1), <<Body[At]>>))
  BY DEF PushToken
<1>2. 1 \in 1 .. 2 /\ 1 <= At /\ At \in 1 .. Len(Body)
  BY <1>1, ReplacingFacts
<1>3. Continues(Done(1)) /\ Body[At] \in Lexemes
  BY <1>1, <1>2, DoneContinues, ReplacingFacts
<1>4. Continues(Pushing(Done(1), <<Body[At]>>))
  BY <1>1, <1>3, OneToken, PushingContinues
<1> QED BY <1>1, <1>4, SetContinues

LEMMA StrayOperatorKeeps == ASSUME IndInv, StrayOperator PROVE IndInv'
<1>1. Die /\ UNCHANGED <<macros, inIf>>
  BY DEF StrayOperator
<1> QED BY <1>1, DieKeeps

\* What is glued takes the place of the token on top.
LEMMA JoinContinues ==
    ASSUME IndInv, Replacing, NEW l \in Lexemes, CanJoin(l),
           NEW i, Continues(i), i.pending = Inner.pending
    PROVE  Continues(Join(l, i))
<1> DEFINE p == Inner.pending
           t == Joined(l, Next1)
           j == Join(l, i)
<1>1. p \in Seq(Pending) /\ Bottom(p) /\ p # <<>> /\ i \in Iterators
  BY ReplacingFacts DEF Continues
<1>2. Next1 = p[Len(p)] /\ Next1 \in Pending
  BY <1>1, BelowIs DEF Next1
<1>3. Next1.kind = "placemarker" \/ Next1.kind \in {"ident", "number"}
  BY DEF CanJoin, Joins
<1>4. Next1.kind = "placemarker" \/ Next1 \in Lexemes
  BY <1>2, <1>3, PendingFacts
<1>5. t \in Lexemes /\ t \in Pending /\ t.kind \notin {"eof", "end"}
  BY <1>4, JoinedType, LexemeFacts, PendingTypes
<1> HIDE DEF p, t
<1>6. p[Len(p)].kind # "end"
  BY <1>2, <1>3
<1>7. /\ Append(Below(p), t) \in Seq(Pending) /\ Bottom(Append(Below(p), t))
      /\ Append(Below(p), t) # <<>>
      /\ \A q, n : HasEnd(Append(Below(p), t), q, n) <=> HasEnd(p, q, n)
  BY <1>1, <1>5, <1>6, TopReplaced
<1>8. /\ j \in Iterators /\ j.pending = Append(Below(p), t) /\ j.phase = i.phase
      /\ j.name = i.name /\ j.args = i.args /\ j.at = i.at
  BY <1>1, <1>7 DEF Join, Iterators, p, t
<1> HIDE DEF j
<1>9. \A q, n : HasEnd(j.pending, q, n) <=> HasEnd(Inner.pending, q, n)
  BY <1>7, <1>8 DEF p
<1>10. Continues(j)
  BY <1>7, <1>8, <1>9 DEF Continues
<1> QED BY <1>10 DEF j

LEMMA GlueKeeps == ASSUME IndInv, Glue PROVE IndInv'
<1>1. Replacing /\ At > 1 /\ UNCHANGED <<macros, inIf>>
  BY DEF Glue
<1>2. At - 1 \in 1 .. Len(Body) /\ 2 \in 1 .. 2 /\ 2 <= At
  BY <1>1, ReplacingFacts
<1>3. Continues(Done(2)) /\ Done(2).pending = Inner.pending
  BY <1>1, <1>2, DoneContinues
<1>4. CASE Par(At - 1) # 0 /\ Arg(At - 1) = <<>>
  <2>1. Set(Done(2)) /\ Quiet
    BY <1>4 DEF Glue
  <2> QED BY <1>1, <1>3, <2>1, SetContinues
<1>5. CASE ~(Par(At - 1) # 0 /\ Arg(At - 1) = <<>>)
  <2> DEFINE arg == IF Par(At - 1) = 0 THEN <<Body[At - 1]>> ELSE Arg(At - 1)
             l == arg[Len(arg)]
  <2>1. arg \in Seq(Lexemes) /\ arg # <<>>
    <3>1. CASE Par(At - 1) = 0
      <4>1. Body[At - 1] \in Lexemes
        BY <1>1, <1>2, ReplacingFacts
      <4> QED BY <3>1, <4>1
    <3>2. CASE Par(At - 1) # 0
      BY <1>1, <1>2, <1>5, <3>2, ReplacingFacts
    <3> QED BY <3>1, <3>2
  <2>2. \/ Die
        \/ CanJoin(l) /\ Set(Join(l, Done(2))) /\ Quiet
        \/ CanJoin(l) /\ Helped(Join(l, Done(2)), Below(arg), <<>>)
    BY <1>5, Zenon DEF Glue
  <2> HIDE DEF arg
  <2>3. l \in Lexemes /\ Below(arg) \in Seq(Lexemes) /\ <<>> \in Seq(Lexemes)
    <3>1. Len(arg) \in Nat \ {0}
      BY <2>1
    <3> QED BY <2>1, <3>1, FrontIs DEF Below
  <2> HIDE DEF l
  <2>4. CanJoin(l) => Continues(Join(l, Done(2)))
    BY <1>1, <1>3, <2>3, JoinContinues
  <2>5. CASE Die
    BY <1>1, <2>5, DieKeeps
  <2>6. CASE CanJoin(l) /\ Set(Join(l, Done(2))) /\ Quiet
    BY <1>1, <2>4, <2>6, SetContinues
  <2>7. CASE CanJoin(l) /\ Helped(Join(l, Done(2)), Below(arg), <<>>)
    BY <1>1, <2>3, <2>4, <2>7, HelpedKeeps
  <2> QED BY <2>2, <2>5, <2>6, <2>7
<1> QED BY <1>4, <1>5

LEMMA PushOperandKeeps == ASSUME IndInv, PushOperand PROVE IndInv'
<1>1. Replacing /\ At > 0 /\ Par(At) # 0 /\ UNCHANGED <<macros, inIf>>
  BY DEF PushOperand
<1>2. 1 \in 1 .. 2 /\ 1 <= At /\ At \in 1 .. Len(Body)
  BY <1>1, ReplacingFacts
<1>3. Continues(Done(1)) /\ Arg(At) \in Seq(Lexemes)
  BY <1>1, <1>2, DoneContinues, ReplacingFacts
<1>4. CASE Arg(At) = <<>>
  <2>1. Set(Pushing(Done(1), <<Placemarker>>)) /\ Quiet
    BY <1>4 DEF PushOperand
  <2>2. Continues(Pushing(Done(1), <<Placemarker>>))
    BY <1>1, <1>3, OneToken, PushingContinues
  <2> QED BY <1>1, <2>1, <2>2, SetContinues
<1>5. CASE Arg(At) # <<>>
  <2>1. Helped(Done(1), Tail(Arg(At)), <<Arg(At)[1]>>)
    BY <1>5 DEF PushOperand
  <2> DEFINE arg == Arg(At)
  <2>2. Tail(arg) \in Seq(Lexemes) /\ <<arg[1]>> \in Seq(Lexemes)
    <3> HIDE DEF arg
    <3>1. arg \in Seq(Lexemes) /\ arg # <<>>
      BY <1>3, <1>5 DEF arg
    <3> QED BY <3>1
  <2> QED BY <1>1, <1>3, <2>1, <2>2, HelpedKeeps
<1> QED BY <1>4, <1>5

LEMMA PushStringKeeps == ASSUME IndInv, PushString PROVE IndInv'
<1>1. /\ Replacing /\ At > 1 /\ Par(At) # 0 /\ UNCHANGED <<macros, inIf>> /\ Quiet
      /\ Set(Pushing(Done(2), <<Stringified(Arg(At))>>))
  BY DEF PushString, Follows
<1>2. 2 \in 1 .. 2 /\ 2 <= At /\ At \in 1 .. Len(Body)
  BY <1>1, ReplacingFacts
<1>3. Continues(Done(2)) /\ Stringified(Arg(At)) \in Lexemes
  BY <1>1, <1>2, DoneContinues, ReplacingFacts, StringType
<1>4. Continues(Pushing(Done(2), <<Stringified(Arg(At))>>))
  BY <1>1, <1>3, OneToken, PushingContinues
<1> QED BY <1>1, <1>4, SetContinues

LEMMA PushArgumentKeeps == ASSUME IndInv, PushArgument PROVE IndInv'
<1>1. Replacing /\ At > 0 /\ Par(At) # 0 /\ UNCHANGED <<macros, inIf>>
  BY DEF PushArgument
<1>2. 1 \in 1 .. 2 /\ 1 <= At /\ At \in 1 .. Len(Body)
  BY <1>1, ReplacingFacts
<1>3. Continues(Done(1)) /\ Arg(At) \in Seq(Lexemes) /\ <<>> \in Seq(Lexemes)
  BY <1>1, <1>2, DoneContinues, ReplacingFacts
<1>4. CASE Arg(At) = <<>>
  BY <1>1, <1>3, <1>4, SetContinues DEF PushArgument
<1>5. CASE Arg(At) # <<>>
  <2>1. Helped(Done(1), Arg(At), <<>>)
    BY <1>5 DEF PushArgument
  <2> QED BY <1>1, <1>3, <2>1, HelpedKeeps
<1> QED BY <1>4, <1>5

LEMMA EndReplacementKeeps == ASSUME IndInv, EndReplacement PROVE IndInv'
<1> DEFINE i == [Inner EXCEPT !.phase = "scan", !.name = EOF, !.args = <<>>]
<1>1. /\ Replacing /\ Set(i) /\ UNCHANGED <<macros, inIf, replacing>>
  BY DEF EndReplacement, Quiet
<1>2. Inner \in Iterators /\ Bottom(Inner.pending) /\ <<>> \in Seq(Lexemes)
  BY <1>1, ReplacingFacts
<1>3. i \in Iterators /\ i.pending = Inner.pending /\ i.phase = "scan"
  BY <1>2 DEF Iterators, Phases
<1> HIDE DEF i
<1>4. Sound(i) /\ Running(i, replacing)
  BY <1>2, <1>3 DEF Sound, Running
<1> QED BY <1>1, <1>3, <1>4, NoMarker

-----------------------------------------------------------------------------

LEMMA Initially == ASSUME ProgramsAssumption, Init PROVE IndInv
<1> DEFINE i == NewIterator(<<>>)
<1>1. /\ macros \in [DOMAIN macros -> MacroDefs] /\ inIf \in BOOLEAN
      /\ iters = <<i>> /\ replacing = [m \in DOMAIN macros |-> FALSE]
  BY DEF Init, ProgramsAssumption
<1>2. /\ i \in Iterators /\ i.pending = <<>> /\ i.phase = "scan"
  <2>1. <<>> \in Seq(Lexemes) /\ <<>> \in Seq(Pending)
    OBVIOUS
  <2> QED BY <2>1 DEF NewIterator, Iterators, Phases
<1> HIDE DEF i
<1>3. iters \in Seq(Iterators) /\ Len(iters) = 1 /\ iters[1] = i /\ Inner = i
  BY <1>1, <1>2 DEF Inner
<1>4. TypeInv
  BY <1>1, <1>3 DEF TypeInv
<1>5. Sound(i) /\ Running(i, replacing)
  BY <1>2 DEF Sound, Running, Bottom
<1>6. \A k \in 1 .. Len(iters) : Sound(iters[k])
  BY <1>3, <1>5
<1>7. Suspended
  BY <1>3 DEF Suspended
<1>8. \A j, q, n : ~Counts(iters, 1, j, q, n)
  BY <1>2, <1>3 DEF Counts, HasEnd
<1>9. Matching
  BY <1>1, <1>3, <1>8 DEF Matching, Some, AtMostOne
<1> QED BY <1>3, <1>4, <1>5, <1>6, <1>7, <1>9 DEF IndInv

LEMMA Unchanged == ASSUME IndInv, UNCHANGED vars PROVE IndInv'
BY DEF IndInv, vars, TypeInv, Sound, Calling, Substituting, Running, Suspended, Matching,
       Inner, Some, AtMostOne, Counts, HasEnd

LEMMA Step == ASSUME IndInv, AlphabetAssumption, [Next]_vars PROVE IndInv'
<1>1. CASE Scan
  BY <1>1, ReadKeeps, DropFakeKeeps, DeliverKeeps, StartDefinedKeeps, OperandOfDefinedKeeps,
     TakeNameKeeps, NoCallKeeps, StartCallKeeps, CollectKeeps, DieKeeps, EndCallKeeps,
     ObjectMacroKeeps, FinishKeeps DEF Scan, Unclosed
<1>2. CASE Substitute
  BY <1>2, PushTokenKeeps, StrayOperatorKeeps, GlueKeeps, PushOperandKeeps, PushStringKeeps,
     PushArgumentKeeps, EndReplacementKeeps DEF Substitute
<1>3. CASE Stopped \/ UNCHANGED vars
  BY <1>3, Unchanged DEF Stopped
<1> QED BY <1>1, <1>2, <1>3 DEF Next

\* The inductive invariant: of the macro an iterator waits in there is one
\* marker, the running one has its flag in step with its phase, and flags and
\* markers agree.
THEOREM Markers_Inductive == Spec => []IndInv
<1>1. Init => IndInv
  BY Initially, ProgramsAssumption
<1>2. IndInv /\ [Next]_vars => IndInv'
  BY Step, AlphabetAssumption
<1> QED BY <1>1, <1>2, PTL DEF Spec

\* For any macros, files and nesting of calls, is_replacing is set exactly
\* while a marker of the macro that counts is still to be read, and there is
\* never a second: no macro stays unavailable, none is replaced within itself.
THEOREM Markers_Match == Spec => []MarkersMatch
<1>1. IndInv => MarkersMatch
  BY MatchingIs DEF IndInv
<1> QED BY <1>1, Markers_Inductive, PTL

====
