---- MODULE MacroReference ----
(***************************************************************************)
(* What C99 (6.10.3) says of the same tokens: every token carries the set  *)
(* of macros it may no longer be replaced by, an operand of # or ## is     *)
(* never replaced, another argument completely and on its own.  The result *)
(* of a call can be replaced by a macro whose replacement list holds only  *)
(* a part of the call.                                                     *)
(***************************************************************************)
EXTENDS PPTokens, FiniteSets

Hiding(t, names) == [kind |-> t.kind, text |-> t.text, hide |-> names]
Bad       == Hiding(Mark("bad"), {})   \* C gives the program no meaning
IsBad(ts) == \E k \in 1 .. Len(ts) : ts[k] = Bad

Plainly(t) == Token(t.kind, t.text)

\* One token from two
Glued(l, r) ==
    IF l.kind = "placemarker" THEN r
    ELSE IF r.kind = "placemarker" THEN l
    ELSE IF Joins(Plainly(l), Plainly(r))
         THEN Hiding(Lexed(l.text \o r.text), l.hide \cap r.hide)
         ELSE Bad

GluedOn(out, new) ==
    IF out = <<>> THEN <<Bad>>
    ELSE SubSeq(out, 1, Len(out) - 1) \o <<Glued(out[Len(out)], new[1])>> \o Tail(new)

\* The position of the parenthesis that closes the call whose name is ts[1];
\* 0 if there is none
Closing(ts) ==
    LET depth == Depth(ts)
        close == {k \in 3 .. Len(ts) : ts[k].kind = ")" /\ depth[k] = 0}
    IN  IF close = {} THEN 0 ELSE CHOOSE k \in close : \A j \in close : k <= j

RECURSIVE Expand(_, _, _)

\* The replacement list m.body with the arguments put in, from token k on;
\* out is what came of the tokens before.
RECURSIVE Put(_, _, _, _, _)
Put(ms, m, args, k, out) ==
    LET body     == m.body
        Is(j, c) == j \in 1 .. Len(body) /\ body[j].kind = c
        par(j)   == IF m.function THEN ParIndex(m, body[j]) ELSE 0
        hash     == m.function /\ Is(k, "#")
        glue     == Is(k, "##")
        at       == IF glue THEN k + 1 ELSE k          \* the operand
        string   == m.function /\ Is(at, "#")
        last     == IF string THEN at + 1 ELSE at
        operand  == glue \/ Is(last + 1, "##")
        value ==
            IF string THEN <<Hiding(Stringified(args[par(last)]), {})>>
            ELSE IF par(at) = 0 THEN <<Hiding(body[at], {})>>
            ELSE IF ~operand THEN Expand(ms, FALSE, args[par(at)])
            ELSE IF args[par(at)] = <<>> THEN <<Hiding(Placemarker, {})>>
            ELSE args[par(at)]
        wrong == at > Len(body) \/ (string /\ (last > Len(body) \/ par(last) = 0))
    IN  IF k > Len(body) THEN out
        ELSE IF wrong THEN <<Bad>>
        ELSE Put(ms, m, args, last + 1, IF glue THEN GluedOn(out, value) ELSE out \o value)

Replaced(ms, m, args, hide) ==
    LET real(t) == t.kind # "placemarker"
        tokens  == SelectSeq(Put(ms, m, args, 1, <<>>), real)
    IN  [k \in 1 .. Len(tokens) |->
            IF tokens[k] = Bad THEN Bad ELSE [tokens[k] EXCEPT !.hide = @ \cup hide]]

Rescanned(ms, inIf, new, rest) ==
    IF IsBad(new) THEN <<Bad>> ELSE Expand(ms, inIf, new \o rest)

Drop(ts, n) == SubSeq(ts, n + 1, Len(ts))

\* defined X, defined ( X )
Defined(ms, ts) ==
    LET kinds == [k \in 1 .. Len(ts) |-> ts[k].kind]
        Value(t) == Hiding(NumberOf(t.text \in DOMAIN ms), {})
    IN  CASE Len(ts) >= 2 /\ kinds[2] = "ident" ->
                <<Value(ts[2])>> \o Expand(ms, TRUE, Drop(ts, 2))
          [] Len(ts) >= 4 /\ SubSeq(kinds, 2, 4) = <<"(", "ident", ")">> ->
                <<Value(ts[3])>> \o Expand(ms, TRUE, Drop(ts, 4))
          [] OTHER -> <<Bad>>

Expand(ms, inIf, ts) ==
    IF ts = <<>> THEN <<>>
    ELSE LET t == ts[1]
             m == ms[t.text]
             closing == Closing(ts)
         IN
    IF inIf /\ t.kind = "ident" /\ t.text = <<"defined">> THEN Defined(ms, ts)
    ELSE IF \/ t.kind # "ident" \/ t.text \notin DOMAIN ms \/ t.text \in t.hide
            \/ (m.function /\ (Len(ts) = 1 \/ ts[2].kind # "("))
    THEN <<t>> \o Expand(ms, inIf, Tail(ts))
    ELSE IF ~m.function
    THEN Rescanned(ms, inIf, Replaced(ms, m, <<>>, t.hide \cup {t.text}), Tail(ts))
    ELSE IF closing = 0 THEN <<Bad>>
    ELSE Rescanned(ms, inIf,
             Replaced(ms, m, SplitArgs(m, SubSeq(ts, 3, closing - 1)),
                      (t.hide \cap ts[closing].hide) \cup {t.text}),
             Drop(ts, closing))

\* The tokens of a file, or of an #if line, whose remaining identifiers are 0
Meaning(ms, inIf, file) ==
    LET result == Expand(ms, inIf, [k \in 1 .. Len(file) |-> Hiding(file[k], {})])
    IN  [k \in 1 .. Len(result) |->
            Plainly(IF inIf /\ result[k].kind = "ident" THEN NumberOf(FALSE) ELSE result[k])]
HasMeaning(tokens) == \A k \in 1 .. Len(tokens) : tokens[k].kind # "bad"

====
