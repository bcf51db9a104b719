---- MODULE PPTokens ----
(***************************************************************************)
(* Preprocessing tokens and macro definitions (tasku_pp.h), and the three  *)
(* conversions macro replacement makes of them: a token glued to another,  *)
(* an argument made a string, and the arguments of a call told apart.  A   *)
(* spelling is the sequence of the pieces it was glued from.               *)
(***************************************************************************)
EXTENDS Naturals, Sequences

CONSTANTS Identifiers, \* spellings that are identifiers
          Numbers      \* spellings that are preprocessing numbers

Spelled == {"ident", "number", "string"}
Marks   == {"(", ")", ",", "#", "##", "eof"}
\* TOK_FAKE_END_OF_MACRO and TOK_FAKE_PMARK
Fakes   == {"end", "placemarker"}

Token(kind, text) == [kind |-> kind, text |-> text, final |-> FALSE]
Mark(kind)        == Token(kind, <<>>)
Ident(piece)      == Token("ident", <<piece>>)
Number(piece)     == Token("number", <<piece>>)
EndOf(macro)      == Token("end", macro)
Placemarker       == Mark("placemarker")
EOF               == Mark("eof")

Pieces == Identifiers \cup Numbers
\* Those of what an #if sees of an identifier, and of a string
MadePieces == {"0", "1", "\"", " "} \cup Spelled \cup Marks
Texts == Seq(Pieces \cup MadePieces)

\* What the lexer reads of a file: neither its end nor what expansion puts in
Lexemes == [kind : Spelled \cup (Marks \ {"eof"}), text : Texts, final : BOOLEAN]

\* is_function_like, params, is_va and replacement_list of a macro
MacroDefs == [function : BOOLEAN, params : Seq(Identifiers), va : BOOLEAN, body : Seq(Lexemes)]
Object(body)               == [function |-> FALSE, params |-> <<>>, va |-> FALSE, body |-> body]
Function(params, va, body) == [function |-> TRUE, params |-> params, va |-> va, body |-> body]
VaArgs == <<"__VA_ARGS__">>

NumberOf(b) == [Number(IF b THEN "1" ELSE "0") EXCEPT !.final = TRUE]

-----------------------------------------------------------------------------

\* How the lexer reads a glued spelling: the first piece decides.
IsSpelling(text) == \A k \in 1 .. Len(text) : text[k] \in Pieces
Lexed(text) ==
    Token(IF text[1] \in Identifiers THEN "ident" ELSE "number", text)

\* tacc_tok_iter_join_pending: l glued in front of r is read anew as one
\* token; a placemarker has no spelling.  Strings and marks are glued to
\* nothing but placemarkers.
Joins(l, r) ==
    \/ r.kind = "placemarker"
    \/ /\ {l.kind, r.kind} \subseteq {"ident", "number"}
       /\ IsSpelling(l.text \o r.text)
Joined(l, r) ==
    IF r.kind = "placemarker" THEN [l EXCEPT !.final = FALSE] ELSE Lexed(l.text \o r.text)

\* tacc_pp_stringify
Concat(parts) ==
    LET to[k \in 0 .. Len(parts)] == IF k = 0 THEN <<>> ELSE to[k - 1] \o parts[k]
    IN  to[Len(parts)]
Spelling(t) == IF t.kind \in Spelled THEN t.text ELSE <<t.kind>>
Stringified(arg) ==
    Token("string", <<"\"">> \o Concat([k \in 1 .. Len(arg) |-> <<" ">> \o Spelling(arg[k])]))

\* The number of arguments of a call
Arity(m) == Len(m.params) + (IF m.va THEN 1 ELSE 0)

\* tacc_macro_def_index_of_par; 0 is TACC_PARAM_NOT_FOUND
ParIndex(m, t) ==
    LET named == {k \in 1 .. Len(m.params) : <<m.params[k]>> = t.text}
    IN  IF t.kind # "ident" THEN 0
        ELSE IF m.va /\ t.text = VaArgs THEN Len(m.params) + 1
        ELSE IF named # {} THEN CHOOSE k \in named : TRUE ELSE 0

\* tacc_pp_split_args: a comma outside parentheses ends an argument, unless
\* it is in the variable ones.  Arguments that are missing are empty, those
\* in excess are dropped.
Depth(raw) ==
    LET at[k \in 0 .. Len(raw)] ==
            IF k = 0 THEN 0
            ELSE CASE raw[k].kind = "(" -> at[k - 1] + 1
                   [] raw[k].kind = ")" -> at[k - 1] - 1
                   [] OTHER             -> at[k - 1]
    IN  at
SplitArgs(m, raw) ==
    LET index == \* of the argument token k belongs to, 0 for a comma between two
            LET to[k \in 0 .. Len(raw)] ==  \* <<argument open behind k, does k end one>>
                    IF k = 0 THEN <<1, FALSE>>
                    ELSE IF /\ raw[k].kind = "," /\ Depth(raw)[k] = 0
                            /\ to[k - 1][1] <= Len(m.params)
                         THEN <<to[k - 1][1] + 1, TRUE>>
                         ELSE <<to[k - 1][1], FALSE>>
            IN  to
        Of(a) == LET of[k \in 0 .. Len(raw)] ==
                         IF k = 0 THEN <<>>
                         ELSE IF index[k] = <<a, FALSE>> THEN Append(of[k - 1], raw[k])
                         ELSE of[k - 1]
                 IN  of[Len(raw)]
    IN  [a \in 1 .. Arity(m) |-> Of(a)]

====
