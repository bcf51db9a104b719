---- MODULE MacroExpansion ----
(***************************************************************************)
(* Macro replacement (tasku_pp.c).  A token iterator keeps what it must    *)
(* still deliver in pending, the next token last.  Replacing a macro puts  *)
(* its replacement list there, above a marker that clears is_replacing     *)
(* when the reading comes to it; an identifier met while its macro is      *)
(* being replaced is painted: is_final, never replaced.  An argument is    *)
(* replaced before it is put in, by a helper iterator of its own, so the   *)
(* iterators under way form a stack; only the first reads a file.          *)
(***************************************************************************)
EXTENDS PPTokens

CONSTANTS Programs,  \* sets of macro definitions: from names to macros
          Alphabet,  \* tokens of a file (FALSE) and of an #if line (TRUE)
          MaxInput   \* bound on the tokens of the file

ASSUME MaxInputAssumption == MaxInput \in Nat
ASSUME ProgramsAssumption == \A p \in Programs : p \in [DOMAIN p -> MacroDefs]
ASSUME AlphabetAssumption == Alphabet \in [BOOLEAN -> SUBSET Lexemes]

VARIABLES macros,    \* state->macros
          inIf,      \* in_if of the first iterator: the file is an #if line
          iters,     \* the iterators under way, each helping the one before
          replacing, \* is_replacing of each macro
          file,      \* the tokens the first iterator has read
          early,     \* history: an operand of ## was replaced before it was glued
          status     \* "running", "dead" (an assertion) or "done"

vars == <<macros, inIf, iters, replacing, file, early, status>>

\* A tacc_tok_iter and where the functions that read it stand: "scan" and
\* "look" in peek_handle_macros (behind a name, is there a parenthesis?),
\* "collect" in its loop over the arguments of the call of name, "replace"
\* in func_expand with the first at tokens of the replacement list to go.
\* last is pushed when the helper ends; out is what was delivered.
NewIterator(pending) ==
    [pending |-> pending, phase |-> "scan", name |-> EOF, args |-> <<>>, nest |-> 0,
     at |-> 0, last |-> <<>>, out |-> <<>>]

-----------------------------------------------------------------------------

Inner == iters[Len(iters)]
Outer == SubSeq(iters, 1, Len(iters) - 1)
Next1 == Inner.pending[Len(Inner.pending)]
Below(s) == SubSeq(s, 1, Len(s) - 1)
Reversed(s) == [k \in 1 .. Len(s) |-> s[Len(s) + 1 - k]]

IsMacro(t) == t.kind = "ident" /\ t.text \in DOMAIN macros

\* Mutation: a token is painted for as long as its macro is being replaced.
BugPainted(t) ==
    IF IsMacro(t) THEN [t EXCEPT !.final = replacing[t.text]] ELSE t

\* tacc_tok_maybe_finalize
Painted(t) ==
    IF IsMacro(t) /\ replacing[t.text] THEN [t EXCEPT !.final = TRUE] ELSE t

\* The current iterator becomes i.
Set(i) == iters' = Append(Outer, i)
Die    == status' = "dead" /\ UNCHANGED <<iters, replacing>>
Live   == UNCHANGED status
Quiet  == UNCHANGED <<replacing, status>>

\* The iterator with its next token gone, or another in its place
Dropped         == [Inner EXCEPT !.pending = Below(@)]
Delivering(t)   == [Dropped EXCEPT !.out = Append(@, t), !.phase = "scan"]
Pushing(i, ts)  == [i EXCEPT !.pending = @ \o ts]

-----------------------------------------------------------------------------
(* tacc_tok_iter_peek_nomacro: an empty pending is filled from the file or *)
(* with the end of it; a marker or placemarker is dropped.  What is left   *)
(* is painted and looked at by the caller.                                 *)

Reading == status = "running" /\ Inner.phase # "replace"
HasReal == Inner.pending # <<>> /\ Next1.kind \notin Fakes
Peek    == IF Reading /\ HasReal THEN {Painted(Next1)} ELSE {}

Read ==
    /\ Reading /\ Inner.pending = <<>>
    /\ \/ Set(Pushing(Inner, <<EOF>>)) /\ UNCHANGED file
       \/ /\ Len(iters) = 1 /\ Len(file) < MaxInput
          /\ \E t \in Alphabet[inIf] : Set(Pushing(Inner, <<t>>)) /\ file' = Append(file, t)
    /\ Quiet /\ UNCHANGED <<macros, inIf, early>>

\* Mutation: the marker is dropped and the macro stays unavailable.
BugEnded == replacing

Ended == IF Next1.kind = "end" THEN [replacing EXCEPT ![Next1.text] = FALSE] ELSE replacing

DropFake ==
    /\ Reading /\ Inner.pending # <<>> /\ Next1.kind \in Fakes
    /\ Set(Dropped)
    /\ replacing' = Ended
    /\ Live /\ UNCHANGED <<macros, inIf, file, early>>

-----------------------------------------------------------------------------
(* tacc_tok_iter_peek_handle_macros: "scan" and "look" *)

\* tacc_tok_iter_maybe_nonmacro_ident: what an #if sees of an identifier.
\* Helper iterators are not in_if.
Plain(t) == IF inIf /\ Len(iters) = 1 /\ t.kind = "ident" THEN NumberOf(FALSE) ELSE t
IsDefinedOp(t) ==
    inIf /\ Len(iters) = 1 /\ t.kind = "ident" /\ ~t.final /\ t.text = <<"defined">>

Replaceable(t) == IsMacro(t) /\ ~t.final /\ ~IsDefinedOp(t)

\* tacc_tok_iter_next: the token is no name of a macro to replace.
Deliver ==
    /\ Inner.phase = "scan"
    /\ \E t \in Peek :
        /\ ~Replaceable(t) /\ ~IsDefinedOp(t) /\ t.kind # "eof"
        /\ Set(Delivering(Plain(t)))
    /\ Quiet /\ UNCHANGED <<macros, inIf, file, early>>

\* tacc_tok_iter_eval_defined: an identifier, in parentheses or not, that is
\* not replaced
StartDefined ==
    /\ Inner.phase = "scan"
    /\ \E t \in Peek :
        /\ IsDefinedOp(t)
        /\ Set([Dropped EXCEPT !.phase = "defined"])
    /\ Quiet /\ UNCHANGED <<macros, inIf, file, early>>

IsDefined(t) == NumberOf(t.text \in DOMAIN macros)

OperandOfDefined ==
    /\ Inner.phase \in {"defined", "operand", "close"}
    /\ \E t \in Peek :
        /\ \/ /\ Inner.phase = "defined" /\ t.kind = "("
              /\ Set([Dropped EXCEPT !.phase = "operand"]) /\ Quiet
           \/ /\ Inner.phase = "defined" /\ t.kind = "ident"
              /\ Set(Delivering(IsDefined(t))) /\ Quiet
           \/ /\ Inner.phase = "operand" /\ t.kind = "ident"
              /\ Set([Dropped EXCEPT !.phase = "close", !.name = t]) /\ Quiet
           \/ /\ Inner.phase = "close" /\ t.kind = ")"
              /\ Set(Delivering(IsDefined(Inner.name))) /\ Quiet
           \/ /\ t.kind # (CASE Inner.phase = "close" -> ")" [] OTHER -> "ident")
              /\ ~(Inner.phase = "defined" /\ t.kind = "(")
              /\ Die
    /\ UNCHANGED <<macros, inIf, file, early>>

\* The name of a function-like macro is taken off before it is known whether
\* a call follows.
TakeName ==
    /\ Inner.phase = "scan"
    /\ \E t \in Peek :
        /\ Replaceable(t) /\ macros[t.text].function
        /\ Set([Dropped EXCEPT !.phase = "look", !.name = t])
    /\ Quiet /\ UNCHANGED <<macros, inIf, file, early>>

\* No parenthesis: the name is delivered, what was looked at stays (painted).
NoCall ==
    /\ Inner.phase = "look"
    /\ \E t \in Peek :
        /\ t.kind # "("
        /\ Set([Pushing(Delivering(Plain(Inner.name)), <<t>>) EXCEPT !.name = EOF])
    /\ Quiet /\ UNCHANGED <<macros, inIf, file, early>>

StartCall ==
    /\ Inner.phase = "look"
    /\ Mark("(") \in Peek
    /\ Set([Dropped EXCEPT !.phase = "collect", !.nest = 1, !.args = <<>>])
    /\ Quiet /\ UNCHANGED <<macros, inIf, file, early>>

\* Up to the parenthesis that closes the call
Collect ==
    /\ Inner.phase = "collect"
    /\ \E t \in Peek :
        /\ t.kind # "eof"
        /\ t.kind = ")" => Inner.nest > 1
        /\ Set([Dropped EXCEPT
                    !.args = Append(@, t),
                    !.nest = CASE t.kind = "(" -> @ + 1 [] t.kind = ")" -> @ - 1
                               [] OTHER -> @])
    /\ Quiet /\ UNCHANGED <<macros, inIf, file, early>>

Unclosed ==
    /\ Inner.phase = "collect" /\ EOF \in Peek
    /\ Die /\ UNCHANGED <<macros, inIf, file, early>>

\* insert_macro_replacing_stop, is_replacing = 1, and func_expand begins
EndCall ==
    LET m == Inner.name.text IN
    /\ Inner.phase = "collect" /\ Inner.nest = 1 /\ Mark(")") \in Peek
    /\ Set([Pushing(Dropped, <<EndOf(m)>>) EXCEPT
                !.phase = "replace", !.nest = 0,
                !.args = SplitArgs(macros[m], @), !.at = Len(macros[m].body)])
    /\ replacing' = [replacing EXCEPT ![m] = TRUE]
    /\ Live /\ UNCHANGED <<macros, inIf, file, early>>

\* Mutation: nothing remembers that the macro is being replaced.
BugObject ==
    /\ Inner.phase = "scan"
    /\ \E t \in Peek :
        /\ Replaceable(t) /\ ~macros[t.text].function
        /\ Set([Dropped EXCEPT
                    !.phase = "replace", !.name = t, !.args = <<>>,
                    !.at = Len(macros[t.text].body)])
    /\ Quiet /\ UNCHANGED <<macros, inIf, file, early>>

\* An object-like macro is replaced at once.
ObjectMacro ==
    /\ Inner.phase = "scan"
    /\ \E t \in Peek :
        /\ Replaceable(t) /\ ~macros[t.text].function
        /\ Set([Pushing(Dropped, <<EndOf(t.text)>>) EXCEPT
                    !.phase = "replace", !.name = t, !.args = <<>>,
                    !.at = Len(macros[t.text].body)])
        /\ replacing' = [replacing EXCEPT ![t.text] = TRUE]
    /\ Live /\ UNCHANGED <<macros, inIf, file, early>>

\* The end of the tokens: the reverse of what a helper delivered is pushed on
\* the iterator it helps, whose macro is again being replaced.
Finish ==
    /\ Inner.phase = "scan" /\ EOF \in Peek
    /\ IF Len(iters) = 1
       THEN status' = "done" /\ UNCHANGED <<iters, replacing>>
       ELSE LET helped == Outer[Len(Outer)] IN
            /\ iters' = Append(Below(Outer),
                   [Pushing(helped, Reversed(Inner.out) \o helped.last) EXCEPT !.last = <<>>])
            /\ replacing' = [replacing EXCEPT ![helped.name.text] = TRUE]
            /\ Live
    /\ UNCHANGED <<macros, inIf, file, early>>

-----------------------------------------------------------------------------
(* The replacement list, from its end: object-like macros in               *)
(* peek_handle_macros, function-like ones in func_expand.                  *)

Replacing == status = "running" /\ Inner.phase = "replace"
Macro     == macros[Inner.name.text]
Body      == Macro.body
At        == Inner.at
Par(k)    == IF Macro.function THEN ParIndex(Macro, Body[k]) ELSE 0
Arg(k)    == Inner.args[Par(k)]
Follows(kind) == At > 1 /\ Body[At - 1].kind = kind   \* in reading order: precedes
Done(k)   == [Inner EXCEPT !.at = @ - k]

\* tacc_tok_iter_push_all_expanding: a helper with the tokens, to whose result
\* last is added; meanwhile the macro is not being replaced.
Helped(i, tokens, last) ==
    /\ iters' = Outer \o <<[i EXCEPT !.last = last], NewIterator(Reversed(tokens))>>
    /\ replacing' = [replacing EXCEPT ![Inner.name.text] = FALSE]
    /\ Live

Names(tokens) == \E k \in 1 .. Len(tokens) : IsMacro(tokens[k])

\* tacc_tok_iter_join_pending
Join(l, i) ==
    [i EXCEPT !.pending = Append(Below(@), Joined(l, Next1))]
CanJoin(l) == Next1.kind # "end" /\ Joins(l, Next1)

PushToken ==
    /\ Replacing /\ At > 0
    /\ Body[At].kind # "##" /\ (Macro.function => Body[At].kind # "#") /\ Par(At) = 0
    /\ Set(Pushing(Done(1), <<Body[At]>>))
    /\ Quiet /\ UNCHANGED <<macros, inIf, file, early>>

StrayOperator ==
    /\ Replacing /\ At > 0
    /\ \/ Macro.function /\ Body[At].kind = "#"
       \/ Body[At].kind = "##" /\ At = 1
       \/ Body[At].kind = "##" /\ At = Len(Body) /\ ~Macro.function
    /\ Die /\ UNCHANGED <<macros, inIf, file, early>>

\* l ## what is on top of pending: the last token of an argument l is glued,
\* those before it are replaced.
Glue ==
    /\ Replacing /\ At > 1 /\ Body[At].kind = "##"
    /\ At = Len(Body) => Macro.function
    /\ IF Par(At - 1) # 0 /\ Arg(At - 1) = <<>>
       THEN Set(Done(2)) /\ Quiet /\ UNCHANGED early
       ELSE \E arg \in {IF Par(At - 1) = 0 THEN <<Body[At - 1]>> ELSE Arg(At - 1)} :
              LET l == arg[Len(arg)] IN
              IF ~CanJoin(l) THEN Die /\ UNCHANGED early
              ELSE IF Len(arg) = 1 THEN Set(Join(l, Done(2))) /\ Quiet /\ UNCHANGED early
              ELSE /\ Helped(Join(l, Done(2)), Below(arg), <<>>)
                   /\ early' = (early \/ Names(Below(arg)))
    /\ UNCHANGED <<macros, inIf, file>>

\* ... ## parameter: its first token waits to be glued, the others are
\* replaced; a placemarker stands for an empty argument.
PushOperand ==
    /\ Replacing /\ At > 0 /\ Par(At) # 0 /\ Follows("##")
    /\ IF Arg(At) = <<>>
       THEN Set(Pushing(Done(1), <<Placemarker>>)) /\ Quiet /\ UNCHANGED early
       ELSE /\ Helped(Done(1), Tail(Arg(At)), <<Arg(At)[1]>>)
            /\ early' = (early \/ Names(Tail(Arg(At))))
    /\ UNCHANGED <<macros, inIf, file>>

\* # parameter
PushString ==
    /\ Replacing /\ At > 0 /\ Par(At) # 0 /\ Follows("#")
    /\ Set(Pushing(Done(2), <<Stringified(Arg(At))>>))
    /\ Quiet /\ UNCHANGED <<macros, inIf, file, early>>

PushArgument ==
    /\ Replacing /\ At > 0 /\ Par(At) # 0 /\ ~Follows("##") /\ ~Follows("#")
    /\ IF Arg(At) = <<>>
       THEN Set(Done(1)) /\ Quiet
       ELSE Helped(Done(1), Arg(At), <<>>)
    /\ UNCHANGED <<macros, inIf, file, early>>

EndReplacement ==
    /\ Replacing /\ At = 0
    /\ Set([Inner EXCEPT !.phase = "scan", !.name = EOF, !.args = <<>>])
    /\ Quiet /\ UNCHANGED <<macros, inIf, file, early>>

-----------------------------------------------------------------------------

Init ==
    /\ macros \in Programs
    /\ inIf \in BOOLEAN
    /\ iters = <<NewIterator(<<>>)>>
    /\ replacing = [m \in DOMAIN macros |-> FALSE]
    /\ file = <<>>
    /\ early = FALSE
    /\ status = "running"

Scan == Read \/ DropFake \/ Deliver \/ StartDefined \/ OperandOfDefined \/ TakeName
        \/ NoCall \/ StartCall \/ Collect \/ Unclosed \/ EndCall \/ ObjectMacro \/ Finish
Substitute == PushToken \/ StrayOperator \/ Glue \/ PushOperand \/ PushString
              \/ PushArgument \/ EndReplacement

Stopped == status # "running" /\ UNCHANGED vars

Next == Scan \/ Substitute \/ Stopped

Spec     == Init /\ [][Next]_vars
FairSpec == Spec /\ WF_vars(Scan \/ Substitute)

-----------------------------------------------------------------------------

\* A helper works for an argument of macro n begun in iterator i or later.
Arguments(n, i) == \E k \in i .. Len(iters) - 1 : iters[k].name.text = n

\* The places of the markers of n that count: <<iterator, position>>
Markers(n) ==
    {p \in UNION {{i} \X (1 .. Len(iters[i].pending)) : i \in 1 .. Len(iters)} :
        /\ iters[p[1]].pending[p[2]].kind = "end"
        /\ iters[p[1]].pending[p[2]].text = n
        /\ ~Arguments(n, p[1])}

\* is_replacing says of every macro whether its marker is still to be read,
\* and there is one at most; the markers of a macro do not count while its
\* own arguments are replaced, for these were outside of it.
MarkersMatch ==
    \A n \in DOMAIN macros :
        /\ replacing[n] <=> Markers(n) # {}
        /\ \A p, q \in Markers(n) : p = q

\* Replacement ends: a macro that comes back to itself is not replaced again.
Terminates == <>(status # "running")

====
