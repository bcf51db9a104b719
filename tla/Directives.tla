---- MODULE Directives ----
(***************************************************************************)
(* Conditional inclusion, macro definition and #include (the handlers of   *)
(* tasku_pp.c).  The program keeps no stack of groups: per file it has two *)
(* counters and a flag.  Beside them runs what C says of the same lines: a *)
(* stack of groups for each file.  Lines of text change neither; they are  *)
(* dropped exactly while skip_level is positive.                           *)
(***************************************************************************)
EXTENDS Naturals, Sequences

CONSTANTS Names,      \* macro names
          MaxGroups,  \* bound on open groups of one file
          MaxFiles    \* bound on files waiting for an included one

ASSUME DirectivesAssumption ==
    /\ MaxGroups \in Nat
    /\ MaxFiles \in Nat

VARIABLES cur,     \* the tacc_tok_iter at the end of the override chain
          outer,   \* the files behind it: iterator and open groups of each
          macros,  \* state->macros: entries, tombstones included
          status,  \* "running", "dead" (an assertion) or "done"
          groups,  \* C: the open groups of the current file, outermost first
          meaning, \* C: what each name is defined as
          fault,   \* C: what is wrong with the lines so far
          foreign  \* C takes one of the lines, but the program has no word for it

cVars == <<groups, meaning, fault, foreign>>
vars  == <<cur, outer, macros, status, cVars>>

Values    == {0, 1}
Undefined == 2     \* C: no macro of that name
Absent    == [value |-> 0, is |-> "absent"]

\* skip_level, inc_level and skip_till_endif
Iterator == [skip : Nat, inc : Nat, till : BOOLEAN]
Entry    == [value : Values, is : {"absent", "defined", "tombstone"}]
\* A group is on if this part of it is kept, past if some part was (or none
\* can be), last behind its #else.
Group    == [on : BOOLEAN, past : BOOLEAN, last : BOOLEAN]

\* What an #if can ask: a constant, a name, defined(name) or !defined(name).
Conditions == [kind : {"value"}, of : Values]
              \cup [kind : {"name", "defined", "not defined"}, of : Names]

NewIterator == [skip |-> 0, inc |-> 0, till |-> FALSE]

-----------------------------------------------------------------------------
(* C *)

Kept    == \A k \in 1 .. Len(groups) : groups[k].on
Correct == fault = "none"

Opened(b) == [on |-> Kept /\ b, past |-> ~Kept \/ b, last |-> FALSE]
Inner     == groups[Len(groups)]
Around    == SubSeq(groups, 1, Len(groups) - 1)
Changed(g) == groups' = Append(Around, g)

\* Lines behind the first fault have no meaning.
Means(action) == IF Correct THEN action ELSE UNCHANGED cVars
Fault(f)      == fault' = f /\ UNCHANGED <<groups, meaning, foreign>>
Foreign       == foreign' = TRUE /\ UNCHANGED <<groups, meaning, fault>>
NoMacroChange == UNCHANGED <<meaning, fault, foreign>>

True(c) == CASE c.kind = "value"   -> c.of = 1
             [] c.kind = "name"    -> meaning[c.of] = 1
             [] c.kind = "defined" -> meaning[c.of] # Undefined
             [] OTHER              -> meaning[c.of] = Undefined

COpen(b) == Means(groups' = Append(groups, Opened(b)) /\ NoMacroChange)

\* #elif under condition b, #else
CElif(b) ==
    Means(IF groups = <<>> THEN Fault("unbalanced")
          ELSE IF Inner.last THEN Fault("after else")
          ELSE /\ Changed([on |-> ~Inner.past /\ b, past |-> Inner.past \/ b,
                           last |-> FALSE])
               /\ NoMacroChange)
CElse ==
    Means(IF groups = <<>> THEN Fault("unbalanced")
          ELSE IF Inner.last THEN Fault("after else")
          ELSE /\ Changed([on |-> ~Inner.past, past |-> TRUE, last |-> TRUE])
               /\ NoMacroChange)
CEndif ==
    Means(IF groups = <<>> THEN Fault("unbalanced")
          ELSE groups' = Around /\ NoMacroChange)
CDefine(n, v) ==
    Means(/\ meaning' = IF Kept THEN [meaning EXCEPT ![n] = v] ELSE meaning
          /\ UNCHANGED <<groups, fault, foreign>>)
CError == Means(IF Kept THEN Fault("error") ELSE UNCHANGED cVars)
\* A directive of another name: C has more of them, and what it does not have
\* is a fault of a kept group only.
CUnknown(standard) ==
    Means(IF ~Kept THEN UNCHANGED cVars
          ELSE IF standard THEN Foreign ELSE Fault("unknown"))
CForm == Means(Foreign)

-----------------------------------------------------------------------------
(* The macro table *)

\* tacc_pp_macro_is_defined
IsDefined(n) == macros[n].is = "defined"

\* Mutation: the entry found is reused and stays a tombstone.
BugInserted(n, v) ==
    [value |-> v, is |-> IF macros[n].is = "tombstone" THEN "tombstone" ELSE "defined"]

\* tacc_pp_insert_macro: a new entry, or a new content for the one found
Inserted(n, v) == [value |-> v, is |-> "defined"]

\* tacc_pp_undef: a name never defined has no entry.
Buried(n) == IF macros[n].is = "absent" THEN macros[n]
             ELSE [macros[n] EXCEPT !.is = "tombstone"]

\* The value of an #if expression: names that are no macros are 0.
Evaluated(c) ==
    CASE c.kind = "value"   -> c.of = 1
      [] c.kind = "name"    -> IsDefined(c.of) /\ macros[c.of].value = 1
      [] c.kind = "defined" -> IsDefined(c.of)
      [] OTHER              -> ~IsDefined(c.of)

-----------------------------------------------------------------------------
(* The handlers *)

Init ==
    /\ cur = NewIterator
    /\ outer = <<>>
    /\ macros = [n \in Names |-> Absent]
    /\ status = "running"
    /\ groups = <<>>
    /\ meaning = [n \in Names |-> Undefined]
    /\ fault = "none"
    /\ foreign = FALSE

Running  == status = "running"
Skipping == cur.skip > 0

Continue  == UNCHANGED <<outer, macros, status>>
Diagnosed == status' = "dead" /\ UNCHANGED <<cur, outer, macros>>

\* #if, #ifdef and #ifndef: skip, or evaluate and open.
Opens(b) ==
    cur' = IF Skipping THEN [cur EXCEPT !.skip = @ + 1]
           ELSE IF b THEN [cur EXCEPT !.inc = @ + 1]
           ELSE [cur EXCEPT !.skip = @ + 1]

Room == Len(groups) < MaxGroups /\ cur.skip + cur.inc < MaxGroups

HandleIf(c) ==
    /\ Running /\ Room
    /\ Opens(Evaluated(c)) /\ COpen(True(c))
    /\ Continue

HandleIfdef(n) ==
    /\ Running /\ Room
    /\ Opens(IsDefined(n)) /\ COpen(meaning[n] # Undefined)
    /\ Continue

HandleIfndef(n) ==
    /\ Running /\ Room
    /\ Opens(~IsDefined(n)) /\ COpen(meaning[n] = Undefined)
    /\ Continue

\* Mutation: #elif behind the part that was kept only stops it.
BugElifStops == [cur EXCEPT !.skip = 1, !.inc = @ - 1]

\* #elif behind the part that was kept: skip to the end of the group.
ElifStops == [cur EXCEPT !.skip = 1, !.inc = @ - 1, !.till = TRUE]

HandleElif(c) ==
    /\ Running
    /\ \/ /\ cur.till \/ cur.skip > 1
          /\ UNCHANGED cur /\ Continue
       \/ /\ ~cur.till /\ cur.skip = 0 /\ cur.inc > 0
          /\ cur' = ElifStops /\ Continue
       \/ /\ ~cur.till /\ cur.skip = 0 /\ cur.inc = 0
          /\ Diagnosed
       \/ /\ ~cur.till /\ cur.skip = 1
          /\ cur' = IF Evaluated(c) THEN [cur EXCEPT !.skip = 0, !.inc = @ + 1] ELSE cur
          /\ Continue
    /\ CElif(True(c))

\* Mutation: the part behind #else does not count as an open group.
BugElseKeeps == [cur EXCEPT !.skip = 0]

ElseKeeps == [cur EXCEPT !.skip = 0, !.inc = @ + 1]

HandleElse ==
    /\ Running
    /\ \/ /\ cur.till \/ cur.skip > 1
          /\ UNCHANGED cur /\ Continue
       \/ /\ ~cur.till /\ cur.skip = 1
          /\ cur' = ElseKeeps /\ Continue
       \/ /\ ~cur.till /\ cur.skip = 0 /\ cur.inc > 0
          /\ cur' = [cur EXCEPT !.inc = @ - 1, !.skip = @ + 1] /\ Continue
       \/ /\ ~cur.till /\ cur.skip = 0 /\ cur.inc = 0
          /\ Diagnosed
    /\ CElse

HandleEndif ==
    /\ Running
    /\ \/ /\ Skipping
          /\ cur' = [cur EXCEPT !.skip = @ - 1, !.till = IF cur.skip = 1 THEN FALSE ELSE @]
          /\ Continue
       \/ /\ ~Skipping /\ cur.inc > 0
          /\ cur' = [cur EXCEPT !.inc = @ - 1]
          /\ Continue
       \/ /\ ~Skipping /\ cur.inc = 0
          /\ Diagnosed
    /\ CEndif

HandleDefine(n, v) ==
    /\ Running
    /\ macros' = IF Skipping THEN macros ELSE [macros EXCEPT ![n] = Inserted(n, v)]
    /\ CDefine(n, v)
    /\ UNCHANGED <<cur, outer, status>>

HandleUndef(n) ==
    /\ Running
    /\ macros' = IF Skipping THEN macros ELSE [macros EXCEPT ![n] = Buried(n)]
    /\ CDefine(n, Undefined)
    /\ UNCHANGED <<cur, outer, status>>

\* #error
HandleError ==
    /\ Running
    /\ IF Skipping THEN UNCHANGED <<cur, outer, macros, status>> ELSE Diagnosed
    /\ CError

\* Mutation: a directive of unknown name is refused in a skipped group too.
BugUnknown(standard) == Running /\ Diagnosed /\ CUnknown(standard)

\* A directive with a name the program does not have: one of C's, #pragma or
\* #line, or one of nobody's.
HandleUnknown(standard) ==
    /\ Running
    /\ IF Skipping THEN UNCHANGED <<cur, outer, macros, status>> ELSE Diagnosed
    /\ CUnknown(standard)

\* A directive C takes in a form the program does not: #include<h> or #elif(e)
\* without a blank, and in a skipped group # 1.  Nobody asks whether lines are
\* being skipped.
HandleForm == Running /\ Diagnosed /\ CForm

\* #include; files are interchangeable, any line may follow.
HandleInclude ==
    /\ Running /\ ~Skipping /\ Len(outer) < MaxFiles
    /\ outer' = Append(outer, [iter |-> cur, groups |-> groups])
    /\ cur' = NewIterator
    /\ groups' = <<>>
    /\ UNCHANGED <<macros, status, meaning, fault, foreign>>

\* Mutation: the end of a file is checked for kept groups only.
BugClosed == cur.inc = 0

Closed == cur.inc = 0 /\ cur.skip = 0

\* The end of a file, in tacc_tok_iter_peek_handle_directives.
EndOfFile ==
    /\ Running
    /\ fault' = IF Correct /\ groups # <<>> THEN "unbalanced" ELSE fault
    /\ UNCHANGED <<macros, meaning, foreign>>
    /\ IF ~Closed THEN status' = "dead" /\ UNCHANGED <<cur, outer, groups>>
       ELSE IF outer = <<>> THEN status' = "done" /\ UNCHANGED <<cur, outer, groups>>
       ELSE /\ cur' = outer[Len(outer)].iter
            /\ groups' = outer[Len(outer)].groups
            /\ outer' = SubSeq(outer, 1, Len(outer) - 1)
            /\ UNCHANGED status

Next ==
    \/ \E c \in Conditions : HandleIf(c) \/ HandleElif(c)
    \/ \E n \in Names : HandleIfdef(n) \/ HandleIfndef(n) \/ HandleUndef(n)
    \/ \E n \in Names, v \in Values : HandleDefine(n, v)
    \/ HandleElse \/ HandleEndif \/ HandleError \/ HandleForm \/ HandleInclude \/ EndOfFile
    \/ \E standard \in BOOLEAN : HandleUnknown(standard)

Spec == Init /\ [][Next]_vars

-----------------------------------------------------------------------------
(* Properties *)

TypeOK ==
    /\ cur \in Iterator
    /\ outer \in Seq([iter : Iterator, groups : Seq(Group)])
    /\ macros \in [Names -> Entry]
    /\ status \in {"running", "dead", "done"}
    /\ groups \in Seq(Group)
    /\ meaning \in [Names -> Values \cup {Undefined}]
    /\ fault \in {"none", "unbalanced", "after else", "error", "unknown"}
    /\ foreign \in BOOLEAN

\* What the counters and the flag of a file say of its groups: the outermost
\* inc_level groups are on, the next one is off, and what is nested in that can
\* never come on; skip_till_endif tells whether it still can.
Matches(it, gs) ==
    /\ it.inc + it.skip = Len(gs)
    /\ \A k \in 1 .. Len(gs) : gs[k].on <=> k <= it.inc
    /\ \A k \in 1 .. Len(gs) : k # it.inc + 1 => gs[k].past
    /\ it.skip = 0 => ~it.till
    /\ it.skip > 0 => /\ it.till => gs[it.inc + 1].past
                      /\ ~it.till => gs[it.inc + 1].last \/ ~gs[it.inc + 1].past

GroupsMatch ==
    Correct => /\ Matches(cur, groups)
               /\ \A k \in 1 .. Len(outer) :
                     Matches(outer[k].iter, outer[k].groups) /\ outer[k].iter.skip = 0

\* Two counters and a flag are enough: a line is skipped exactly when C skips
\* it, whatever groups are open, nested, past or waiting for an included file.
SkipsWhatCSkips == Correct => (Skipping <=> ~Kept)

\* The table with its tombstones answers for every name what C says, after any
\* order of #define and #undef, in kept and in skipped groups.
DefinesWhatCDefines ==
    Correct => \A n \in Names :
        (IF IsDefined(n) THEN macros[n].value ELSE Undefined) = meaning[n]

\* The program stops with a diagnostic only where the lines are wrong or has no
\* word for what C allows: a directive it does not know (only if the line counts)
\* or a form of one.  The second half is no promise of C, a #pragma is correct.
RejectsOnlyFaults == status = "dead" => ~Correct \/ foreign

\* The program does not get past a fault: it stops at the line, or the end of
\* the file, that has it.  Only an #else or #elif behind an #else goes unnoticed.
NoticesUnbalanced == status # "dead" => fault \in {"none", "after else"}

\* The inductive invariant: the counters match the groups of every open file,
\* the waiting ones included.
IndInv == TypeOK /\ GroupsMatch /\ DefinesWhatCDefines
          /\ RejectsOnlyFaults /\ NoticesUnbalanced
====
