---- MODULE Directives_proofs ----
(***************************************************************************)
(* Proofs about Directives, for every set of names and every depth of      *)
(* groups and files.  The lemmas say of one file what each handler does to *)
(* its counters and its groups; the invariant carries them to the files    *)
(* that wait.                                                              *)
(***************************************************************************)
EXTENDS Directives, SequenceTheorems, TLAPS

\* Sequences as stacks: what a push and a pop leave.
LEMMA Stacks ==
    ASSUME NEW S, NEW s \in Seq(S)
    PROVE  /\ \A e \in S : Append(s, e) \in Seq(S) /\ Append(s, e)[Len(s) + 1] = e
                           /\ Len(Append(s, e)) = Len(s) + 1
                           /\ \A k \in 1 .. Len(s) : Append(s, e)[k] = s[k]
           /\ s # <<>> => /\ s[Len(s)] \in S /\ Len(s) \in 1 .. Len(s)
                          /\ SubSeq(s, 1, Len(s) - 1) \in Seq(S)
                          /\ Len(SubSeq(s, 1, Len(s) - 1)) = Len(s) - 1
                          /\ \A k \in 1 .. Len(s) - 1 : SubSeq(s, 1, Len(s) - 1)[k] = s[k]
<1>1. ASSUME NEW e \in S
      PROVE  Append(s, e) \in Seq(S) /\ Append(s, e)[Len(s) + 1] = e
             /\ Len(Append(s, e)) = Len(s) + 1
             /\ \A k \in 1 .. Len(s) : Append(s, e)[k] = s[k]
  BY AppendProperties
<1>2. ASSUME s # <<>>
      PROVE  /\ s[Len(s)] \in S /\ Len(s) \in 1 .. Len(s)
             /\ SubSeq(s, 1, Len(s) - 1) \in Seq(S)
             /\ Len(SubSeq(s, 1, Len(s) - 1)) = Len(s) - 1
             /\ \A k \in 1 .. Len(s) - 1 : SubSeq(s, 1, Len(s) - 1)[k] = s[k]
  <2>0. PICK n \in Nat : n = Len(s) /\ n > 0
    BY <1>2
  <2>1. s[n] \in S /\ n \in 1 .. n
    BY <2>0
  <2>2. \A k \in 1 .. n - 1 : s[k] \in S
    BY <2>0
  <2>3. n - 1 \in Int /\ 1 \in Int /\ n - 1 - 1 + 1 = n - 1
    OBVIOUS
  <2>4. /\ SubSeq(s, 1, n - 1) \in Seq(S)
        /\ Len(SubSeq(s, 1, n - 1)) = IF 1 <= n - 1 THEN n - 1 ELSE 0
        /\ \A k \in 1 .. n - 1 : SubSeq(s, 1, n - 1)[k] = s[1 + k - 1]
    BY <2>2, <2>3, SubSeqProperties
  <2>5. \A k \in 1 .. n - 1 : 1 + k - 1 = k
    OBVIOUS
  <2>6. (IF 1 <= n - 1 THEN n - 1 ELSE 0) = n - 1
    BY <2>0
  <2> QED BY <2>0, <2>1, <2>4, <2>5, <2>6
<1> QED BY <1>1, <1>2

AllOn(gs) == \A k \in 1 .. Len(gs) : gs[k].on

\* Nothing is skipped exactly when every open group is on.
LEMMA MatchesKept ==
    ASSUME NEW it \in Iterator, NEW gs \in Seq(Group), Matches(it, gs)
    PROVE  AllOn(gs) <=> it.skip = 0
<1>1. /\ it.inc \in Nat /\ it.skip \in Nat /\ Len(gs) \in Nat
      /\ it.inc + it.skip = Len(gs)
      /\ \A k \in 1 .. Len(gs) : gs[k].on <=> k <= it.inc
  BY DEF Matches, Iterator
<1>2. CASE it.skip = 0
  BY <1>1, <1>2 DEF AllOn
<1>3. CASE it.skip # 0
  <2>1. it.inc + 1 \in 1 .. Len(gs) /\ ~(it.inc + 1 <= it.inc)
    BY <1>1, <1>3
  <2> QED BY <1>1, <1>3, <2>1 DEF AllOn
<1> QED BY <1>2, <1>3

\* The groups of a file in which the innermost has become g.
Changing(gs, g) == Append(SubSeq(gs, 1, Len(gs) - 1), g)

LEMMA ChangedGroups ==
    ASSUME NEW gs \in Seq(Group), gs # <<>>, NEW g \in Group
    PROVE  /\ Changing(gs, g) \in Seq(Group)
           /\ Len(Changing(gs, g)) = Len(gs) /\ Len(gs) \in Nat /\ Len(gs) > 0
           /\ Changing(gs, g)[Len(gs)] = g
           /\ \A k \in 1 .. Len(gs) : k # Len(gs) => Changing(gs, g)[k] = gs[k]
<1> DEFINE front == SubSeq(gs, 1, Len(gs) - 1)
<1>1. /\ Len(gs) \in Nat /\ Len(gs) > 0 /\ Len(gs) \in 1 .. Len(gs)
      /\ front \in Seq(Group) /\ Len(front) = Len(gs) - 1
      /\ \A k \in 1 .. Len(gs) - 1 : front[k] = gs[k]
  BY Stacks
<1> HIDE DEF front
<1>2. /\ Append(front, g) \in Seq(Group)
      /\ Len(Append(front, g)) = Len(gs) /\ Append(front, g)[Len(gs)] = g
      /\ \A k \in 1 .. Len(gs) - 1 : Append(front, g)[k] = front[k]
  BY <1>1, Stacks
<1>3. ASSUME NEW k \in 1 .. Len(gs), k # Len(gs) PROVE Append(front, g)[k] = gs[k]
  <2>1. k \in 1 .. Len(gs) - 1
    BY <1>1, <1>3
  <2> QED BY <1>1, <1>2, <2>1
<1> QED BY <1>1, <1>2, <1>3 DEF Changing, front

\* #if opens a group: it is skipped, or counted as included.
LEMMA MatchesOpened ==
    ASSUME NEW it \in Iterator, NEW gs \in Seq(Group), Matches(it, gs),
           NEW b \in BOOLEAN, NEW nit \in Iterator,
           nit = IF it.skip > 0 THEN [it EXCEPT !.skip = @ + 1]
                 ELSE IF b THEN [it EXCEPT !.inc = @ + 1]
                 ELSE [it EXCEPT !.skip = @ + 1],
           NEW g \in Group, g.on <=> it.skip = 0 /\ b, g.past <=> it.skip # 0 \/ b
    PROVE  Matches(nit, Append(gs, g))
<1> DEFINE ng == Append(gs, g)
<1>1. /\ it.inc \in Nat /\ it.skip \in Nat /\ it.till \in BOOLEAN /\ Len(gs) \in Nat
      /\ it.inc + it.skip = Len(gs)
  BY DEF Matches, Iterator
<1>2. /\ g.on <=> it.skip = 0 /\ b
      /\ g.past <=> it.skip # 0 \/ b
  OBVIOUS
<1>3. /\ Len(ng) = Len(gs) + 1 /\ ng[Len(gs) + 1] = g
      /\ \A k \in 1 .. Len(gs) : ng[k] = gs[k]
      /\ \A k \in 1 .. Len(ng) : k \in 1 .. Len(gs) \/ k = Len(gs) + 1
  BY <1>1
<1> HIDE DEF ng
<1>4. ASSUME it.skip > 0 PROVE Matches(nit, ng)
  <2>1. nit.inc = it.inc /\ nit.skip = it.skip + 1 /\ (nit.till <=> it.till)
    BY <1>4 DEF Iterator
  <2>2. it.inc + 1 \in 1 .. Len(gs) /\ ng[it.inc + 1] = gs[it.inc + 1]
    BY <1>1, <1>3, <1>4
  <2>3. nit.inc + nit.skip = Len(ng)
    BY <1>1, <1>3, <2>1
  <2>4. \A k \in 1 .. Len(ng) : ng[k].on <=> k <= nit.inc
    BY <1>1, <1>2, <1>3, <1>4, <2>1 DEF Matches
  <2>5. \A k \in 1 .. Len(ng) : k # nit.inc + 1 => ng[k].past
    BY <1>1, <1>2, <1>3, <1>4, <2>1 DEF Matches
  <2>6. /\ nit.skip > 0 
        /\ nit.till => ng[nit.inc + 1].past
        /\ ~nit.till => ng[nit.inc + 1].last \/ ~ng[nit.inc + 1].past
    BY <1>1, <1>4, <2>1, <2>2 DEF Matches
  <2> QED BY <2>3, <2>4, <2>5, <2>6 DEF Matches
<1>5. ASSUME it.skip = 0 /\ b PROVE Matches(nit, ng)
  <2>1. nit.inc = it.inc + 1 /\ nit.skip = 0 /\ (nit.till <=> it.till)
    BY <1>1, <1>5 DEF Iterator
  <2>3. nit.inc + nit.skip = Len(ng)
    BY <1>1, <1>2, <1>3, <1>5, <2>1
  <2>4. \A k \in 1 .. Len(ng) : ng[k].on <=> k <= nit.inc
    BY <1>1, <1>2, <1>3, <1>5, <2>1 DEF Matches
  <2>5. \A k \in 1 .. Len(ng) : k # nit.inc + 1 => ng[k].past
    BY <1>1, <1>2, <1>3, <1>5, <2>1 DEF Matches
  <2>6. nit.skip = 0 /\ ~nit.till
    BY <1>1, <1>2, <1>3, <1>5, <2>1 DEF Matches
  <2> QED BY <2>1, <2>3, <2>4, <2>5, <2>6 DEF Matches
<1>6. ASSUME it.skip = 0 /\ ~b PROVE Matches(nit, ng)
  <2>1. nit.inc = it.inc /\ nit.skip = 1 /\ (nit.till <=> it.till)
    BY <1>1, <1>6 DEF Iterator
  <2>3. nit.inc + nit.skip = Len(ng)
    BY <1>1, <1>2, <1>3, <1>6, <2>1
  <2>4. \A k \in 1 .. Len(ng) : ng[k].on <=> k <= nit.inc
    BY <1>1, <1>2, <1>3, <1>6, <2>1 DEF Matches
  <2>5. \A k \in 1 .. Len(ng) : k # nit.inc + 1 => ng[k].past
    BY <1>1, <1>2, <1>3, <1>6, <2>1 DEF Matches
  <2>6. nit.skip > 0 /\ ~nit.till /\ ~ng[nit.inc + 1].past
    BY <1>1, <1>2, <1>3, <1>6, <2>1 DEF Matches
  <2> QED BY <2>1, <2>3, <2>4, <2>5, <2>6 DEF Matches
<1> QED BY <1>1, <1>4, <1>5, <1>6 DEF ng

\* #endif closes the innermost group.
LEMMA MatchesClosed ==
    ASSUME NEW it \in Iterator, NEW gs \in Seq(Group), Matches(it, gs), gs # <<>>,
           NEW nit \in Iterator,
           nit = IF it.skip > 0 THEN [it EXCEPT !.skip = @ - 1, !.till = IF it.skip = 1 THEN FALSE ELSE @]
                 ELSE [it EXCEPT !.inc = @ - 1]
    PROVE  Matches(nit, SubSeq(gs, 1, Len(gs) - 1))
<1> DEFINE ng == SubSeq(gs, 1, Len(gs) - 1)
<1>1. /\ it.inc \in Nat /\ it.skip \in Nat /\ it.till \in BOOLEAN
      /\ Len(gs) \in Nat /\ Len(gs) > 0 /\ it.inc + it.skip = Len(gs)
  BY DEF Matches, Iterator
<1>2. /\ Len(ng) = Len(gs) - 1
      /\ \A k \in 1 .. Len(ng) : ng[k] = gs[k] /\ k \in 1 .. Len(gs)
  BY <1>1
<1> HIDE DEF ng
<1>3. ASSUME it.skip > 1 PROVE Matches(nit, ng)
  <2>1. nit.inc = it.inc /\ nit.skip = it.skip - 1 /\ (nit.till <=> it.till)
    BY <1>1, <1>3 DEF Iterator
  <2>2. it.inc + 1 \in 1 .. Len(ng)
    BY <1>1, <1>2, <1>3
  <2>3. nit.inc + nit.skip = Len(ng)
    BY <1>1, <1>2, <1>3, <2>1, <2>2, SMTT(30) DEF Matches
  <2>4. \A k \in 1 .. Len(ng) : ng[k].on <=> k <= nit.inc
    BY <1>1, <1>2, <1>3, <2>1, <2>2 DEF Matches
  <2>5. \A k \in 1 .. Len(ng) : k # nit.inc + 1 => ng[k].past
    BY <1>1, <1>2, <1>3, <2>1, <2>2 DEF Matches
  <2>6. nit.skip = 0 => ~nit.till
    BY <1>1, <1>2, <1>3, <2>1, <2>2 DEF Matches
  <2>7. nit.skip > 0 => /\ nit.till => ng[nit.inc + 1].past
                        /\ ~nit.till => ng[nit.inc + 1].last \/ ~ng[nit.inc + 1].past
    BY <1>1, <1>2, <1>3, <2>1, <2>2 DEF Matches
  <2> QED BY <2>3, <2>4, <2>5, <2>6, <2>7 DEF Matches
<1>4. ASSUME it.skip = 1 PROVE Matches(nit, ng)
  <2>1. nit.inc = it.inc /\ nit.skip = 0 /\ ~nit.till
    BY <1>1, <1>4 DEF Iterator
  <2> QED BY <1>1, <1>2, <1>4, <2>1 DEF Matches
<1>5. ASSUME it.skip = 0 PROVE Matches(nit, ng)
  <2>1. nit.inc = it.inc - 1 /\ nit.skip = 0 /\ (nit.till <=> it.till)
    BY <1>1, <1>5 DEF Iterator
  <2>3. nit.inc + nit.skip = Len(ng)
    BY <1>1, <1>2, <1>5, <2>1 DEF Matches
  <2>4. \A k \in 1 .. Len(ng) : ng[k].on <=> k <= nit.inc
    BY <1>1, <1>2, <1>5, <2>1 DEF Matches
  <2>5. \A k \in 1 .. Len(ng) : k # nit.inc + 1 => ng[k].past
    BY <1>1, <1>2, <1>5, <2>1 DEF Matches
  <2>6. nit.skip = 0 => ~nit.till
    BY <1>1, <1>2, <1>5, <2>1 DEF Matches
  <2>7. nit.skip > 0 => /\ nit.till => ng[nit.inc + 1].past
                        /\ ~nit.till => ng[nit.inc + 1].last \/ ~ng[nit.inc + 1].past
    BY <1>1, <1>2, <1>5, <2>1 DEF Matches
  <2> QED BY <2>3, <2>4, <2>5, <2>6, <2>7 DEF Matches
<1> QED BY <1>1, <1>3, <1>4, <1>5 DEF ng

\* #elif and #else behind the part that was kept, or where none can be: the
\* innermost group has no further part.
LEMMA MatchesPast ==
    ASSUME NEW it \in Iterator, NEW gs \in Seq(Group), Matches(it, gs), gs # <<>>,
           it.till \/ it.skip > 1,
           NEW g \in Group, ~gs[Len(gs)].past \/ (~g.on /\ g.past)
    PROVE  Matches(it, Changing(gs, g))
<1> DEFINE ng == Changing(gs, g)
<1>1. /\ it.inc \in Nat /\ it.skip \in Nat /\ it.till \in BOOLEAN
      /\ Len(gs) \in Nat /\ Len(gs) > 0 /\ it.inc + it.skip = Len(gs)
      /\ it.skip > 0
  BY DEF Matches, Iterator
<1>2. /\ Len(ng) = Len(gs) /\ ng[Len(gs)] = g
      /\ \A k \in 1 .. Len(gs) : k # Len(gs) => ng[k] = gs[k]
  BY ChangedGroups
<1> HIDE DEF ng
<1>3. gs[Len(gs)].past /\ ~g.on /\ g.past
  <2>1. CASE it.skip > 1
    BY <1>1, <2>1 DEF Matches
  <2>2. CASE it.skip = 1
    <3>1. Len(gs) = it.inc + 1 /\ it.till
      BY <1>1, <2>2
    <3> QED BY <1>1, <2>2, <3>1 DEF Matches
  <2> QED BY <1>1, <2>1, <2>2
<1>4. ASSUME it.skip > 1 PROVE Matches(it, ng)
  <2>1. it.inc + 1 \in 1 .. Len(gs) /\ it.inc + 1 # Len(gs)
    BY <1>1, <1>4
  <2>3. it.inc + it.skip = Len(ng)
    BY <1>1, <1>2, <1>3, <1>4, <2>1 DEF Matches
  <2>4. \A k \in 1 .. Len(ng) : ng[k].on <=> k <= it.inc
    BY <1>1, <1>2, <1>3, <1>4, <2>1 DEF Matches
  <2>5. \A k \in 1 .. Len(ng) : k # it.inc + 1 => ng[k].past
    BY <1>1, <1>2, <1>3, <1>4, <2>1 DEF Matches
  <2>6. it.skip = 0 => ~it.till
    BY <1>1, <1>2, <1>3, <1>4, <2>1 DEF Matches
  <2>7. it.skip > 0 => /\ it.till => ng[it.inc + 1].past
                       /\ ~it.till => ng[it.inc + 1].last \/ ~ng[it.inc + 1].past
    BY <1>1, <1>2, <1>3, <1>4, <2>1 DEF Matches
  <2> QED BY <2>3, <2>4, <2>5, <2>6, <2>7 DEF Matches
<1>5. ASSUME it.skip = 1 PROVE Matches(it, ng)
  <2>1. Len(gs) = it.inc + 1 /\ it.till
    BY <1>1, <1>5
  <2>3. it.inc + it.skip = Len(ng)
    BY <1>1, <1>2, <1>3, <1>5, <2>1 DEF Matches
  <2>4. \A k \in 1 .. Len(ng) : ng[k].on <=> k <= it.inc
    BY <1>1, <1>2, <1>3, <1>5, <2>1 DEF Matches
  <2>5. \A k \in 1 .. Len(ng) : k # it.inc + 1 => ng[k].past
    BY <1>1, <1>2, <1>3, <1>5, <2>1 DEF Matches
  <2>6. it.skip = 0 => ~it.till
    BY <1>1, <1>2, <1>3, <1>5, <2>1 DEF Matches
  <2>7. it.skip > 0 => /\ it.till => ng[it.inc + 1].past
                       /\ ~it.till => ng[it.inc + 1].last \/ ~ng[it.inc + 1].past
    BY <1>1, <1>2, <1>3, <1>5, <2>1 DEF Matches
  <2> QED BY <2>3, <2>4, <2>5, <2>6, <2>7 DEF Matches
<1> QED BY <1>1, <1>4, <1>5 DEF ng

\* #elif and #else end the part that was kept.
LEMMA MatchesStopped ==
    ASSUME NEW it \in Iterator, NEW gs \in Seq(Group), Matches(it, gs), gs # <<>>,
           it.skip = 0, NEW nit \in Iterator,
           nit.skip = 1, nit.inc = it.inc - 1,
           NEW g \in Group, ~g.on, g.past, nit.till \/ g.last
    PROVE  Matches(nit, Changing(gs, g))
<1> DEFINE ng == Changing(gs, g)
<1>0. PICK n \in Nat : n = Len(gs)
  OBVIOUS
<1>1. /\ it.inc = n /\ nit.inc = n - 1 /\ n > 0 /\ nit.inc + 1 = n
      /\ nit.skip = 1 /\ (nit.till \/ g.last) /\ ~g.on /\ g.past
  BY <1>0 DEF Matches, Iterator
<1>2. /\ Len(ng) = n /\ ng[n] = g
      /\ \A k \in 1 .. n : k # n => ng[k] = gs[k]
  BY <1>0, ChangedGroups, SMTT(30)
<1> HIDE DEF ng
<1>3. Matches(nit, ng)
  <2>1. ASSUME NEW k \in 1 .. n, k # n
        PROVE  gs[k].on /\ gs[k].past /\ ng[k] = gs[k] /\ k <= nit.inc
    <3>1. k <= it.inc /\ k # it.inc + 1 /\ k <= nit.inc
      BY <1>1, <2>1
    <3>2. gs[k].on /\ gs[k].past
      BY <1>0, <3>1 DEF Matches
    <3> QED BY <1>2, <2>1, <3>1, <3>2
  <2>3. nit.inc + nit.skip = Len(ng)
    BY <1>1, <1>2
  <2>4. \A k \in 1 .. Len(ng) : ng[k].on <=> k <= nit.inc
    <3>1. ASSUME NEW k \in 1 .. n PROVE ng[k].on <=> k <= nit.inc
      <4>1. CASE k = n
        BY <1>1, <1>2, <4>1
      <4>2. CASE k # n
        BY <2>1, <4>2
      <4> QED BY <4>1, <4>2
    <3> QED BY <1>2, <3>1
  <2>5. \A k \in 1 .. Len(ng) : k # nit.inc + 1 => ng[k].past
    BY <1>1, <1>2, <2>1
  <2>6. /\ nit.skip > 0
        /\ nit.till => ng[nit.inc + 1].past
        /\ ~nit.till => ng[nit.inc + 1].last
    BY <1>1, <1>2
  <2> QED BY <2>3, <2>4, <2>5, <2>6 DEF Matches
<1> QED BY <1>3 DEF ng

\* #elif and #else of a group none of whose parts was kept: this one is, or not.
LEMMA MatchesChosen ==
    ASSUME NEW it \in Iterator, NEW gs \in Seq(Group), Matches(it, gs), gs # <<>>,
           it.skip = 1, ~it.till, NEW b \in BOOLEAN, NEW nit \in Iterator,
           nit = IF b THEN [it EXCEPT !.skip = 0, !.inc = @ + 1] ELSE it,
           NEW g \in Group, g.on <=> b, g.past <=> b
    PROVE  Matches(nit, Changing(gs, g))
<1> DEFINE ng == Changing(gs, g)
<1>1. /\ it.inc \in Nat /\ it.skip \in Nat /\ Len(gs) \in Nat /\ Len(gs) > 0
      /\ Len(gs) = it.inc + 1
  BY DEF Matches, Iterator
<1>2. /\ Len(ng) = Len(gs) /\ ng[Len(gs)] = g
      /\ \A k \in 1 .. Len(gs) : k # Len(gs) => ng[k] = gs[k]
  BY ChangedGroups
<1> HIDE DEF ng
<1>3. ASSUME b PROVE Matches(nit, ng)
  <2>1. nit.skip = 0 /\ nit.inc = it.inc + 1 /\ (nit.till <=> it.till)
    BY <1>3 DEF Iterator
  <2>3. nit.inc + nit.skip = Len(ng)
    BY <1>1, <1>2, <1>3, <2>1
  <2>4. \A k \in 1 .. Len(ng) : ng[k].on <=> k <= nit.inc
    BY <1>1, <1>2, <1>3, <2>1 DEF Matches
  <2>5. \A k \in 1 .. Len(ng) : k # nit.inc + 1 => ng[k].past
    BY <1>1, <1>2, <1>3, <2>1 DEF Matches
  <2>6. nit.skip = 0 /\ ~nit.till
    BY <1>1, <1>2, <1>3, <2>1 DEF Matches
  <2> QED BY <2>1, <2>3, <2>4, <2>5, <2>6 DEF Matches
<1>4. ASSUME ~b PROVE Matches(nit, ng)
  <2>1. nit = it
    BY <1>4
  <2> QED BY <1>1, <1>2, <1>4, <2>1 DEF Matches
<1> QED BY <1>3, <1>4 DEF ng

-----------------------------------------------------------------------------
(* Types *)

LEMMA TypeInit == Init => TypeOK
<1> SUFFICES ASSUME Init PROVE TypeOK
  OBVIOUS
<1>1. NewIterator \in Iterator /\ Absent \in Entry
  BY DEF NewIterator, Iterator, Absent, Entry, Values
<1>2. cur \in Iterator /\ macros \in [Names -> Entry]
  BY <1>1 DEF Init
<1>3. outer \in Seq([iter : Iterator, groups : Seq(Group)]) /\ groups \in Seq(Group)
  BY DEF Init
<1>4. meaning \in [Names -> Values \cup {Undefined}]
  BY DEF Init
<1>5. status = "running" /\ fault = "none" /\ foreign = FALSE
  BY DEF Init
<1> QED BY <1>2, <1>3, <1>4, <1>5 DEF TypeOK

\* What C says of a line keeps the types of the groups, meanings and faults.
CTypeOK == /\ groups \in Seq(Group)
           /\ meaning \in [Names -> Values \cup {Undefined}]
           /\ fault \in {"none", "unbalanced", "after else", "error", "unknown"}
           /\ foreign \in BOOLEAN

LEMMA CTypes ==
    ASSUME CTypeOK,
           \/ \E b \in BOOLEAN : COpen(b) \/ CElif(b)
           \/ CElse \/ CEndif \/ CError \/ CForm
           \/ \E standard \in BOOLEAN : CUnknown(standard)
           \/ \E n \in Names, v \in Values \cup {Undefined} : CDefine(n, v)
    PROVE  CTypeOK'
<1> USE DEF CTypeOK
<1>1. ASSUME NEW b \in BOOLEAN, COpen(b) PROVE CTypeOK'
  <2>1. Opened(b) \in Group
    BY DEF Opened, Kept, Group
  <2>2. Append(groups, Opened(b)) \in Seq(Group)
    BY <2>1, Stacks
  <2> QED BY <1>1, <2>2 DEF COpen, Means, cVars, NoMacroChange
<1>2. ASSUME NEW g \in Group, Changed(g), groups # <<>> PROVE groups' \in Seq(Group)
  BY <1>2, ChangedGroups DEF Changed, Around, Changing
<1>3. ASSUME NEW b \in BOOLEAN, CElif(b) PROVE CTypeOK'
  <2>1. ASSUME groups # <<>>
        PROVE  [on |-> ~Inner.past /\ b, past |-> Inner.past \/ b, last |-> FALSE] \in Group
    BY DEF Group
  <2> QED BY <1>2, <1>3, <2>1 DEF CElif, Means, cVars, NoMacroChange, Fault
<1>4. ASSUME CElse PROVE CTypeOK'
  <2>1. [on |-> ~Inner.past, past |-> TRUE, last |-> TRUE] \in Group
    BY DEF Group
  <2> QED BY <1>2, <1>4, <2>1 DEF CElse, Means, cVars, NoMacroChange, Fault
<1>5. ASSUME CEndif PROVE CTypeOK'
  <2>1. ASSUME groups # <<>> PROVE Around \in Seq(Group)
    BY <2>1, Stacks DEF Around
  <2> QED BY <1>5, <2>1 DEF CEndif, Means, cVars, NoMacroChange, Fault
<1>6. ASSUME CError PROVE CTypeOK'
  BY <1>6 DEF CError, Means, cVars, Fault
<1>7. ASSUME NEW n \in Names, NEW v \in Values \cup {Undefined}, CDefine(n, v) PROVE CTypeOK'
  BY <1>7 DEF CDefine, Means, cVars
<1>8. ASSUME NEW standard \in BOOLEAN, CForm \/ CUnknown(standard) PROVE CTypeOK'
  BY <1>8 DEF CForm, CUnknown, Means, cVars, Fault, Foreign
<1> QED BY <1>1, <1>3, <1>4, <1>5, <1>6, <1>7, <1>8

LEMMA Truths ==
    ASSUME TypeOK, NEW c \in Conditions
    PROVE  Evaluated(c) \in BOOLEAN /\ True(c) \in BOOLEAN
BY DEF Evaluated, True, IsDefined

\* What the handlers make of an iterator.
LEMMA Iterators ==
    ASSUME NEW it \in Iterator
    PROVE  /\ it.skip \in Nat /\ it.inc \in Nat /\ it.till \in BOOLEAN
           /\ [it EXCEPT !.skip = @ + 1] \in Iterator
           /\ [it EXCEPT !.inc = @ + 1] \in Iterator
           /\ [it EXCEPT !.skip = 0, !.inc = @ + 1] \in Iterator
           /\ it.inc > 0 =>
                 /\ [it EXCEPT !.inc = @ - 1] \in Iterator
                 /\ [it EXCEPT !.inc = @ - 1, !.skip = @ + 1] \in Iterator
                 /\ [it EXCEPT !.skip = 1, !.inc = @ - 1, !.till = TRUE] \in Iterator
           /\ it.skip > 0 =>
                 [it EXCEPT !.skip = @ - 1, !.till = IF it.skip = 1 THEN FALSE ELSE @] \in Iterator
<1>0. /\ it.skip \in Nat /\ it.inc \in Nat /\ it.till \in BOOLEAN
      /\ it.inc + 1 \in Nat /\ it.skip + 1 \in Nat
      /\ it.inc > 0 => it.inc - 1 \in Nat
      /\ it.skip > 0 => it.skip - 1 \in Nat
  BY DEF Iterator
<1>1. ASSUME NEW it1 \in Iterator, NEW s \in Nat, NEW i \in Nat, NEW t \in BOOLEAN
      PROVE  /\ [it1 EXCEPT !.skip = s] \in Iterator
             /\ [it1 EXCEPT !.inc = i] \in Iterator
             /\ [it1 EXCEPT !.till = t] \in Iterator
             /\ [it1 EXCEPT !.skip = s].inc = it1.inc
             /\ [it1 EXCEPT !.skip = s].till = it1.till
             /\ [it1 EXCEPT !.inc = i].skip = it1.skip
  BY DEF Iterator
<1>2. [it EXCEPT !.skip = @ + 1] \in Iterator /\ [it EXCEPT !.inc = @ + 1] \in Iterator
  BY <1>0, <1>1
<1>3. [it EXCEPT !.skip = 0, !.inc = @ + 1] \in Iterator
  BY <1>0, <1>1
<1>4. ASSUME it.inc > 0
      PROVE  /\ [it EXCEPT !.inc = @ - 1] \in Iterator
             /\ [it EXCEPT !.inc = @ - 1, !.skip = @ + 1] \in Iterator
             /\ [it EXCEPT !.skip = 1, !.inc = @ - 1, !.till = TRUE] \in Iterator
  <2>1. [it EXCEPT !.inc = @ - 1] \in Iterator
    BY <1>0, <1>1, <1>4
  <2>2. [it EXCEPT !.inc = @ - 1, !.skip = @ + 1] \in Iterator
    BY <1>0, <1>1, <1>4, <2>1
  <2>3. [it EXCEPT !.skip = 1, !.inc = @ - 1] \in Iterator
    BY <1>0, <1>1, <1>4
  <2> QED BY <1>1, <2>1, <2>2, <2>3
<1>5. ASSUME it.skip > 0
      PROVE  [it EXCEPT !.skip = @ - 1, !.till = IF it.skip = 1 THEN FALSE ELSE @] \in Iterator
  <2>1. [it EXCEPT !.skip = @ - 1] \in Iterator
    BY <1>0, <1>1, <1>5
  <2>2. (IF it.skip = 1 THEN FALSE ELSE it.till) \in BOOLEAN
    BY <1>0
  <2> QED BY <1>1, <2>1, <2>2
<1> QED BY <1>0, <1>2, <1>3, <1>4, <1>5

LEMMA TypeStep == TypeOK /\ [Next]_vars => TypeOK'
<1> SUFFICES ASSUME TypeOK, [Next]_vars PROVE TypeOK'
  OBVIOUS
<1>c. TypeOK <=> /\ CTypeOK
                 /\ cur \in Iterator
                 /\ outer \in Seq([iter : Iterator, groups : Seq(Group)])
                 /\ macros \in [Names -> Entry]
                 /\ status \in {"running", "dead", "done"}
  BY DEF TypeOK, CTypeOK
<1>d. CTypeOK' /\ cur' \in Iterator
      /\ outer' \in Seq([iter : Iterator, groups : Seq(Group)])
      /\ macros' \in [Names -> Entry]
      /\ status' \in {"running", "dead", "done"} => TypeOK'
  BY DEF TypeOK, CTypeOK
<1>o. ASSUME NEW b \in BOOLEAN, Opens(b) PROVE cur' \in Iterator
  BY <1>c, <1>o, Iterators DEF Opens, Skipping
<1>1. ASSUME NEW c \in Conditions, HandleIf(c) PROVE TypeOK'
  <2>1. CTypeOK' BY <1>c, <1>1, CTypes, Truths DEF HandleIf
  <2>2. cur' \in Iterator BY <1>1, <1>o, Truths DEF HandleIf
  <2> QED BY <1>c, <1>d, <1>1, <2>1, <2>2 DEF HandleIf, Continue
<1>2. ASSUME NEW c \in Conditions, HandleElif(c) PROVE TypeOK'
  <2>1. CTypeOK' BY <1>c, <1>2, CTypes, Truths DEF HandleElif
  <2>2. cur' \in Iterator BY <1>c, <1>2, Iterators DEF HandleElif, Diagnosed, ElifStops
  <2> QED BY <1>c, <1>d, <1>2, <2>1, <2>2 DEF HandleElif, Continue, Diagnosed
<1>3. ASSUME NEW n \in Names, HandleIfdef(n) PROVE TypeOK'
  <2>1. CTypeOK' BY <1>c, <1>3, CTypes DEF HandleIfdef
  <2>2. cur' \in Iterator BY <1>3, <1>o DEF HandleIfdef, IsDefined
  <2> QED BY <1>c, <1>d, <1>3, <2>1, <2>2 DEF HandleIfdef, Continue
<1>4. ASSUME NEW n \in Names, HandleIfndef(n) PROVE TypeOK'
  <2>1. CTypeOK' BY <1>c, <1>4, CTypes DEF HandleIfndef
  <2>2. cur' \in Iterator BY <1>4, <1>o DEF HandleIfndef, IsDefined
  <2> QED BY <1>c, <1>d, <1>4, <2>1, <2>2 DEF HandleIfndef, Continue
<1>5. ASSUME NEW n \in Names, HandleUndef(n) PROVE TypeOK'
  <2>1. CTypeOK' BY <1>c, <1>5, CTypes DEF HandleUndef
  <2>2. Buried(n) \in Entry BY <1>c DEF Buried, Entry
  <2> QED BY <1>c, <1>d, <1>5, <2>1, <2>2 DEF HandleUndef
<1>6. ASSUME NEW n \in Names, NEW v \in Values, HandleDefine(n, v) PROVE TypeOK'
  <2>1. CTypeOK' BY <1>c, <1>6, CTypes DEF HandleDefine
  <2>2. Inserted(n, v) \in Entry BY DEF Inserted, Entry
  <2> QED BY <1>c, <1>d, <1>6, <2>1, <2>2 DEF HandleDefine
<1>7. ASSUME HandleElse PROVE TypeOK'
  <2>1. CTypeOK' BY <1>c, <1>7, CTypes DEF HandleElse
  <2>2. cur' \in Iterator BY <1>c, <1>7, Iterators DEF HandleElse, Diagnosed, ElseKeeps
  <2> QED BY <1>c, <1>d, <1>7, <2>1, <2>2 DEF HandleElse, Continue, Diagnosed
<1>8. ASSUME HandleEndif PROVE TypeOK'
  <2>1. CTypeOK' BY <1>c, <1>8, CTypes DEF HandleEndif
  <2>2. cur' \in Iterator BY <1>c, <1>8, Iterators DEF HandleEndif, Diagnosed, Skipping
  <2> QED BY <1>c, <1>d, <1>8, <2>1, <2>2 DEF HandleEndif, Continue, Diagnosed
<1>9. ASSUME HandleError PROVE TypeOK'
  <2>1. CTypeOK' BY <1>c, <1>9, CTypes DEF HandleError
  <2> QED BY <1>c, <1>d, <1>9, <2>1 DEF HandleError, Diagnosed
<1>13. ASSUME NEW standard \in BOOLEAN, HandleUnknown(standard) PROVE TypeOK'
  <2>1. CTypeOK' BY <1>c, <1>13, CTypes DEF HandleUnknown
  <2> QED BY <1>c, <1>d, <1>13, <2>1 DEF HandleUnknown, Diagnosed
<1>14. ASSUME HandleForm PROVE TypeOK'
  <2>1. CTypeOK' BY <1>c, <1>14, CTypes DEF HandleForm
  <2> QED BY <1>c, <1>d, <1>14, <2>1 DEF HandleForm, Diagnosed
<1>10. ASSUME HandleInclude PROVE TypeOK'
  <2>1. [iter |-> cur, groups |-> groups] \in [iter : Iterator, groups : Seq(Group)]
    BY <1>c DEF CTypeOK
  <2>2. NewIterator \in Iterator BY DEF NewIterator, Iterator
  <2>3. Append(outer, [iter |-> cur, groups |-> groups])
           \in Seq([iter : Iterator, groups : Seq(Group)])
    BY <1>c, <2>1, Stacks
  <2>4. <<>> \in Seq(Group)
    OBVIOUS
  <2> QED BY <1>c, <1>d, <1>10, <2>2, <2>3, <2>4 DEF HandleInclude, CTypeOK
<1>11. ASSUME EndOfFile PROVE TypeOK'
  <2>1. fault' \in {"none", "unbalanced", "after else", "error", "unknown"}
        /\ meaning' = meaning /\ foreign' = foreign /\ macros' = macros
    BY <1>c, <1>11 DEF EndOfFile, CTypeOK
  <2>2. CASE ~Closed \/ outer = <<>>
    BY <1>c, <1>d, <1>11, <2>1, <2>2 DEF EndOfFile, CTypeOK
  <2>3. CASE Closed /\ outer # <<>>
    <3>1. /\ cur' = outer[Len(outer)].iter /\ groups' = outer[Len(outer)].groups
          /\ outer' = SubSeq(outer, 1, Len(outer) - 1) /\ status' = status
      BY <1>11, <2>3 DEF EndOfFile
    <3>2. outer[Len(outer)] \in [iter : Iterator, groups : Seq(Group)]
          /\ outer' \in Seq([iter : Iterator, groups : Seq(Group)])
      BY <1>c, <2>3, <3>1, Stacks
    <3> QED BY <1>c, <1>d, <2>1, <3>1, <3>2 DEF CTypeOK
  <2> QED BY <2>2, <2>3
<1>12. ASSUME UNCHANGED vars PROVE TypeOK'
  BY <1>12 DEF vars, cVars, TypeOK
<1> QED BY <1>1, <1>2, <1>3, <1>4, <1>5, <1>6, <1>7, <1>8, <1>9, <1>10, <1>11, <1>12,
          <1>13, <1>14 DEF Next

-----------------------------------------------------------------------------
(* The invariant *)

LEMMA InitInv == Init => IndInv
<1> SUFFICES ASSUME Init PROVE IndInv
  OBVIOUS
<1>1. TypeOK
  BY TypeInit
<1>2. GroupsMatch
  BY DEF Init, GroupsMatch, Matches, NewIterator
<1>3. DefinesWhatCDefines
  BY DEF Init, DefinesWhatCDefines, IsDefined, Absent
<1>4. RejectsOnlyFaults /\ NoticesUnbalanced
  BY DEF Init, RejectsOnlyFaults, NoticesUnbalanced
<1> QED BY <1>1, <1>2, <1>3, <1>4 DEF IndInv

LEMMA MatchesSkips ==
    ASSUME TypeOK, GroupsMatch PROVE SkipsWhatCSkips
<1>1. cur \in Iterator /\ groups \in Seq(Group) /\ cur.skip \in Nat
  BY DEF TypeOK, Iterator
<1>2. ASSUME Correct PROVE AllOn(groups) <=> cur.skip = 0
  BY <1>1, <1>2, MatchesKept DEF GroupsMatch
<1> QED BY <1>1, <1>2 DEF SkipsWhatCSkips, Skipping, Kept, AllOn

\* A program with a fault stays one.
LEMMA FaultStays == [Next]_vars => (Correct' => Correct)
<1> USE DEF Correct
<1>1. ASSUME NEW c \in Conditions, HandleIf(c) \/ HandleElif(c) PROVE Correct' => Correct
  BY <1>1 DEF HandleIf, HandleElif, COpen, CElif, Means, cVars
<1>2. ASSUME NEW n \in Names, HandleIfdef(n) \/ HandleIfndef(n) \/ HandleUndef(n)
      PROVE  Correct' => Correct
  BY <1>2 DEF HandleIfdef, HandleIfndef, HandleUndef, COpen, CDefine, Means, cVars
<1>3. ASSUME NEW n \in Names, NEW v \in Values, HandleDefine(n, v) PROVE Correct' => Correct
  BY <1>3 DEF HandleDefine, CDefine, Means, cVars
<1>4. ASSUME HandleElse \/ HandleEndif \/ HandleError \/ HandleInclude \/ EndOfFile
      PROVE  Correct' => Correct
  BY <1>4 DEF HandleElse, HandleEndif, HandleError, HandleInclude, EndOfFile,
              CElse, CEndif, CError, Means, cVars
<1>5. ASSUME UNCHANGED vars PROVE Correct' => Correct
  BY <1>5 DEF vars, cVars
<1>6. ASSUME NEW standard \in BOOLEAN, HandleUnknown(standard) \/ HandleForm
      PROVE  Correct' => Correct
  BY <1>6 DEF HandleUnknown, HandleForm, CUnknown, CForm, Means, cVars
<1> QED BY <1>1, <1>2, <1>3, <1>4, <1>5, <1>6 DEF Next

\* A condition has the value it has in C.
LEMMA SameValue ==
    ASSUME TypeOK, DefinesWhatCDefines, Correct
    PROVE  /\ \A n \in Names : IsDefined(n) <=> meaning[n] # Undefined
           /\ \A c \in Conditions : Evaluated(c) <=> True(c)
<1>1. ASSUME NEW n \in Names
      PROVE  /\ IsDefined(n) <=> meaning[n] # Undefined
             /\ IsDefined(n) /\ macros[n].value = 1 <=> meaning[n] = 1
  <2>0. macros \in [Names -> Entry]
    BY DEF TypeOK
  <2>1. macros[n].value \in Values /\ 0 # Undefined /\ 1 # Undefined
    BY <2>0 DEF Entry, Undefined, Values
  <2>2. (IF IsDefined(n) THEN macros[n].value ELSE Undefined) = meaning[n]
    BY DEF DefinesWhatCDefines
  <2>3. CASE IsDefined(n)
    BY <2>1, <2>2, <2>3 DEF Values, Undefined
  <2>4. CASE ~IsDefined(n)
    BY <2>1, <2>2, <2>4
  <2> QED BY <2>3, <2>4
<1>2. ASSUME NEW c \in Conditions PROVE Evaluated(c) <=> True(c)
  <2>1. CASE c.kind = "value"
    BY <2>1 DEF Evaluated, True
  <2>2. CASE c.kind = "name"
    <3>1. c.of \in Names
      BY <2>2 DEF Conditions
    <3> QED BY <1>1, <2>2, <3>1 DEF Evaluated, True
  <2>3. CASE c.kind = "defined"
    <3>1. c.of \in Names
      BY <2>3 DEF Conditions
    <3> QED BY <1>1, <2>3, <3>1 DEF Evaluated, True
  <2>4. CASE c.kind = "not defined"
    <3>1. c.of \in Names
      BY <2>4 DEF Conditions
    <3> QED BY <1>1, <2>4, <3>1 DEF Evaluated, True
  <2> QED BY <2>1, <2>2, <2>3, <2>4 DEF Conditions
<1> QED BY <1>1, <1>2

\* #define and #undef change the table where C changes the meaning, and nothing
\* else changes either.
LEMMA DefinesStep ==
    ASSUME TypeOK, SkipsWhatCSkips, DefinesWhatCDefines, [Next]_vars
    PROVE  DefinesWhatCDefines'
<1> SUFFICES ASSUME Correct', NEW n \in Names
             PROVE  (IF IsDefined(n)' THEN macros'[n].value ELSE Undefined) = meaning'[n]
  BY DEF DefinesWhatCDefines
<1>1. Correct /\ (Skipping <=> ~Kept)
  BY FaultStays DEF SkipsWhatCSkips
<1>2. (IF IsDefined(n) THEN macros[n].value ELSE Undefined) = meaning[n]
  BY <1>1 DEF DefinesWhatCDefines
<1>3. macros \in [Names -> Entry] /\ meaning \in [Names -> Values \cup {Undefined}]
  BY DEF TypeOK
<1>4. ASSUME UNCHANGED <<macros, meaning>>
      PROVE  (IF IsDefined(n)' THEN macros'[n].value ELSE Undefined) = meaning'[n]
  BY <1>2, <1>4 DEF IsDefined
<1>5. ASSUME NEW c \in Conditions, HandleIf(c) \/ HandleElif(c)
      PROVE  UNCHANGED <<macros, meaning>>
  BY <1>1, <1>5 DEF HandleIf, HandleElif, Continue, Diagnosed, COpen, CElif, Means,
                    NoMacroChange, Fault
<1>6. ASSUME NEW m \in Names, HandleIfdef(m) \/ HandleIfndef(m)
      PROVE  UNCHANGED <<macros, meaning>>
  BY <1>1, <1>6 DEF HandleIfdef, HandleIfndef, Continue, COpen, Means, NoMacroChange
<1>7. ASSUME HandleElse \/ HandleEndif \/ HandleError \/ HandleInclude \/ EndOfFile
      PROVE  UNCHANGED <<macros, meaning>>
  BY <1>1, <1>7 DEF HandleElse, HandleEndif, HandleError, HandleInclude, EndOfFile,
                    Continue, Diagnosed, CElse, CEndif, CError, Means, cVars,
                    NoMacroChange, Fault
<1>8. ASSUME NEW m \in Names, HandleUndef(m)
      PROVE  (IF IsDefined(n)' THEN macros'[n].value ELSE Undefined) = meaning'[n]
  <2>1. CASE Skipping
    BY <1>1, <1>4, <1>8, <2>1 DEF HandleUndef, CDefine, Means
  <2>2. CASE ~Skipping
    <3>1. /\ macros' = [macros EXCEPT ![m] = Buried(m)]
          /\ meaning' = [meaning EXCEPT ![m] = Undefined]
      BY <1>1, <1>8, <2>2 DEF HandleUndef, CDefine, Means
    <3>2. Buried(m).is # "defined"
      BY <1>3 DEF Buried, Entry
    <3>3. CASE n = m
      BY <1>3, <3>1, <3>2, <3>3 DEF IsDefined
    <3>4. CASE n # m
      BY <1>2, <1>3, <3>1, <3>4 DEF IsDefined
    <3> QED BY <3>3, <3>4
  <2> QED BY <2>1, <2>2
<1>9. ASSUME NEW m \in Names, NEW v \in Values, HandleDefine(m, v)
      PROVE  (IF IsDefined(n)' THEN macros'[n].value ELSE Undefined) = meaning'[n]
  <2>1. CASE Skipping
    BY <1>1, <1>4, <1>9, <2>1 DEF HandleDefine, CDefine, Means
  <2>2. CASE ~Skipping
    <3>1. /\ macros' = [macros EXCEPT ![m] = Inserted(m, v)]
          /\ meaning' = [meaning EXCEPT ![m] = v]
      BY <1>1, <1>9, <2>2 DEF HandleDefine, CDefine, Means
    <3>2. Inserted(m, v).is = "defined" /\ Inserted(m, v).value = v
      BY DEF Inserted
    <3>3. CASE n = m
      BY <1>3, <3>1, <3>2, <3>3 DEF IsDefined
    <3>4. CASE n # m
      BY <1>2, <1>3, <3>1, <3>4 DEF IsDefined
    <3> QED BY <3>3, <3>4
  <2> QED BY <2>1, <2>2
<1>10. ASSUME UNCHANGED vars PROVE UNCHANGED <<macros, meaning>>
  BY <1>10 DEF vars, cVars
<1>11. ASSUME NEW standard \in BOOLEAN, HandleUnknown(standard) \/ HandleForm
       PROVE  UNCHANGED <<macros, meaning>>
  BY <1>11 DEF HandleUnknown, HandleForm, Diagnosed, CUnknown, CForm, Means, cVars,
               Fault, Foreign
<1> QED BY <1>4, <1>5, <1>6, <1>7, <1>8, <1>9, <1>10, <1>11 DEF Next

\* Every handler keeps the counters of each open file in step with its groups.
LEMMA GroupsStep ==
    ASSUME TypeOK, TypeOK', GroupsMatch, DefinesWhatCDefines, [Next]_vars
    PROVE  GroupsMatch'
<1> SUFFICES ASSUME Correct'
             PROVE  /\ Matches(cur', groups')
                    /\ \A k \in 1 .. Len(outer') :
                          Matches(outer'[k].iter, outer'[k].groups) /\ outer'[k].iter.skip = 0
  BY DEF GroupsMatch
<1>0. /\ Correct /\ Matches(cur, groups)
      /\ \A k \in 1 .. Len(outer) :
            Matches(outer[k].iter, outer[k].groups) /\ outer[k].iter.skip = 0
  BY FaultStays DEF GroupsMatch
<1>t. /\ cur \in Iterator /\ cur' \in Iterator /\ groups \in Seq(Group)
      /\ outer \in Seq([iter : Iterator, groups : Seq(Group)])
      /\ cur.skip \in Nat /\ cur.inc \in Nat /\ cur.till \in BOOLEAN
  BY Iterators DEF TypeOK
<1>k. Kept <=> cur.skip = 0
  BY <1>0, <1>t, MatchesKept DEF Kept, AllOn
<1>e. ASSUME groups # <<>>
      PROVE  /\ Inner \in Group /\ Inner = groups[Len(groups)]
             /\ Inner.past \in BOOLEAN
  <2>1. Inner \in Group /\ Inner = groups[Len(groups)]
    BY <1>t, <1>e, Stacks DEF Inner
  <2> QED BY <2>1 DEF Group
<1>o. ASSUME outer' = outer, Matches(cur', groups')
      PROVE  /\ Matches(cur', groups')
             /\ \A k \in 1 .. Len(outer') :
                   Matches(outer'[k].iter, outer'[k].groups) /\ outer'[k].iter.skip = 0
  BY <1>0, <1>o
<1>u. ASSUME UNCHANGED <<cur, groups>> PROVE Matches(cur', groups')
  BY <1>0, <1>u
<1>p. ASSUME NEW a \in BOOLEAN, NEW b \in BOOLEAN, a <=> b, Opens(a), COpen(b)
      PROVE  Matches(cur', groups')
  <2>1. /\ Opened(b) \in Group
        /\ Opened(b).on <=> cur.skip = 0 /\ a
        /\ Opened(b).past <=> cur.skip # 0 \/ a
    BY <1>k, <1>p DEF Opened, Kept, Group
  <2>2. groups' = Append(groups, Opened(b))
    BY <1>0, <1>p DEF COpen, Means
  <2>3. cur' = IF cur.skip > 0 THEN [cur EXCEPT !.skip = @ + 1]
               ELSE IF a THEN [cur EXCEPT !.inc = @ + 1]
               ELSE [cur EXCEPT !.skip = @ + 1]
    BY <1>p DEF Opens, Skipping
  <2> QED BY <1>0, <1>t, <2>1, <2>2, <2>3, MatchesOpened
\* The innermost group and its next part, which g is.
<1>l. ASSUME groups # <<>>, ~Inner.last, cur.skip = 1, ~cur.till PROVE ~Inner.past
  <2>1. cur.inc + 1 = Len(groups)
    BY <1>0, <1>t, <1>l DEF Matches
  <2> QED BY <1>0, <1>e, <1>l, <2>1 DEF Matches
<1>s. ASSUME groups # <<>>, cur.skip = 0 PROVE Inner.past
  <2>0. PICK n \in Nat : n = Len(groups) /\ n > 0
    BY <1>t, <1>s, Stacks
  <2>1. n \in 1 .. n /\ n # cur.inc + 1
    BY <1>0, <1>t, <1>s, <2>0 DEF Matches
  <2> QED BY <1>0, <1>e, <1>s, <2>0, <2>1 DEF Matches
<1>1. ASSUME NEW c \in Conditions, HandleIf(c) PROVE Matches(cur', groups') /\ outer' = outer
  <2>1. Evaluated(c) <=> True(c)
    BY <1>0, SameValue
  <2> QED BY <1>1, <1>p, <2>1, Truths DEF HandleIf, Continue
<1>2. ASSUME NEW n \in Names, HandleIfdef(n) PROVE Matches(cur', groups') /\ outer' = outer
  <2>1. IsDefined(n) <=> meaning[n] # Undefined
    BY <1>0, SameValue
  <2>2. IsDefined(n) \in BOOLEAN /\ (meaning[n] # Undefined) \in BOOLEAN
    BY DEF IsDefined
  <2> QED BY <1>2, <1>p, <2>1, <2>2 DEF HandleIfdef, Continue
<1>3. ASSUME NEW n \in Names, HandleIfndef(n) PROVE Matches(cur', groups') /\ outer' = outer
  <2>1. ~IsDefined(n) <=> meaning[n] = Undefined
    BY <1>0, SameValue
  <2>2. (~IsDefined(n)) \in BOOLEAN /\ (meaning[n] = Undefined) \in BOOLEAN
    BY DEF IsDefined
  <2> QED BY <1>3, <1>p, <2>1, <2>2 DEF HandleIfndef, Continue
<1>4. ASSUME NEW c \in Conditions, HandleElif(c) PROVE Matches(cur', groups') /\ outer' = outer
  <2> DEFINE g == [on |-> ~Inner.past /\ True(c), past |-> Inner.past \/ True(c),
                   last |-> FALSE]
  <2>1. groups # <<>> /\ ~Inner.last /\ Changed(g)
    BY <1>0, <1>4 DEF HandleElif, CElif, Means, Fault, Correct
  <2>2. /\ g \in Group
        /\ ~groups[Len(groups)].past \/ (~g.on /\ g.past)
        /\ g.on <=> ~Inner.past /\ True(c)
        /\ g.past <=> Inner.past \/ True(c)
    BY <1>e, <2>1, Truths DEF Group
  <2>3. groups' = Changing(groups, g)
    BY <2>1 DEF Changed, Changing, Around
  <2> HIDE DEF g
  <2>4. CASE cur.till \/ cur.skip > 1
    <3>1. UNCHANGED cur /\ outer' = outer
      BY <1>t, <1>4, <2>4 DEF HandleElif, Continue
    <3>2. Matches(cur, Changing(groups, g))
      BY <1>0, <1>t, <2>1, <2>2, <2>4, MatchesPast
    <3> QED BY <2>3, <3>1, <3>2
  <2>5. CASE ~cur.till /\ cur.skip = 0
    <3>1. cur.inc > 0
      BY <1>0, <1>t, <2>1, <2>5, Stacks DEF Matches
    <3>2. cur' = ElifStops /\ outer' = outer
      BY <1>4, <2>5, <3>1 DEF HandleElif, Continue
    <3>3. cur'.skip = 1 /\ cur'.inc = cur.inc - 1 /\ cur'.till
      BY <1>t, <3>2 DEF ElifStops, Iterator
    <3>4. ~g.on /\ g.past
      BY <1>s, <2>1, <2>2, <2>5
    <3>5. Matches(cur', Changing(groups, g))
      BY <1>0, <1>t, <2>1, <2>2, <2>5, <3>3, <3>4, MatchesStopped
    <3> QED BY <2>3, <3>2, <3>5
  <2>6. CASE ~cur.till /\ cur.skip = 1
    <3>1. /\ cur' = IF Evaluated(c) THEN [cur EXCEPT !.skip = 0, !.inc = @ + 1] ELSE cur
          /\ outer' = outer
      BY <1>4, <2>6 DEF HandleElif, Continue
    <3>2. Evaluated(c) \in BOOLEAN /\ (Evaluated(c) <=> True(c))
      BY <1>0, SameValue, Truths
    <3>3. (g.on <=> Evaluated(c)) /\ (g.past <=> Evaluated(c))
      BY <1>l, <2>1, <2>2, <2>6, <3>2
    <3> QED BY <1>0, <1>t, <2>1, <2>2, <2>3, <2>6, <3>1, <3>2, <3>3, MatchesChosen
  <2> QED BY <1>t, <2>4, <2>5, <2>6
<1>5. ASSUME HandleElse PROVE Matches(cur', groups') /\ outer' = outer
  <2> DEFINE g == [on |-> ~Inner.past, past |-> TRUE, last |-> TRUE]
  <2>1. groups # <<>> /\ ~Inner.last /\ Changed(g)
    BY <1>0, <1>5 DEF HandleElse, CElse, Means, Fault, Correct
  <2>2. /\ g \in Group
        /\ ~groups[Len(groups)].past \/ (~g.on /\ g.past)
        /\ (g.on <=> ~Inner.past) /\ g.past /\ g.last
    BY <1>e, <2>1 DEF Group
  <2>3. groups' = Changing(groups, g)
    BY <2>1 DEF Changed, Changing, Around
  <2> HIDE DEF g
  <2>4. CASE cur.till \/ cur.skip > 1
    <3>1. UNCHANGED cur /\ outer' = outer
      BY <1>t, <1>5, <2>4 DEF HandleElse, Continue
    <3>2. Matches(cur, Changing(groups, g))
      BY <1>0, <1>t, <2>1, <2>2, <2>4, MatchesPast
    <3> QED BY <2>3, <3>1, <3>2
  <2>5. CASE ~cur.till /\ cur.skip = 0
    <3>1. cur.inc > 0
      BY <1>0, <1>t, <2>1, <2>5, Stacks DEF Matches
    <3>2. cur' = [cur EXCEPT !.inc = @ - 1, !.skip = @ + 1] /\ outer' = outer
      BY <1>5, <2>5, <3>1 DEF HandleElse, Continue
    <3>3. cur'.skip = 1 /\ cur'.inc = cur.inc - 1
      BY <1>t, <2>5, <3>2 DEF Iterator
    <3>4. ~g.on
      BY <1>s, <2>1, <2>2, <2>5
    <3>5. Matches(cur', Changing(groups, g))
      BY <1>0, <1>t, <2>1, <2>2, <2>5, <3>3, <3>4, MatchesStopped
    <3> QED BY <2>3, <3>2, <3>5
  <2>6. CASE ~cur.till /\ cur.skip = 1
    <3>1. cur' = [cur EXCEPT !.skip = 0, !.inc = @ + 1] /\ outer' = outer
      BY <1>5, <2>6 DEF HandleElse, ElseKeeps, Continue
    <3>2. (g.on <=> TRUE) /\ (g.past <=> TRUE)
      BY <1>l, <2>1, <2>2, <2>6
    <3>3. cur' = IF TRUE THEN [cur EXCEPT !.skip = 0, !.inc = @ + 1] ELSE cur
      BY <3>1
    <3> QED BY <1>0, <1>t, <2>1, <2>2, <2>3, <2>6, <3>1, <3>2, <3>3, MatchesChosen
  <2> QED BY <1>t, <2>4, <2>5, <2>6
<1>6. ASSUME HandleEndif PROVE Matches(cur', groups') /\ outer' = outer
  <2>1. groups # <<>> /\ groups' = SubSeq(groups, 1, Len(groups) - 1)
    BY <1>0, <1>6 DEF HandleEndif, CEndif, Means, Fault, Correct, Around
  <2>2. cur.skip > 0 \/ cur.inc > 0
    BY <1>0, <1>t, <2>1, Stacks DEF Matches
  <2>3. /\ outer' = outer
        /\ cur' = IF cur.skip > 0
                  THEN [cur EXCEPT !.skip = @ - 1, !.till = IF cur.skip = 1 THEN FALSE ELSE @]
                  ELSE [cur EXCEPT !.inc = @ - 1]
    BY <1>6, <1>t, <2>2 DEF HandleEndif, Skipping, Continue
  <2> QED BY <1>0, <1>t, <2>1, <2>3, MatchesClosed
<1>7. ASSUME NEW n \in Names, HandleUndef(n) \/ \E v \in Values : HandleDefine(n, v)
      PROVE  Matches(cur', groups') /\ outer' = outer
  <2>1. UNCHANGED <<cur, groups, outer>>
    BY <1>0, <1>7 DEF HandleUndef, HandleDefine, CDefine, Means
  <2> QED BY <1>u, <2>1
<1>8. ASSUME HandleError PROVE Matches(cur', groups') /\ outer' = outer
  <2>1. UNCHANGED <<cur, groups, outer>>
    BY <1>0, <1>8 DEF HandleError, Diagnosed, CError, Means, Fault, cVars, Correct
  <2> QED BY <1>u, <2>1
<1>9. ASSUME HandleInclude
      PROVE  /\ Matches(cur', groups')
             /\ \A k \in 1 .. Len(outer') :
                   Matches(outer'[k].iter, outer'[k].groups) /\ outer'[k].iter.skip = 0
  <2> DEFINE file == [iter |-> cur, groups |-> groups]
  <2>1. cur' = NewIterator /\ groups' = <<>> /\ outer' = Append(outer, file) /\ cur.skip = 0
    BY <1>9, <1>t DEF HandleInclude, Skipping
  <2>2. Matches(cur', groups')
    BY <2>1 DEF Matches, NewIterator
  <2>3. file \in [iter : Iterator, groups : Seq(Group)] /\ file.iter = cur /\ file.groups = groups
    BY <1>t
  <2> HIDE DEF file
  <2>4. /\ Len(outer') = Len(outer) + 1 /\ outer'[Len(outer) + 1] = file
        /\ \A k \in 1 .. Len(outer) : outer'[k] = outer[k]
    BY <1>t, <2>1, <2>3, Stacks
  <2>5. \A k \in 1 .. Len(outer') : k \in 1 .. Len(outer) \/ k = Len(outer) + 1
    BY <1>t, <2>4
  <2> QED BY <1>0, <2>1, <2>2, <2>3, <2>4, <2>5
<1>10. ASSUME EndOfFile
       PROVE  /\ Matches(cur', groups')
              /\ \A k \in 1 .. Len(outer') :
                    Matches(outer'[k].iter, outer'[k].groups) /\ outer'[k].iter.skip = 0
  <2>1. CASE ~Closed \/ outer = <<>>
    <3>1. UNCHANGED <<cur, groups, outer>>
      BY <1>10, <2>1 DEF EndOfFile
    <3> QED BY <1>o, <1>u, <3>1
  <2>2. CASE Closed /\ outer # <<>>
    <3>1. /\ cur' = outer[Len(outer)].iter /\ groups' = outer[Len(outer)].groups
          /\ outer' = SubSeq(outer, 1, Len(outer) - 1)
      BY <1>10, <2>2 DEF EndOfFile
    <3>2. /\ Len(outer) \in 1 .. Len(outer) /\ Len(outer') = Len(outer) - 1
          /\ \A k \in 1 .. Len(outer) - 1 : outer'[k] = outer[k]
      BY <1>t, <2>2, <3>1, Stacks
    <3>3. \A k \in 1 .. Len(outer') : k \in 1 .. Len(outer) /\ k \in 1 .. Len(outer) - 1
      BY <1>t, <3>2
    <3> QED BY <1>0, <3>1, <3>2, <3>3
  <2> QED BY <2>1, <2>2
<1>11. ASSUME UNCHANGED vars PROVE Matches(cur', groups') /\ outer' = outer
  BY <1>u, <1>11 DEF vars, cVars
<1>12. ASSUME NEW standard \in BOOLEAN, HandleUnknown(standard) \/ HandleForm
       PROVE  Matches(cur', groups') /\ outer' = outer
  <2>1. UNCHANGED <<cur, groups, outer>>
    BY <1>0, <1>12 DEF HandleUnknown, HandleForm, Diagnosed, CUnknown, CForm, Means,
                       Fault, Foreign, cVars, Correct
  <2> QED BY <1>u, <2>1
<1> QED BY <1>o, <1>1, <1>2, <1>3, <1>4, <1>5, <1>6, <1>7, <1>8, <1>9, <1>10, <1>11,
           <1>12 DEF Next

\* What a counter is compared with.
LEMMA Counts == \A s \in Nat : /\ s = 0 => ~(s > 0) /\ ~(s > 1) /\ s # 1
                               /\ s # 0 => s > 0
OBVIOUS

\* The program stops only where C finds a fault or at a foreign line, and does not
\* get past a fault.
LEMMA FaultsStep ==
    ASSUME TypeOK, GroupsMatch, SkipsWhatCSkips, RejectsOnlyFaults, NoticesUnbalanced,
           [Next]_vars
    PROVE  RejectsOnlyFaults' /\ NoticesUnbalanced'
<1> USE DEF RejectsOnlyFaults, NoticesUnbalanced, Correct, Running
<1>1. /\ cur.skip \in Nat /\ cur.inc \in Nat /\ groups \in Seq(Group)
      /\ status \in {"running", "dead", "done"}
      /\ fault \in {"none", "unbalanced", "after else", "error", "unknown"}
  BY Iterators DEF TypeOK
<1>z. /\ cur.skip = 0 => ~(cur.skip > 0) /\ ~(cur.skip > 1) /\ cur.skip # 1
      /\ cur.inc = 0 => ~(cur.inc > 0)
      /\ cur.skip # 0 => cur.skip > 0
      /\ cur.inc # 0 => cur.inc > 0
  BY <1>1, Counts
<1>2. ASSUME Correct PROVE (Skipping <=> ~Kept) /\ (groups = <<>> <=> cur.inc = 0 /\ cur.skip = 0)
  <2>1. cur.inc + cur.skip = Len(groups)
    BY <1>2 DEF GroupsMatch, Matches
  <2>2. groups # <<>> => Len(groups) \in 1 .. Len(groups)
    BY <1>1, Stacks
  <2> QED BY <1>1, <1>2, <2>1, <2>2 DEF SkipsWhatCSkips
<1>3. ASSUME NEW c \in Conditions, HandleIf(c) PROVE RejectsOnlyFaults' /\ NoticesUnbalanced'
  BY <1>3 DEF HandleIf, Continue, COpen, Means, cVars, NoMacroChange
<1>4. ASSUME NEW n \in Names, HandleIfdef(n) \/ HandleIfndef(n)
      PROVE  RejectsOnlyFaults' /\ NoticesUnbalanced'
  BY <1>4 DEF HandleIfdef, HandleIfndef, Continue, COpen, Means, cVars, NoMacroChange
<1>5. ASSUME NEW n \in Names, HandleUndef(n) \/ \E v \in Values : HandleDefine(n, v)
      PROVE  RejectsOnlyFaults' /\ NoticesUnbalanced'
  BY <1>5 DEF HandleUndef, HandleDefine, CDefine, Means, cVars
<1>6. ASSUME NEW c \in Conditions, HandleElif(c) PROVE RejectsOnlyFaults' /\ NoticesUnbalanced'
  <2>1. CASE cur.skip = 0 /\ cur.inc = 0 /\ ~cur.till
    <3>0. ~(cur.skip > 1) /\ ~(cur.inc > 0) /\ cur.skip # 1
      BY <1>z, <2>1
    <3>1. status' = "dead"
      BY <1>6, <2>1, <3>0 DEF HandleElif, Diagnosed
    <3>2. ~Correct'
      BY <1>2, <1>6, <2>1 DEF HandleElif, CElif, Means, Fault, cVars
    <3> QED BY <3>1, <3>2
  <2>2. CASE ~(cur.skip = 0 /\ cur.inc = 0 /\ ~cur.till)
    <3>1. status' = "running" /\ status = "running"
      BY <1>1, <1>6, <2>2 DEF HandleElif, Continue
    <3>2. CASE cur.skip = 0 /\ cur.inc = 0
      <4>1. cur.till /\ ~Correct
        <5>1. Correct => (cur.skip = 0 => ~cur.till)
          BY DEF GroupsMatch, Matches
        <5> QED BY <2>2, <3>2, <5>1
      <4> QED BY <1>1, <1>6, <3>1, <4>1 DEF HandleElif, CElif, Means, cVars
    <3>3. CASE ~(cur.skip = 0 /\ cur.inc = 0)
      <4>1. Correct => groups # <<>>
        BY <1>2, <3>3
      <4> QED BY <1>1, <1>6, <3>1, <4>1
              DEF HandleElif, CElif, Means, cVars, Fault, NoMacroChange
    <3> QED BY <3>2, <3>3
  <2> QED BY <2>1, <2>2
<1>7. ASSUME HandleElse PROVE RejectsOnlyFaults' /\ NoticesUnbalanced'
  <2>1. CASE cur.skip = 0 /\ cur.inc = 0 /\ ~cur.till
    <3>0. ~(cur.skip > 1) /\ ~(cur.inc > 0) /\ cur.skip # 1
      BY <1>z, <2>1
    <3>1. status' = "dead"
      BY <1>7, <2>1, <3>0 DEF HandleElse, Diagnosed
    <3>2. ~Correct'
      BY <1>2, <1>7, <2>1 DEF HandleElse, CElse, Means, Fault, cVars
    <3> QED BY <3>1, <3>2
  <2>2. CASE ~(cur.skip = 0 /\ cur.inc = 0 /\ ~cur.till)
    <3>1. status' = "running" /\ status = "running"
      BY <1>1, <1>7, <2>2 DEF HandleElse, Continue
    <3>2. CASE cur.skip = 0 /\ cur.inc = 0
      <4>1. ~Correct
        <5>1. Correct => (cur.skip = 0 => ~cur.till)
          BY DEF GroupsMatch, Matches
        <5> QED BY <2>2, <3>2, <5>1
      <4> QED BY <1>1, <1>7, <3>1, <4>1 DEF HandleElse, CElse, Means, cVars
    <3>3. CASE ~(cur.skip = 0 /\ cur.inc = 0)
      <4>1. Correct => groups # <<>>
        BY <1>2, <3>3
      <4> QED BY <1>1, <1>7, <3>1, <4>1
              DEF HandleElse, CElse, Means, cVars, Fault, NoMacroChange
    <3> QED BY <3>2, <3>3
  <2> QED BY <2>1, <2>2
<1>8. ASSUME HandleEndif PROVE RejectsOnlyFaults' /\ NoticesUnbalanced'
  <2>1. CASE cur.skip = 0 /\ cur.inc = 0
    <3>0. ~(cur.skip > 0) /\ ~(cur.inc > 0)
      BY <1>z, <2>1
    <3>1. status' = "dead"
      BY <1>8, <3>0 DEF HandleEndif, Diagnosed, Skipping
    <3>2. ~Correct'
      BY <1>2, <1>8, <2>1 DEF HandleEndif, CEndif, Means, Fault, cVars
    <3> QED BY <3>1, <3>2
  <2>2. CASE ~(cur.skip = 0 /\ cur.inc = 0)
    <3>0. cur.skip > 0 \/ cur.inc # 0
      BY <1>z, <2>2
    <3>1. status' = "running" /\ status = "running"
      BY <1>8, <3>0 DEF HandleEndif, Continue, Skipping
    <3>2. Correct => groups # <<>>
      BY <1>2, <2>2
    <3> QED BY <1>1, <1>8, <3>1, <3>2 DEF HandleEndif, CEndif, Means, cVars, NoMacroChange
  <2> QED BY <2>1, <2>2
<1>9. ASSUME HandleError PROVE RejectsOnlyFaults' /\ NoticesUnbalanced'
  <2>1. CASE Skipping
    BY <1>2, <1>9, <2>1 DEF HandleError, CError, Means, cVars
  <2>2. CASE ~Skipping
    <3>1. status' = "dead"
      BY <1>9, <2>2 DEF HandleError, Diagnosed
    <3>2. ~Correct'
      BY <1>2, <1>9, <2>2 DEF HandleError, CError, Means, Fault, cVars
    <3> QED BY <3>1, <3>2
  <2> QED BY <2>1, <2>2
<1>10. ASSUME HandleInclude PROVE RejectsOnlyFaults' /\ NoticesUnbalanced'
  BY <1>10 DEF HandleInclude
<1>11. ASSUME EndOfFile PROVE RejectsOnlyFaults' /\ NoticesUnbalanced'
  <2>1. CASE Closed
    <3>1. status' # "dead" /\ fault' = fault /\ status = "running"
      BY <1>2, <1>11, <2>1 DEF EndOfFile, Closed
    <3> QED BY <3>1
  <2>2. CASE ~Closed
    <3>1. status' = "dead"
      BY <1>11, <2>2 DEF EndOfFile
    <3>2. ~Correct'
      BY <1>2, <1>11, <2>2 DEF EndOfFile, Closed
    <3> QED BY <3>1, <3>2
  <2> QED BY <2>1, <2>2
<1>12. ASSUME UNCHANGED vars PROVE RejectsOnlyFaults' /\ NoticesUnbalanced'
  BY <1>12 DEF vars, cVars
<1>13. ASSUME NEW standard \in BOOLEAN, HandleUnknown(standard)
       PROVE  RejectsOnlyFaults' /\ NoticesUnbalanced'
  <2>1. CASE Skipping
    BY <1>2, <1>13, <2>1 DEF HandleUnknown, CUnknown, Means, cVars
  <2>2. CASE ~Skipping
    <3>1. status' = "dead"
      BY <1>13, <2>2 DEF HandleUnknown, Diagnosed
    <3>2. ~Correct' \/ foreign'
      BY <1>2, <1>13, <2>2 DEF HandleUnknown, CUnknown, Means, Fault, Foreign, cVars
    <3> QED BY <3>1, <3>2
  <2> QED BY <2>1, <2>2
<1>14. ASSUME HandleForm PROVE RejectsOnlyFaults' /\ NoticesUnbalanced'
  BY <1>14 DEF HandleForm, Diagnosed, CForm, Means, Foreign, cVars
<1> QED BY <1>3, <1>4, <1>5, <1>6, <1>7, <1>8, <1>9, <1>10, <1>11, <1>12, <1>13, <1>14
        DEF Next

\* For any number of names, groups and files: the two counters and the flag of
\* every open file agree with its stack of groups, and the table with C.
THEOREM Invariance == Spec => []IndInv
<1>1. Init => IndInv
  BY InitInv
<1>2. IndInv /\ [Next]_vars => IndInv'
  <2> SUFFICES ASSUME IndInv, [Next]_vars PROVE IndInv'
    OBVIOUS
  <2> USE DEF IndInv
  <2>1. TypeOK'
    BY TypeStep
  <2>2. SkipsWhatCSkips
    BY MatchesSkips
  <2>3. GroupsMatch'
    BY <2>1, GroupsStep
  <2>4. DefinesWhatCDefines'
    BY <2>2, DefinesStep
  <2>5. RejectsOnlyFaults' /\ NoticesUnbalanced'
    BY <2>2, FaultsStep
  <2> QED BY <2>1, <2>3, <2>4, <2>5
<1> QED BY <1>1, <1>2, PTL DEF Spec

\* A line is skipped exactly when C skips it.
THEOREM Skipping_Correct == Spec => []SkipsWhatCSkips
<1>1. IndInv => SkipsWhatCSkips
  BY MatchesSkips DEF IndInv
<1> QED BY <1>1, Invariance, PTL

\* The table answers for every name what C says.
THEOREM Defining_Correct == Spec => []DefinesWhatCDefines
<1>1. IndInv => DefinesWhatCDefines
  BY DEF IndInv
<1> QED BY <1>1, Invariance, PTL

\* The program stops with a diagnostic only where the lines are wrong, or at a
\* directive C has and it does not: for no other reason is a correct file refused.
THEOREM Rejecting_Correct == Spec => []RejectsOnlyFaults
<1>1. IndInv => RejectsOnlyFaults
  BY DEF IndInv
<1> QED BY <1>1, Invariance, PTL

\* The program does not get past a fault, #else behind #else apart.
THEOREM Noticing_Correct == Spec => []NoticesUnbalanced
<1>1. IndInv => NoticesUnbalanced
  BY DEF IndInv
<1> QED BY <1>1, Invariance, PTL
====
