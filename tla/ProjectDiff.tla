----------------------------- MODULE ProjectDiff -----------------------------
(***************************************************************************)
(* Two analyzed versions of a program compared: their functions, the lines *)
(* of a function and the histories of functions over many versions         *)
(* (damsel-decomp/src/diff.rs and pseudodiff.rs).                          *)
(*                                                                         *)
(* A version is a set of functions with an address, a name (0 for none)    *)
(* and the shape of their code (0 when it is not known).                   *)
(***************************************************************************)
EXTENDS Integers, SequencesExt

Pair(l, r, name, strategy) == [left |-> l, right |-> r, name |-> name, strategy |-> strategy]

Named(version, name) == {f.address : f \in {g \in version : g.name = name}}
Shaped(version, shape) == {f.address : f \in {g \in version : g.shape = shape}}
Lefts(pairs) == {p.left : p \in pairs}
Rights(pairs) == {p.right : p \in pairs}
NameOf(name, other) == IF name # 0 THEN name ELSE other

\* Pass 1: a function and the first of the other version with its name.
BySymbol(left, right) ==
  {Pair(f.address, Min(Named(right, f.name)), f.name, "ExactSymbol") :
     f \in {g \in left : g.name # 0 /\ Named(right, g.name) # {}}}

\* Pass 2: what is left at the same address.
ByAddress(left, right) ==
  UNION {{Pair(f.address, f.address, NameOf(f.name, g.name), "ExactAddress") :
            g \in {h \in right : h.address = f.address}} : f \in left}

\* Pass 3: what is left and has a shape that one function of the other version has.
ByShape(left, right) ==
  UNION {LET same == Shaped(right, f.shape) IN
         {Pair(f.address, g.address, NameOf(g.name, f.name), "Shape") : g \in {h \in right : same = {h.address}}} :
           f \in {g \in left : g.shape # 0}}

Except(version, addresses) == {f \in version : f.address \notin addresses}

\* diff_functions_with_shapes: pairs by name, then by address, then by shape, and
\* what is left of either side.
AndByAddress(left, right, pairs) ==
  pairs \cup ByAddress(Except(left, Lefts(pairs)), Except(right, Rights(pairs)))
AndByShape(left, right, pairs) ==
  pairs \cup ByShape(Except(left, Lefts(pairs)), Except(right, Rights(pairs)))
Compared(left, right, matched) ==
  [matched |-> matched, removed |-> Except(left, Lefts(matched)), added |-> Except(right, Rights(matched))]
DiffFunctions(left, right) ==
  Compared(left, right, AndByShape(left, right, AndByAddress(left, right, BySymbol(left, right))))

-----------------------------------------------------------------------------
(* Lines.                                                                  *)

\* The length of a longest common subsequence of the ends of two sequences
\* from their i-th and j-th item on.
CommonFrom(left, right) ==
  LET table[i \in 1 .. Len(left) + 1, j \in 1 .. Len(right) + 1] ==
        IF i > Len(left) \/ j > Len(right) THEN 0
        ELSE IF left[i] = right[j] THEN table[i + 1, j + 1] + 1
        ELSE Max({table[i + 1, j], table[i, j + 1]})
  IN table

Line(kind, text) == [kind |-> kind, text |-> text]

\* Whether the walk leaves out a line of the left side next.
GoesDown(table, i, j) == table[i + 1, j] >= table[i, j + 1]

\* diff_lines: the lines of both sides in one order.
DiffLines(left, right) ==
  LET table == CommonFrom(left, right)
      from[i \in 1 .. Len(left) + 1, j \in 1 .. Len(right) + 1] ==
        IF i > Len(left) THEN [k \in 1 .. Len(right) - j + 1 |-> Line("add", right[j + k - 1])]
        ELSE IF j > Len(right) THEN [k \in 1 .. Len(left) - i + 1 |-> Line("remove", left[i + k - 1])]
        ELSE IF left[i] = right[j] THEN <<Line("same", left[i])>> \o from[i + 1, j + 1]
        ELSE IF GoesDown(table, i, j) THEN <<Line("remove", left[i])>> \o from[i + 1, j]
        ELSE <<Line("add", right[j])>> \o from[i, j + 1]
  IN from[1, 1]

-----------------------------------------------------------------------------
(* Timelines.  An interval has the matched pairs of two versions that      *)
(* follow each other, the functions added and the pairs whose code         *)
(* changed.  A history is that of an identity: a name, or the address a    *)
(* function without one was first seen at.                                 *)

Identity(name, address) == IF name # 0 THEN <<"name", name>> ELSE <<"sub", address>>

\* The order a report lists its pairs in.
Listed(pairs) ==
  LET rank(p) == CASE p.strategy = "ExactSymbol" -> 1 [] p.strategy = "ExactAddress" -> 2 [] OTHER -> 3
  IN SetToSortSeq(pairs, LAMBDA p, q : rank(p) < rank(q) \/ (rank(p) = rank(q) /\ p.left < q.left))

\* A pair continues the identity its left side had in the interval before.
IdentityOf(timeline, pair) ==
  IF pair.left \in DOMAIN timeline.identities THEN timeline.identities[pair.left]
  ELSE Identity(pair.name, pair.left)

\* A matched pair continues its history, or starts it in the earlier version.
Continue(timeline, pair, n, versions, changed) ==
  LET id == IdentityOf(timeline, pair)
      born == [first |-> n, changed |-> <<>>, at |-> [v \in 1 .. versions |-> IF v = n THEN pair.left ELSE 0]]
      old == IF id \in DOMAIN timeline.histories THEN timeline.histories[id] ELSE born
  IN [timeline EXCEPT
        !.next = (pair.right :> id) @@ timeline.next,
        !.histories = (id :> [old EXCEPT !.at[n + 1] = pair.right, !.changed = Append(old.changed, changed)])
                      @@ timeline.histories]

\* An added function starts a history, unless its identity has one already.
Start(timeline, function, n, versions) ==
  LET id == Identity(function.name, function.address) IN
  IF id \in DOMAIN timeline.histories THEN timeline
  ELSE [timeline EXCEPT !.histories =
          (id :> [first |-> n + 1, changed |-> <<>>,
                  at |-> [v \in 1 .. versions |-> IF v = n + 1 THEN function.address ELSE 0]]) @@ timeline.histories]

\* build_timeline: the histories by identity.
BuildTimeline(intervals) ==
  LET versions == Len(intervals) + 1
      Pairs(t, n) == FoldLeft(LAMBDA s, p : Continue(s, p, n, versions, <<p.left, p.right>> \in intervals[n].changed),
                              t, Listed(intervals[n].matched))
      Added(t, n) == FoldLeft(LAMBDA s, f : Start(s, f, n, versions), t,
                              SetToSortSeq(intervals[n].added, LAMBDA f, g : f.address < g.address))
      Turned(s) == [s EXCEPT !.identities = s.next, !.next = <<>>]
  IN FoldLeft(LAMBDA t, n : Turned(Added(Pairs(t, n), n)), [histories |-> <<>>, identities |-> <<>>, next |-> <<>>],
              [n \in 1 .. Len(intervals) |-> n]).histories

\* timeline_text: the marker of a history at a version.
Marker(history, v) ==
  IF history.at[v] # 0
  THEN IF v = history.first THEN "+"
       ELSE IF v - 1 \in DOMAIN history.changed /\ history.changed[v - 1] THEN "c" ELSE "."
  ELSE IF v > 1 /\ history.at[v - 1] # 0 THEN "x" ELSE "-"
=============================================================================
