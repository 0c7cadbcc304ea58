-------------------------- MODULE FunctionMatching --------------------------
(***************************************************************************)
(* The functions of two programs paired by their code, and a function      *)
(* without a name compared with those of known libraries                   *)
(* (damsel-recon-catalog/src/matching.rs and reuse.rs).                    *)
(*                                                                         *)
(* A row is a function with its address and the tokens of its code; two    *)
(* codes have one shape when their tokens are the same (the hashes the     *)
(* code compares are taken not to collide).  Scores are exact: a fraction  *)
(* or, in reuse.rs, a number of parts of Whole, which the sizes compared   *)
(* divide.                                                                 *)
(***************************************************************************)
EXTENDS Integers, SequencesExt

\* sequence_similarity: twice the length of a longest common subsequence over
\* the length of both; nothing is like an empty sequence.
LongestCommon(a, b) ==
  LET table[i \in 0 .. Len(a), j \in 0 .. Len(b)] ==
        IF i = 0 \/ j = 0 THEN 0
        ELSE IF a[i] = b[j] THEN table[i - 1, j - 1] + 1
        ELSE LET up == table[i - 1, j] left == table[i, j - 1] IN IF up >= left THEN up ELSE left
  IN table[Len(a), Len(b)]

Similarity(a, b) ==
  IF a = <<>> \/ b = <<>> THEN [of |-> 0, over |-> 1]
  ELSE [of |-> 2 * LongestCommon(a, b), over |-> Len(a) + Len(b)]

AtLeast(p, q) == p.of * q.over >= q.of * p.over

\* Mutant: pairs are taken in the order they were scored in.
InOrder(p, q) == p.left < q.left \/ (p.left = q.left /\ p.right < q.right)

\* The order pairs are accepted in: by score, and as scored where it is equal.
Sooner(p, q) ==
  IF AtLeast(p.score, q.score) /\ AtLeast(q.score, p.score)
  THEN p.left < q.left \/ (p.left = q.left /\ p.right < q.right)
  ELSE AtLeast(p.score, q.score)

\* match_fuzzy, of the rows of two programs given by their positions.
MatchFuzzy(left, right, threshold) ==
  LET pairs == {[left |-> i, right |-> j, score |-> Similarity(left[i].tokens, right[j].tokens)] :
                  i \in DOMAIN left, j \in DOMAIN right}
      scored == SetToSortSeq({p \in pairs : AtLeast(p.score, threshold)}, Sooner)
      Accept(taken, p) == IF \E q \in taken : q.left = p.left \/ q.right = p.right THEN taken ELSE taken \cup {p}
  IN {[left |-> left[p.left].address, right |-> right[p.right].address, score |-> p.score] :
        p \in FoldLeft(Accept, {}, scored)}

\* Tier 1: each function and the first of the other program with its shape, if
\* no earlier function has taken it.
ExactPairs(left, right) ==
  LET First(i) == {j \in DOMAIN right : /\ right[j].tokens = left[i].tokens
                                        /\ \A k \in 1 .. j - 1 : right[k].tokens # left[i].tokens}
  IN {<<i, j>> \in (DOMAIN left) \X (DOMAIN right) :
        j \in First(i) /\ \A k \in 1 .. i - 1 : j \notin First(k)}

\* match_projects_tiered: the pairs of both tiers.
MatchTiered(left, right, threshold) ==
  LET exact == ExactPairs(left, right)
      Rest(rows, used) == LET kept == SetToSortSeq(DOMAIN rows \ used, <) IN [n \in DOMAIN kept |-> rows[kept[n]]]
  IN [exact |-> {[left |-> left[p[1]].address, right |-> right[p[2]].address] : p \in exact},
      fuzzy |-> MatchFuzzy(Rest(left, {p[1] : p \in exact}), Rest(right, {p[2] : p \in exact}), threshold)]

-----------------------------------------------------------------------------
(* Known functions.  A print is a function's distinctive strings and       *)
(* constants and the number of its instructions and calls.                 *)

Whole == 120000
Hundredths(n) == n * (Whole \div 100)
AbsOf(n) == IF n < 0 THEN -n ELSE n

\* The part of a weight that two sets earn.
Overlap(weight, both, known, print, mine) ==
  IF mine = {} /\ print = {} THEN Hundredths(both)
  ELSE IF mine = {} THEN Hundredths(known)
  ELSE (Hundredths(weight) \div Cardinality(mine)) * Cardinality(mine \cap print)

\* The part of a weight that two counts earn: all at equality, none from twice on.
Ratio(weight, print, mine) ==
  IF mine = 0 THEN Hundredths(weight)
  ELSE LET off == AbsOf(print - mine) IN
       IF off >= mine THEN 0 ELSE (Hundredths(weight) \div mine) * (mine - off)

\* match_score
MatchScore(print, mine) ==
  [score |-> Min({Whole, Overlap(50, 35, 10, print.strings, mine.strings)
                         + Overlap(30, 15, 10, print.constants, mine.constants)
                         + Ratio(15, print.size, mine.size) + Ratio(5, print.calls, mine.calls)}),
   evidence |-> {e \in {"strings", "constants", "size"} :
                   CASE e = "strings" -> print.strings \cap mine.strings # {}
                     [] e = "constants" -> print.constants \cap mine.constants # {}
                     [] e = "size" -> Ratio(15, print.size, mine.size) > Hundredths(12)}]

\* find_reuse_report: the matches and the candidates of a print among the known
\* functions of a corpus, a sequence.
Raised(m, threshold) ==
  [m EXCEPT !.score = Max({m.score, threshold, Hundredths(85)}), !.evidence = m.evidence \cup {"unique"}]
ReportOf(results, sized, threshold) ==
  [matches |-> {n \in DOMAIN results : results[n].score >= threshold},
   candidates |-> {n \in DOMAIN results : /\ results[n].score < threshold
                                          /\ 2 * results[n].score >= threshold
                                          /\ results[n].evidence # {} \/ n \in sized},
   evidence |-> [n \in DOMAIN results |-> results[n].evidence]]
FindReuseReport(print, corpus, threshold) ==
  LET sized == {n \in DOMAIN corpus : corpus[n].size > 0 /\ corpus[n].size = print.size}
  IN ReportOf([n \in DOMAIN corpus |-> IF sized = {n} THEN Raised(MatchScore(print, corpus[n]), threshold)
                                       ELSE MatchScore(print, corpus[n])], sized, threshold)
=============================================================================
