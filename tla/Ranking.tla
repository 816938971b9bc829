---------------------------------- MODULE Ranking ----------------------------------
(***************************************************************************)
(* Stable sorting and filtering of sequences by where a position goes.     *)
(* (SortSeq and SelectSeq are recursive, and nothing could be proved of    *)
(* what is built from them.)                                               *)
(***************************************************************************)
EXTENDS Integers, FiniteSets

\* The positions of S that come no later than i: higher scores first, and what is
\* equal stays in its order.
UpTo(S, scores, i) == {j \in S : scores[j] > scores[i] \/ (scores[j] = scores[i] /\ j <= i)}

\* The positions of S, best first.
Ranked(S, scores) ==
    [k \in 1..Cardinality(S) |-> CHOOSE i \in S : Cardinality(UpTo(S, scores, i)) = k]

InOrder(S) == Ranked(S, [i \in S |-> 0])

\* The entries of a sequence that are at positions of S.
Selected(seq, S) == [k \in 1..Cardinality(S) |-> seq[InOrder(S)[k]]]
================================================================================
