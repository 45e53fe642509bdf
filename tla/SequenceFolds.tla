----------------------------- MODULE SequenceFolds -----------------------------
(***************************************************************************)
(* The few operators on sequences and sets of integers the models need, as *)
(* SequencesExt and FiniteSetsExt have them.  Those modules bring the      *)
(* theory of bags, functions and finite sets with them, which every proof  *)
(* about a module that extends one would carry along, and they fold over   *)
(* sets of indices, where this folds over the indices.                     *)
(***************************************************************************)
EXTENDS Integers, Sequences

Max(S) == CHOOSE n \in S : \A k \in S : k <= n
Min(S) == CHOOSE n \in S : \A k \in S : n <= k

Last(s) == s[Len(s)]
Front(s) == SubSeq(s, 1, Len(s) - 1)
RemoveAt(s, i) == SubSeq(s, 1, i - 1) \o SubSeq(s, i + 1, Len(s))

(* op applied to base and one element of s after the other. *)
FoldLeft(op(_, _), base, s) ==
  LET acc[i \in 0..Len(s)] == IF i = 0 THEN base ELSE op(acc[i - 1], s[i])
  IN  acc[Len(s)]
================================================================================
