------------------------------- MODULE Filters -------------------------------
(***************************************************************************)
(* Array.prototype.filter, as the source calls it: the elements of a       *)
(* sequence that are in a set, in their order.  It is SelectSeq written as *)
(* a fold, which the proofs can open.                                      *)
(***************************************************************************)
EXTENDS Sequences, SequencesExt

Kept(s, K) ==
  FoldLeft(LAMBDA kept, x : IF x \in K THEN Append(kept, x) ELSE kept, <<>>, s)
==============================================================================
