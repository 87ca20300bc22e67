------------------------------- MODULE Filter -------------------------------
(***************************************************************************)
(* What Vec::retain, VecDeque::retain and Iterator::filter leave of a      *)
(* sequence.  The condition is a set and the operator a fold, so that      *)
(* theorems can be stated about it: SelectSeq takes an operator, and the   *)
(* provers know nothing of it.                                             *)
(***************************************************************************)
EXTENDS SequencesExt

\* The elements of seq that are in S, in their order.
Keep(seq, S) ==
    FoldLeft(LAMBDA kept, x : IF x \in S THEN Append(kept, x) ELSE kept, <<>>, seq)

\* The places at which seq has x.
Places(seq, x) == {i \in DOMAIN seq : seq[i] = x}

=============================================================================
