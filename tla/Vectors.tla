------------------------------- MODULE Vectors -------------------------------
(***************************************************************************)
(* The operations on Rust vectors that the broker uses and the library of  *)
(* sequences lacks, as folds over sequences.                               *)
(***************************************************************************)
EXTENDS SequencesExt, Integers, FiniteSets

\* retain, filter: the elements that are in S, in their order.
Only(s, S) == FoldLeft(LAMBDA acc, e : IF e \in S THEN Append(acc, e) ELSE acc, <<>>, s)

\* swap_remove: the last element takes the place of the removed one.
SwapRemove(s, i) ==
  [j \in 1 .. Len(s) - 1 |-> IF j = i THEN s[Len(s)] ELSE s[j]]

\* The positions of a vector of length n, the highest first.
Downward(n) == [k \in 1 .. n |-> n + 1 - k]

\* swap_remove of the positions in S, the highest first.
SwapRemoveAll(s, S) ==
  FoldLeft(LAMBDA r, i : IF i \in S THEN SwapRemove(r, i) ELSE r, s, Downward(Len(s)))
=============================================================================
