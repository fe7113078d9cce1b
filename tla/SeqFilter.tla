------------------------------- MODULE SeqFilter -------------------------------
(***************************************************************************)
(* The elements of a sequence that are in a set, in their order: what the  *)
(* source's loops of the form "for x in xs, if x passes, append it" leave. *)
(* (SelectSeq says the same, but the proof system knows nothing of it.)    *)
(***************************************************************************)
EXTENDS Integers, Sequences

\* What is kept of the first i elements, for every i.
Kept(seq, S) ==
  LET kept[i \in 0..Len(seq)] ==
        IF i = 0 THEN <<>>
        ELSE IF seq[i] \in S THEN Append(kept[i - 1], seq[i]) ELSE kept[i - 1]
  IN kept

Filter(seq, S) == Kept(seq, S)[Len(seq)]

=============================================================================
