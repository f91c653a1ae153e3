-------------------------------- MODULE Lists ---------------------------------
(***************************************************************************)
(* Python's list comprehension with a condition, and a list that grows by  *)
(* lists (extend).  SelectSeq and FlattenSeq do the same, but the provers  *)
(* know nothing of them; a fold over the list can be reasoned about        *)
(* (SequenceProofs).                                                       *)
(***************************************************************************)
EXTENDS SequencesExt

KeepIn(S, kept, x) == IF x \in S THEN Append(kept, x) ELSE kept

\* [x for x in seq if x in S]
Kept(seq, S) == FoldLeft(LAMBDA kept, x : KeepIn(S, kept, x), <<>>, seq)

Extended(all, seq) == all \o seq

\* A list that every one of the lists was appended to in turn.
Joined(seqs) == FoldLeft(LAMBDA all, seq : Extended(all, seq), <<>>, seqs)
=============================================================================
