------------------------------- MODULE Selection -------------------------------
(***************************************************************************)
(* iter().filter(..).collect() and flat_map, with which the delivery loops *)
(* pick their events, as folds over the sequence: what a filter selects is *)
(* given as a set, what is gathered from each element as a function.       *)
(***************************************************************************)
EXTENDS Integers, Sequences, SequencesExt

(* The elements of seq that are in `wanted`, in order. *)
Keep(seq, wanted) ==
    FoldLeft(LAMBDA kept, x : IF x \in wanted THEN Append(kept, x) ELSE kept, <<>>, seq)

(* What `share` makes of each element of seq, one after the other. *)
Gather(seq, share) == FoldLeft(LAMBDA all, x : all \o share[x], <<>>, seq)
===============================================================================
