------------------------------ MODULE MCLwwMerge ------------------------------
(* Model values for LwwMerge: two rows, three times, at most two journal rows. *)
EXTENDS LwwMerge, TLC
MCTimes == 1..3
MCSymmetry == Permutations(Ids)
=============================================================================
