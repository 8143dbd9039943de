--------------------------- MODULE MCMergeProgress ---------------------------
(* Two calls, of any kinds, and two panels. *)
EXTENDS MergeProgress, TLC
=============================================================================
