----------------------------- MODULE MCLogPaging -----------------------------
(* A small instance of the service, the bridge and the viewer for TLC. *)
EXTENDS LogPaging, TLC

HandlerSymmetry == Permutations(Handlers)

=============================================================================
