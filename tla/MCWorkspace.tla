---------------------------- MODULE MCWorkspace ----------------------------
(* Two workspace folders and three connections, of which a list holds two: *)
(* the cut, a change of workspace there and back, and every overlap of two *)
(* or three operations happen.  Connections are interchangeable.           *)
EXTENDS Workspace
LOCAL INSTANCE TLC

IdSymmetry == Permutations(Ids)
=============================================================================
