----------------------------- MODULE MCFileMerge -----------------------------
(* Small instances of the file-merge session for TLC. *)
EXTENDS FileMergeSession, TLC

(* outDir was used before: part 2 is in the manifest that was found there, *)
(* for the rename to part 1 had failed with EBUSY, and part 3 was left by  *)
(* a session that died before it saved.                                    *)
MCLoadedChunks == <<[file |-> 2, lines |-> 2, start |-> 0]>>

MCOldLines == (2 :> 2) @@ (3 :> 1)

=============================================================================
