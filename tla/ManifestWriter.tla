---------------------------- MODULE ManifestWriter ----------------------------
(***************************************************************************)
(* The manifest of a merged log, src/core/logs/ManifestWriter.ts: the list *)
(* of part files with the line each of them starts at, kept in memory and  *)
(* saved to manifest.json by writing a temporary file and renaming it.     *)
(*                                                                         *)
(* save() takes its snapshot after its first await and replaces the file   *)
(* after its second, so saves of concurrent callers overlap.  The module   *)
(* has the operations; the sessions that own a manifest call them.         *)
(***************************************************************************)
EXTENDS Integers, Sequences

CONSTANTS
  Savers,       \* the concurrent callers of save
  LoadedChunks, \* the chunks of a manifest.json found in outDir
  Torn          \* the content of manifest.json while it is overwritten

VARIABLES
  chunks,  \* manifest.chunks
  savePc,  \* savePc[c]: where caller c is in save
  txt,     \* txt[c]: the chunks of the snapshot that c is saving
  disk     \* the chunks listed by manifest.json, or Torn

saveVars     == <<savePc, txt, disk>>
manifestVars == <<chunks, saveVars>>

Chunk == [file : Nat, lines : Nat, start : Nat]

(* mergedLines, recomputed as the end of the last chunk whenever the list  *)
(* changes; chunkCount is the length of the list.                          *)
MergedLinesOf(cs) ==
  IF cs = <<>> THEN 0 ELSE cs[Len(cs)].start + cs[Len(cs)].lines

MergedLines == MergedLinesOf(chunks)

(* loadOrCreate and the save that a session does before anything else. *)
ManifestInit ==
  /\ chunks = LoadedChunks
  /\ savePc = [c \in Savers |-> "none"]
  /\ txt = [c \in Savers |-> <<>>]
  /\ disk = LoadedChunks

(* push(meta) followed by the stable sort by start, on a sorted list. *)
Inserted(cs, meta) ==
  LET k == CHOOSE k \in 0..Len(cs) :
             /\ \A i \in 1..k : cs[i].start <= meta.start
             /\ k < Len(cs) => cs[k + 1].start > meta.start
  IN  SubSeq(cs, 1, k) \o <<meta>> \o SubSeq(cs, k + 1, Len(cs))

(* Variant: a part without lines is added too. *)
AddChunkUnguarded(file, lines, start) ==
  chunks' = Inserted(chunks, [file |-> file, lines |-> lines, start |-> start])

(* addChunk: a part without a name or without lines is ignored. *)
AddChunk(file, lines, start) ==
  chunks' = IF file > 0 /\ lines > 0
            THEN Inserted(chunks, [file |-> file, lines |-> lines, start |-> start])
            ELSE chunks

-----------------------------------------------------------------------------
(* save is called and awaits mkdir. *)
SaveCall(c) ==
  /\ savePc' = [savePc EXCEPT ![c] = "mkdir"]
  /\ UNCHANGED <<txt, disk>>

(* The manifest is serialised and the temporary file is being written. *)
SaveSnapshot(c) ==
  /\ savePc[c] = "mkdir"
  /\ txt' = [txt EXCEPT ![c] = chunks]
  /\ savePc' = [savePc EXCEPT ![c] = "write"]
  /\ UNCHANGED <<chunks, disk>>

(* The temporary file is renamed to manifest.json. *)
SaveRename(c) ==
  /\ savePc[c] = "write"
  /\ disk' = txt[c]
  /\ savePc' = [savePc EXCEPT ![c] = "saved"]
  /\ UNCHANGED <<chunks, txt>>

(* The rename fails: manifest.json is opened for overwriting. *)
SaveRenameFails(c) ==
  /\ savePc[c] = "write"
  /\ disk' = Torn
  /\ savePc' = [savePc EXCEPT ![c] = "overwrite"]
  /\ UNCHANGED <<chunks, txt>>

(* The overwrite completes.  When another save has replaced or overwritten *)
(* the file meanwhile, either content or a mixture of them may be left.    *)
SaveOverwrite(c) ==
  /\ savePc[c] = "overwrite"
  /\ \/ disk' = txt[c]
     \/ disk # Torn /\ disk' \in {disk, Torn}
  /\ savePc' = [savePc EXCEPT ![c] = "saved"]
  /\ UNCHANGED <<chunks, txt>>

(* mkdir, the temporary file or the overwrite fails: save throws. *)
SaveFails(c) ==
  /\ savePc[c] \in {"mkdir", "write", "overwrite"}
  /\ savePc' = [savePc EXCEPT ![c] = "failed"]
  /\ UNCHANGED <<chunks, txt, disk>>

(* The caller of save goes on, with or without an exception. *)
SaveReturn(c) ==
  /\ savePc' = [savePc EXCEPT ![c] = "none"]
  /\ UNCHANGED <<txt, disk>>

=============================================================================
