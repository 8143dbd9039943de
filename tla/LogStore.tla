------------------------------- MODULE LogStore -------------------------------
(***************************************************************************)
(* What the sessions of src/core/sessions/LogSessionManager.ts do with the *)
(* chunk writer, the manifest and the reader of the pagination service:    *)
(* the parts that a call of the writer returns are added to the manifest   *)
(* at the session's running total, the manifest is saved, and a reader is  *)
(* opened on what was saved.                                               *)
(*                                                                         *)
(* Any number of tasks do so concurrently.  The order of the steps of one  *)
(* task is left to the sessions, FileMergeSession and RealtimeSession,     *)
(* which are made of these steps.                                          *)
(***************************************************************************)
EXTENDS ChunkWriter, ManifestWriter

CONSTANT NoReader  \* the pagination service has no reader yet

VARIABLES
  mergedSoFar,  \* the session's count of the lines in the manifest
  added,        \* added[c]: how many parts of its last call c has added
  opened,       \* opened[c]: the chunks that c's PagedReader.open has read
  reader        \* the chunks of the service's reader, or NoReader

readerVars == <<opened, reader>>
storeVars  == <<chunkVars, manifestVars, mergedSoFar, added, readerVars>>

(* Line i of the log, counted from 1, is in the part that chunk x lists. *)
HasLine(x, i) == i \in x.start + 1 .. x.start + x.lines

(* The chunks cs cover their lines without a gap and without an overlap.   *)
(* The last two conjuncts follow from the others.                          *)
Tiled(cs) ==
  /\ cs # <<>> => cs[1].start = 0
  /\ \A k \in 1..(Len(cs) - 1) : cs[k + 1].start = cs[k].start + cs[k].lines
  /\ \A j, k \in 1..Len(cs) : j < k => cs[j].start + cs[j].lines <= cs[k].start
  /\ \A i \in 1..MergedLinesOf(cs) : \E k \in 1..Len(cs) : HasLine(cs[k], i)

(* A manifest that was found was written by a session, so it lists parts   *)
(* of the directory, none of them twice, and covers their lines;           *)
(* loadOrCreate sorts it.                                                  *)
ASSUME LoadedAssumption ==
  /\ LoadedChunks \in Seq(Chunk)
  /\ Tiled(LoadedChunks)
  /\ \A k \in 1..Len(LoadedChunks) :
       /\ LoadedChunks[k].file \in OldParts
       /\ LoadedChunks[k].lines = OldLines[LoadedChunks[k].file]
  /\ \A j, k \in 1..Len(LoadedChunks) :
       LoadedChunks[j].file = LoadedChunks[k].file => j = k

ASSUME StoreAssumption ==
  /\ Savers = Callers
  /\ StartIndex = Len(LoadedChunks)

StoreInit ==
  /\ ChunkInit
  /\ ManifestInit
  /\ mergedSoFar = MergedLinesOf(LoadedChunks)
  /\ added = [c \in Callers |-> 0]
  /\ opened = [c \in Callers |-> <<>>]
  /\ reader = NoReader

-----------------------------------------------------------------------------
(* appendBatch or flushRemainder is called; none of the parts it will      *)
(* return has been added.                                                  *)
CallAppend(c, n) ==
  /\ AppendBatch(c, n)
  /\ added' = [added EXCEPT ![c] = 0]

CallFlush(c) ==
  /\ FlushRemainder(c)
  /\ added' = [added EXCEPT ![c] = 0]

(* Variant: the start of a part is counted from its batch. *)
AddPartLocal(c) ==
  /\ added[c] < Len(results[c])
  /\ LET p == results[c][added[c] + 1] IN
       /\ AddChunk(p.file, p.lines, 0)
       /\ mergedSoFar' = mergedSoFar + p.lines
  /\ added' = [added EXCEPT ![c] = @ + 1]

(* One turn of the loop over the parts that a call has returned. *)
AddPart(c) ==
  /\ added[c] < Len(results[c])
  /\ LET p == results[c][added[c] + 1] IN
       /\ AddChunk(p.file, p.lines, mergedSoFar)
       /\ mergedSoFar' = mergedSoFar + p.lines
  /\ added' = [added EXCEPT ![c] = @ + 1]

(* PagedReader.open has read manifest.json; a torn one does not parse. *)
ReadManifest(c) ==
  /\ disk # Torn
  /\ opened' = [opened EXCEPT ![c] = disk]
  /\ reader' = reader

(* The new reader is installed in the pagination service. *)
InstallReader(c) ==
  /\ reader' = opened[c]
  /\ opened' = [opened EXCEPT ![c] = <<>>]

-----------------------------------------------------------------------------
(* The steps, of which a session takes some. *)
CallStep(c) ==
  /\ \/ \E n \in 1..MaxBatch : emitted + n <= NumLines /\ CallAppend(c, n)
     \/ CallFlush(c)
  /\ UNCHANGED <<manifestVars, mergedSoFar, readerVars>>

WorkStep ==
  /\ \/ \E c \in Callers : ResumeBatch(c) \/ Collect(c)
     \/ FlushStart
     \/ FlushIO
  /\ UNCHANGED <<manifestVars, mergedSoFar, added, readerVars>>

AddStep(c) == AddPart(c) /\ UNCHANGED <<chunkVars, saveVars, readerVars>>

SaveStoreStep(c) ==
  /\ \/ SaveSnapshot(c) \/ SaveRename(c) \/ SaveOverwrite(c) \/ SaveRenameFails(c)
     \/ SaveFails(c)
     \/ (SaveCall(c) \/ SaveReturn(c)) /\ UNCHANGED chunks
  /\ UNCHANGED <<chunkVars, mergedSoFar, added, readerVars>>

OpenStep(c) ==
  /\ ReadManifest(c) \/ InstallReader(c)
  /\ UNCHANGED <<chunkVars, manifestVars, mergedSoFar, added>>

StoreNext ==
  \/ WorkStep
  \/ \E c \in Callers : CallStep(c) \/ AddStep(c) \/ SaveStoreStep(c) \/ OpenStep(c)

StoreSpec == StoreInit /\ [][StoreNext]_storeVars

-----------------------------------------------------------------------------
SaveStages == {"none", "mkdir", "write", "overwrite", "saved", "failed"}

(* Type invariant of the manifest, the session's total and the reader. *)
StoreTypeOK ==
  /\ chunks \in Seq(Chunk)
  /\ savePc \in [Callers -> SaveStages]
  /\ txt \in [Callers -> Seq(Chunk)]
  /\ disk \in Seq(Chunk) \cup {Torn}
  /\ mergedSoFar \in Nat
  /\ added \in [Callers -> Nat]
  /\ opened \in [Callers -> Seq(Chunk)]
  /\ reader \in Seq(Chunk) \cup {NoReader}

IsPrefixOf(s, t) == Len(s) <= Len(t) /\ \A i \in 1..Len(s) : s[i] = t[i]

(* However the additions of the tasks interleave, the chunks of the        *)
(* manifest cover the lines 0..mergedSoFar-1 without a gap or an overlap:  *)
(* that is what lets a reader find a line by its number.                   *)
ManifestTiles == mergedSoFar = MergedLines /\ Tiled(chunks)

(* Chunk k lists a part that cannot have been replaced: one of this        *)
(* session, or one of an earlier session in a directory that was read.     *)
Sound(k) == ~blind \/ k > Len(LoadedChunks)

(* The manifest lists no part twice, and each part it lists is in outDir   *)
(* with the number of lines it claims; the parts of earlier sessions, as   *)
(* long as the directory could be read.                                    *)
ManifestPartsExist ==
  /\ \A k \in 1..Len(chunks) : Sound(k) =>
       /\ chunks[k].file \in DOMAIN parts
       /\ chunks[k].lines = Len(parts[chunks[k].file])
  /\ \A j, k \in 1..Len(chunks) :
       Sound(j) /\ Sound(k) /\ chunks[j].file = chunks[k].file => j = k

(* At whatever moment the process dies, manifest.json is a beginning of    *)
(* the chunk list, so it lists complete parts only, unless the fallback    *)
(* that overwrites it in place was interrupted.                            *)
DiskIsPrefix == disk # Torn => IsPrefixOf(disk, chunks)

(* The reader that serves pages was opened on a beginning of the list. *)
ReaderIsPrefix == reader # NoReader => IsPrefixOf(reader, chunks)

(* The store implements the append-only log that its readers rely on. *)
Log == INSTANCE MergedLog WITH Loaded <- LoadedChunks, log <- chunks,
                               saved <- disk, view <- reader

ImplementsMergedLog == Log!LogSpec

(* The line at index i, from 1, of the log that the chunks cs list. *)
RowOf(cs, i) ==
  LET k == CHOOSE k \in DOMAIN cs : HasLine(cs[k], i)
  IN  parts[cs[k].file][i - cs[k].start]

(* The line at an index of the log stays there, whatever is written and    *)
(* added later: a viewer that addresses lines by index never sees another  *)
(* one in its place.  Lines of earlier sessions, as long as the directory  *)
(* could be read.                                                          *)
RowsKept ==
  [][\A i \in 1..MergedLines :
       /\ i <= MergedLines'
       /\ ~blind' \/ i > MergedLinesOf(LoadedChunks) =>
            RowOf(chunks, i)' = RowOf(chunks, i)]_storeVars

=============================================================================
