--------------------------- MODULE FileMergeSession ---------------------------
(***************************************************************************)
(* The T1 phase of startFileMergeSession, src/core/sessions/               *)
(* LogSessionManager.ts, from the start of the k-way merge to the final    *)
(* refresh.                                                                *)
(*                                                                         *)
(* mergeDirectory calls the session's asynchronous onBatch for each batch  *)
(* and does not await it, so there is one task per batch, and the tasks    *)
(* and the session itself (Main) share the chunk writer, the manifest and  *)
(* the pagination service.  When the merge is over Main flushes the rest,  *)
(* saves, reloads the reader and announces the total, whether or not the   *)
(* tasks are done.                                                         *)
(***************************************************************************)
EXTENDS LogSession

CONSTANTS
  BatchSize, \* batchSize of the merge
  MaxManifestFaults \* bound on the errors of reading and writing manifest.json

Tasks == Callers \ {Main}

ASSUME FileMergeAssumption ==
  /\ Main \in Callers
  /\ BatchSize \in 1..MaxBatch
  /\ MaxManifestFaults \in Nat

VARIABLES
  dirSet,           \* is the service's manifestDir this session's outDir
  refreshTotal      \* the total announced by the final onRefresh, or -1

sessionVars == <<paginationOpened, stage, dirSet, refreshTotal, manifestFaults>>
mergeVars == <<storeVars, sessionVars>>

MergeInit ==
  /\ StoreInit
  /\ paginationOpened = FALSE
  /\ stage = [c \in Callers |-> IF c = Main THEN "merge" ELSE "none"]
  /\ dirSet = FALSE
  /\ refreshTotal = -1
  /\ manifestFaults = 0

(* Reading or writing manifest.json may fail once more. *)
MergeFault ==
  /\ manifestFaults < MaxManifestFaults
  /\ manifestFaults' = manifestFaults + 1

(* Calls that run up to their first await: setManifestDir does nothing     *)
(* when the directory is the current one, and reload nothing when there is *)
(* none, as after an early open that failed; otherwise they open a reader. *)
SetManifestDir == IF dirSet THEN "dirSet" ELSE "readForDir"
Reload == IF dirSet THEN "readForReload" ELSE "deliver"

(* The end of the session: an open if no task has set the guard, and then  *)
(* a reload in any case.                                                   *)
Finalize == IF paginationOpened THEN Reload ELSE SetManifestDir

(* A continuation of the writer or of the session is ready to run. *)
MergeReady ==
  \/ WriterReady
  \/ \E c \in Callers : savePc[c] \in {"saved", "failed"} \/ stage[c] = "dirSet"

-----------------------------------------------------------------------------
(* The k-way loop has a full batch, or the merge is over with a partial    *)
(* one: onBatch starts, and runs up to its first await inside appendBatch. *)
EmitBatch(t) ==
  /\ stage[Main] = "merge"
  /\ stage[t] = "none"
  /\ emitted < NumLines
  /\ CallAppend(t, IF NumLines - emitted < BatchSize
                   THEN NumLines - emitted ELSE BatchSize)
  /\ Goto(t, "append")
  /\ UNCHANGED <<manifestVars, mergedSoFar, readerVars, paginationOpened,
                 dirSet, refreshTotal, manifestFaults>>

(* The heap is empty, or the session was aborted: mergeDirectory returns   *)
(* and Main calls flushRemainder.                                          *)
EndMerge ==
  /\ stage[Main] = "merge"
  /\ CallFlush(Main)
  /\ Goto(Main, "append")
  /\ UNCHANGED <<manifestVars, mergedSoFar, readerVars, paginationOpened,
                 dirSet, refreshTotal, manifestFaults>>

(* appendBatch or flushRemainder returns.  A task always saves; Main only  *)
(* when there was a remainder.  An exception ends the task or the session. *)
MergeTakeParts(c) ==
  /\ stage[c] = "append"
  /\ Collect(c)
  /\ \/ pc[c] = "failed" /\ Goto(c, "failed")
     \/ /\ pc[c] = "returned"
        /\ Goto(c, IF c = Main /\ results[c] = <<>> THEN Finalize ELSE "add")
  /\ UNCHANGED <<manifestVars, mergedSoFar, added, readerVars, paginationOpened,
                 dirSet, refreshTotal, manifestFaults>>

(* One turn of the loop over the created parts, or its end and the call of *)
(* save.                                                                   *)
MergeAddParts(c) ==
  /\ stage[c] = "add"
  /\ \/ AddPart(c) /\ UNCHANGED <<saveVars, stage>>
     \/ /\ added[c] = Len(results[c])
        /\ SaveCall(c)
        /\ Goto(c, "save")
        /\ UNCHANGED <<chunks, mergedSoFar, added>>
  /\ UNCHANGED <<chunkVars, readerVars, paginationOpened, dirSet, refreshTotal,
                 manifestFaults>>

(* A step of save, with its I/O errors. *)
MergeSaveStep(c) ==
  /\ ~MergeReady
  /\ \/ SaveSnapshot(c) /\ UNCHANGED manifestFaults
     \/ SaveRename(c) /\ UNCHANGED manifestFaults
     \/ SaveOverwrite(c) /\ UNCHANGED manifestFaults
     \/ SaveRenameFails(c) /\ MergeFault
     \/ SaveFails(c) /\ MergeFault
  /\ UNCHANGED <<chunkVars, mergedSoFar, added, readerVars, paginationOpened,
                 stage, dirSet, refreshTotal>>

(* save returns.  A task that finds the pagination closed and a chunk in   *)
(* the manifest opens it; the guard is set only when the open is over.     *)
MergeAfterSave(c) ==
  /\ stage[c] = "save"
  /\ SaveReturn(c)
  /\ \/ savePc[c] = "failed" /\ Goto(c, "failed")
     \/ /\ savePc[c] = "saved"
        /\ Goto(c, IF c = Main THEN Finalize
                   ELSE IF ~paginationOpened /\ Len(chunks) > 0 THEN SetManifestDir
                   ELSE "done")
  /\ UNCHANGED <<chunkVars, chunks, mergedSoFar, added, readerVars,
                 paginationOpened, dirSet, refreshTotal, manifestFaults>>

(* Variant: an open that finds a torn file is tried again for ever. *)
MergeOpenReadRetries(c) ==
  /\ ~MergeReady
  /\ stage[c] \in {"readForDir", "readForReload"}
  /\ \/ disk = Torn /\ UNCHANGED <<stage, readerVars>>
     \/ /\ ReadManifest(c)
        /\ Goto(c, IF stage[c] = "readForDir" THEN "openForDir" ELSE "openForReload")
  /\ UNCHANGED <<chunkVars, manifestVars, mergedSoFar, added, paginationOpened,
                 dirSet, refreshTotal, manifestFaults>>

(* PagedReader.open reads manifest.json with readFile, which gives its     *)
(* content at some moment.  It may fail, and a torn file does not parse:   *)
(* the exception is caught, a task goes on and Main gives up reloading.    *)
MergeOpenRead(c) ==
  /\ ~MergeReady
  /\ stage[c] \in {"readForDir", "readForReload"}
  /\ \/ /\ (disk = Torn /\ UNCHANGED manifestFaults) \/ MergeFault
        /\ Goto(c, IF c = Main THEN "deliver" ELSE "dirSet")
        /\ UNCHANGED readerVars
     \/ /\ ReadManifest(c)
        /\ Goto(c, IF stage[c] = "readForDir" THEN "openForDir" ELSE "openForReload")
        /\ UNCHANGED manifestFaults
  /\ UNCHANGED <<chunkVars, manifestVars, mergedSoFar, added, paginationOpened,
                 dirSet, refreshTotal>>

(* The new reader is installed when the awaiting call is resumed. *)
MergeOpenDone(c) ==
  /\ ~MergeReady
  /\ stage[c] \in {"openForDir", "openForReload"}
  /\ InstallReader(c)
  /\ dirSet' = TRUE
  /\ Goto(c, IF stage[c] = "openForDir" THEN "dirSet" ELSE "deliver")
  /\ UNCHANGED <<chunkVars, manifestVars, mergedSoFar, added, paginationOpened,
                 refreshTotal, manifestFaults>>

(* setManifestDir returns. *)
MergeAfterSetDir(c) ==
  /\ stage[c] = "dirSet"
  /\ paginationOpened' = TRUE
  /\ Goto(c, IF c = Main THEN Reload ELSE "done")
  /\ UNCHANGED <<storeVars, dirSet, refreshTotal, manifestFaults>>

(* The last page is read and delivered, then the total is announced. *)
MergeDeliver ==
  /\ ~MergeReady
  /\ stage[Main] = "deliver"
  /\ refreshTotal' = MergedLines
  /\ Goto(Main, "done")
  /\ UNCHANGED <<storeVars, paginationOpened, dirSet, manifestFaults>>

(* The chunk writer's own steps, and appendBatch going on in its loop. *)
MergeWriterStep ==
  /\ \/ FlushStart
     \/ \E c \in Callers : ResumeBatch(c)
     \/ ~MergeReady /\ FlushIO
  /\ UNCHANGED <<manifestVars, mergedSoFar, added, readerVars, sessionVars>>

Ended == \A c \in Callers : stage[c] \in {"none", "done", "failed"}

(* A session that has ended stays as it is. *)
Terminated == Ended /\ UNCHANGED mergeVars

MergeStep ==
  \/ MergeWriterStep
  \/ \E t \in Tasks : EmitBatch(t)
  \/ \E c \in Callers : MergeTakeParts(c)
  \/ \E c \in Callers : MergeSaveStep(c)
  \/ \E c \in Callers : MergeAfterSave(c)
  \/ \E c \in Callers : MergeOpenRead(c)
  \/ \E c \in Callers : MergeOpenDone(c)
  \/ \E c \in Callers : MergeAfterSetDir(c)
  \/ EndMerge
  \/ MergeDeliver
  \/ Terminated

(* No caller is inside the loop over its created parts, which has no await *)
(* in it: the model takes one step per turn, and nothing else meanwhile.   *)
MergeNoneAdding == \A c \in Callers : stage[c] # "add"

MergeNext ==
  \/ \E c \in Callers : MergeAddParts(c)
  \/ MergeNoneAdding /\ MergeStep

MergeSpec == MergeInit /\ [][MergeNext]_mergeVars

(* Every continuation that is ready runs, every I/O call settles, and the  *)
(* merge comes to its end.                                                 *)
FairSpec == MergeSpec /\ WF_mergeVars(MergeNext)

-----------------------------------------------------------------------------
SessionStages == {"none", "merge", "append", "add", "save", "readForDir",
                  "openForDir", "dirSet", "readForReload", "openForReload",
                  "deliver", "done", "failed"}

(* Type invariant of the session's own state. *)
SessionTypeOK ==
  /\ paginationOpened \in BOOLEAN
  /\ stage \in [Callers -> SessionStages]
  /\ dirSet \in BOOLEAN
  /\ refreshTotal \in Nat \cup {-1}
  /\ manifestFaults \in Nat

(* The session ends, and so does every task it started: none of them waits *)
(* for ever on the chain of flushes that they share.                       *)
EverythingEnds == <>[]Ended

=============================================================================
