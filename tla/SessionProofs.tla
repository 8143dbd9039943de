---------------------------- MODULE SessionProofs ----------------------------
(***************************************************************************)
(* Proofs about the two sessions of LogSessionManager.ts, for any number   *)
(* of tasks in flight.  Both take only steps of the log store, so all that *)
(* is proved of the store and of the chunk writer holds in them.  Of the   *)
(* realtime session it is also proved that the rows it sends are those of  *)
(* the log, that no line is left in its queue, and that a session that     *)
(* ends with no pulse running and no error has written every line.  The    *)
(* proofs of the first part cite FileMergeAssumption, those of the second  *)
(* RealtimeAssumption.                                                     *)
(***************************************************************************)
EXTENDS FileMergeSession, RealtimeSession, LogStoreProofs

USE SMTT(30), Zenon   \* of every step that names no prover: SMT with 30 s, then Zenon

-----------------------------------------------------------------------------
(* The file-merge session.                                                 *)

(* A step of the session is a step of the store or leaves it alone. *)
LEMMA MergeStoreSteps ==
  ASSUME ChunkInv, [MergeNext]_mergeVars
  PROVE  [StoreNext]_storeVars
<1>0. /\ emitted \in 0..NumLines /\ NumLines \in Nat /\ BatchSize \in 1..MaxBatch
      /\ MaxBatch \in Nat /\ Main \in Callers
  BY ChunkWriterAssumption, FileMergeAssumption DEF ChunkInv, ChunkTypeOK
<1>1. CASE MergeWriterStep
  BY <1>1 DEF MergeWriterStep, WorkStep, StoreNext
<1>2. ASSUME NEW t \in Tasks, EmitBatch(t) PROVE StoreNext
  <2>1. PICK n \in 1..MaxBatch : emitted + n <= NumLines /\ CallAppend(t, n)
    <3> DEFINE n == IF NumLines - emitted < BatchSize THEN NumLines - emitted ELSE BatchSize
    <3>1. emitted < NumLines /\ CallAppend(t, n)
      BY <1>2 DEF EmitBatch
    <3>2. n \in 1..MaxBatch /\ emitted + n <= NumLines
      BY <1>0, <3>1
    <3> HIDE DEF n
    <3> QED BY <3>1, <3>2
  <2>2. t \in Callers
    BY DEF Tasks
  <2> QED BY <1>2, <2>1, <2>2 DEF EmitBatch, CallStep, StoreNext
<1>3. CASE EndMerge
  BY <1>0, <1>3 DEF EndMerge, CallStep, StoreNext
<1>4. ASSUME NEW c \in Callers, MergeTakeParts(c) PROVE StoreNext
  BY <1>4 DEF MergeTakeParts, WorkStep, StoreNext
<1>5. ASSUME NEW c \in Callers, MergeAddParts(c) PROVE StoreNext
  BY <1>5 DEF MergeAddParts, AddStep, SaveStoreStep, StoreNext
<1>6. ASSUME NEW c \in Callers, MergeSaveStep(c) PROVE StoreNext
  BY <1>6 DEF MergeSaveStep, SaveStoreStep, StoreNext
<1>7. ASSUME NEW c \in Callers, MergeAfterSave(c) PROVE StoreNext
  BY <1>7 DEF MergeAfterSave, SaveStoreStep, StoreNext
<1>8. ASSUME NEW c \in Callers, MergeOpenRead(c) PROVE [StoreNext]_storeVars
  BY <1>8 DEF MergeOpenRead, OpenStep, StoreNext, storeVars
<1>9. ASSUME NEW c \in Callers, MergeOpenDone(c) PROVE StoreNext
  BY <1>9 DEF MergeOpenDone, OpenStep, StoreNext
<1>10. ASSUME NEW c \in Callers, MergeAfterSetDir(c) PROVE UNCHANGED storeVars
  BY <1>10 DEF MergeAfterSetDir
<1>11. CASE MergeDeliver \/ Terminated \/ UNCHANGED mergeVars
  BY <1>11 DEF MergeDeliver, Terminated, mergeVars
<1> QED BY <1>1, <1>2, <1>3, <1>4, <1>5, <1>6, <1>7, <1>8, <1>9, <1>10, <1>11 DEF MergeNext, MergeStep

(* The session uses the chunk writer, the manifest and the reader only as  *)
(* the log store allows: what is proved of the store for any order of its  *)
(* steps holds for the tasks of startFileMergeSession.                     *)
THEOREM SessionImplementsStore == MergeSpec => StoreSpec
<1>1. MergeInit => StoreInit
  BY DEF MergeInit
<1>2. StoreInit => ChunkInv
  BY InitInv DEF StoreInit
<1>3. ChunkInv /\ [MergeNext]_mergeVars => [StoreNext]_storeVars
  BY MergeStoreSteps
<1>4. ChunkInv /\ [StoreNext]_storeVars => ChunkInv'
  BY WriterSteps, NextInv
<1> QED BY <1>1, <1>2, <1>3, <1>4, PTL DEF MergeSpec, StoreSpec

(* No line of a merge is stored twice or silently dropped, however many    *)
(* onBatch calls are in flight.                                            *)
THEOREM SessionKeepsLines == MergeSpec => [](LineStoredOnce /\ NoLineVanishes)
BY SessionImplementsStore, StoreImplementsWriter, LinesStoredOnce, LinesNeverVanish, PTL

(* The manifest of a merge never lists a part twice or one that is not in  *)
(* outDir with the lines it claims, whichever task adds it.                *)
THEOREM SessionListsParts == MergeSpec => []ManifestPartsExist
BY SessionImplementsStore, ManifestPartsAlwaysExist, PTL

(* A part that was renamed into place is never replaced, and a chunk waits *)
(* in memory with at most one line more for each queued flush.             *)
THEOREM SessionKeepsParts == MergeSpec => PartsImmutable /\ []OvershootBounded
BY SessionImplementsStore, StoreImplementsWriter, PartsAreImmutable, BufferLoad, PTL DEF LoadInv

(* The session, with any number of batches in flight and any I/O error,    *)
(* implements the append-only log of MergedLog.                            *)
THEOREM SessionImplementsLog == MergeSpec => ImplementsMergedLog
BY SessionImplementsStore, StoreImplementsLog, PTL

-----------------------------------------------------------------------------
LEMMA SessionInit == MergeInit => SessionTypeOK
<1> SUFFICES ASSUME MergeInit PROVE SessionTypeOK
  OBVIOUS
<1>1. stage \in [Callers -> SessionStages]
  BY DEF MergeInit, SessionStages
<1>2. refreshTotal = -1 /\ manifestFaults = 0 /\ paginationOpened = FALSE /\ dirSet = FALSE
  BY DEF MergeInit
<1> QED BY <1>1, <1>2, Zenon DEF SessionTypeOK

(* Every step preserves the types of the session's own state. *)
LEMMA SessionNext ==
  ASSUME LogInv, SessionTypeOK, [MergeNext]_mergeVars
  PROVE  SessionTypeOK'
<1> USE FileMergeAssumption DEF SessionTypeOK
<1>0. MergedLines \in Nat /\ Main \in Callers
  BY MergedLinesType DEF LogInv, StoreTypeOK, MergedLines
<1>1. ASSUME NEW c \in Callers, NEW v \in SessionStages
      PROVE  [stage EXCEPT ![c] = v] \in [Callers -> SessionStages]
  OBVIOUS
<1>2. /\ SetManifestDir \in SessionStages /\ Reload \in SessionStages /\ Finalize \in SessionStages
      /\ {"append", "add", "save", "failed", "done", "deliver", "dirSet", "openForDir",
          "openForReload"} \subseteq SessionStages
  BY DEF SetManifestDir, Reload, Finalize, SessionStages
<1>3. CASE MergeWriterStep \/ Terminated \/ UNCHANGED mergeVars
  BY <1>3 DEF MergeWriterStep, Terminated, mergeVars, sessionVars
<1>4. ASSUME NEW c \in Callers, EmitBatch(c) PROVE SessionTypeOK'
  BY <1>1, <1>2, <1>4 DEF EmitBatch, Goto
<1>5. CASE EndMerge
  BY <1>0, <1>1, <1>2, <1>5 DEF EndMerge, Goto
<1>6. ASSUME NEW c \in Callers, MergeTakeParts(c) PROVE SessionTypeOK'
  <2>1. PICK v \in SessionStages : stage' = [stage EXCEPT ![c] = v]
    BY <1>2, <1>6 DEF MergeTakeParts, Goto
  <2> QED BY <1>1, <1>6, <2>1 DEF MergeTakeParts
<1>7. ASSUME NEW c \in Callers, MergeAddParts(c) PROVE SessionTypeOK'
  <2>1. stage' \in [Callers -> SessionStages]
    BY <1>1, <1>2, <1>7 DEF MergeAddParts, Goto
  <2> QED BY <1>7, <2>1 DEF MergeAddParts
<1>8. ASSUME NEW c \in Callers, MergeSaveStep(c) PROVE SessionTypeOK'
  <2>1. manifestFaults' \in Nat
    BY <1>8 DEF MergeSaveStep, MergeFault
  <2> QED BY <1>8, <2>1 DEF MergeSaveStep
<1>9. ASSUME NEW c \in Callers, MergeAfterSave(c) PROVE SessionTypeOK'
  <2>1. PICK v \in SessionStages : stage' = [stage EXCEPT ![c] = v]
    BY <1>2, <1>9 DEF MergeAfterSave, Goto
  <2> QED BY <1>1, <1>9, <2>1 DEF MergeAfterSave
<1>10. ASSUME NEW c \in Callers, MergeOpenRead(c) PROVE SessionTypeOK'
  <2>1. PICK v \in SessionStages : stage' = [stage EXCEPT ![c] = v]
    BY <1>2, <1>10 DEF MergeOpenRead, Goto
  <2>2. manifestFaults' \in Nat
    BY <1>10 DEF MergeOpenRead, MergeFault
  <2> QED BY <1>1, <1>10, <2>1, <2>2 DEF MergeOpenRead
<1>11. ASSUME NEW c \in Callers, MergeOpenDone(c) PROVE SessionTypeOK'
  <2>1. PICK v \in SessionStages : stage' = [stage EXCEPT ![c] = v]
    BY <1>2, <1>11, Zenon DEF MergeOpenDone, Goto
  <2> QED BY <1>1, <1>11, <2>1 DEF MergeOpenDone
<1>12. ASSUME NEW c \in Callers, MergeAfterSetDir(c) PROVE SessionTypeOK'
  <2>1. PICK v \in SessionStages : stage' = [stage EXCEPT ![c] = v]
    BY <1>2, <1>12, Zenon DEF MergeAfterSetDir, Goto
  <2> QED BY <1>1, <1>12, <2>1 DEF MergeAfterSetDir
<1>13. CASE MergeDeliver
  BY <1>0, <1>1, <1>2, <1>13 DEF MergeDeliver, Goto
<1> QED BY <1>3, <1>4, <1>5, <1>6, <1>7, <1>8, <1>9, <1>10, <1>11, <1>12, <1>13
        DEF MergeNext, MergeStep, Tasks

(* LogSessionManager.ts keeps its types during a merge. *)
THEOREM SessionTypeCorrect == MergeSpec => [](SessionTypeOK /\ StoreTypeOK)
<1>1. MergeSpec => []StoreInv
  BY SessionImplementsStore, StoreInvariant, PTL
<1>2. StoreInv => LogInv /\ StoreTypeOK
  BY DEF StoreInv, LogInv
<1>3. LogInv /\ SessionTypeOK /\ [MergeNext]_mergeVars => SessionTypeOK'
  BY SessionNext
<1> QED BY <1>1, <1>2, <1>3, SessionInit, PTL DEF MergeSpec

-----------------------------------------------------------------------------
(* The realtime session.                                                   *)

Calling   == {"append", "remainder"}
Adding    == {"add", "addLast"}
Opening   == {"connect", "prepare", "opening"}
(* The stages of Main after the final flushRemainder has returned. *)
LastStages == {"addLast", "saveLast", "readForLast", "openForLast", "lastPage",
               "deliverLast", "done"}
(* The stages of Main after the end of the stream. *)
EndStages == {"drain", "append", "add", "save", "readForDir", "openForDir", "dirSet",
              "readForReload", "openForReload", "page", "deliver", "remainder"}
             \cup LastStages

(* The stages of a flush and of the end of the session. *)
FlushStages == EndStages \ {"drain", "done"}

(* The types of the session's own state, without the pages. *)
ControlOK ==
  /\ link \in {"ADB", "SSH", "none"}
  /\ received \in 0..NumLines
  /\ timer \in BOOLEAN
  /\ paginationOpened \in BOOLEAN
  /\ stage \in [Callers -> RealtimeStages]
  /\ alone \in BOOLEAN
  /\ manifestFaults \in Nat

(* The queue and the timer. *)
QueueInv ==
  /\ emitted <= received
  /\ stage[Main] \in Opening => received = 0
  /\ Pending > 0 => \/ stage[Main] \in {"stream", "drain", "aborted"}
                    \/ stage[Main] = "failed" /\ timer
  /\ stage[Main] = "stream" /\ link = "ADB" /\ Pending > 0 => timer
  /\ stage[Main] = "done" => ~timer

(* A caller is inside a call of the writer in these stages only. *)
StageInv == \A c \in Callers : pc[c] = "idle" <=> stage[c] \notin Calling

(* Without an error a caller has added all its parts when it goes on. *)
AddedInv ==
  \A c \in Callers :
    /\ added[c] <= Len(results[c])
    /\ stage[c] \in Calling => added[c] = 0
    /\ NoFaults /\ stage[c] \notin Calling \cup Adding => added[c] = Len(results[c])

SavedInv == manifestFaults = 0 => \A c \in Callers : savePc[c] # "failed"

(* Every part with a line of the stream is listed or is to be added. *)
Listed(n) == \/ \E k \in 1..Len(chunks) : chunks[k].file = n
             \/ \E c \in Callers : \E i \in Unlisted(c) : results[c][i].file = n

AllListed ==
  \A n \in DOMAIN parts : (\E i \in DOMAIN parts[n] : parts[n][i] # OldLine) => Listed(n)

ListedInv == NoFaults => AllListed

(* Where flushRemainder can be. *)
Ending == {"remainder", "returned", "failed"}

(* The end of a session that no pulse accompanies. *)
EndInv ==
  alone =>
    /\ stage[Main] \in EndStages
    /\ \A t \in Pulses : stage[t] = "none"
    /\ stage[Main] = "remainder" => pc[Main] \in Ending
    /\ NoFaults =>
         /\ stage[Main] \in LastStages => currentBuffer = <<>>
         /\ stage[Main] = "remainder" /\ (pc[Main] = "returned" \/ run.stage \in {"write", "rename"})
              => currentBuffer = <<>>

-----------------------------------------------------------------------------
(* The steps that the writer takes by itself leave a caller that is not in *)
(* a call alone, and end no call.                                          *)
LEMMA WriterAlone ==
  ASSUME ChunkInv, FlushStart \/ FlushIO \/ \E c \in Callers : ResumeBatch(c)
  PROVE  /\ emitted' = emitted
         /\ \A d \in Callers : pc'[d] = "idle" <=> pc[d] = "idle"
         /\ \A d \in Callers : pc[d] = "idle" => results'[d] = results[d]
<1>0. pc \in [Callers -> CallStates] /\ chain \in Seq(Callers) /\ results \in [Callers -> Seq(Part)]
  BY DEF ChunkInv, ChunkTypeOK
<1>1. CASE \E c \in Callers : ResumeBatch(c)
  BY <1>0, <1>1, ZenonT(30) DEF ResumeBatch, PushLines, diskVars
<1>2. CASE FlushStart \/ FlushIO
  <2> DEFINE h == Head(chain)
  <2>1. chain # <<>>
    BY <1>2 DEF ChunkInv, ChainInv, FlushStart, FlushIO, FlushReadDir, FlushReadDirFails,
                FlushWriteTmp, FlushRename, FlushRenameBusy, FlushRenameNoEnt, FlushFail
  <2>2. h \in Callers /\ pc[h] \in Awaiting
    <3>1. 1 \in 1..Len(chain) /\ chain[1] = h /\ h \in Callers
      BY <1>0, <2>1
    <3> QED BY <3>1 DEF ChunkInv, ChainInv, Matches
  <2>3. /\ emitted' = emitted
        /\ pc' = pc \/ \E v \in {"resume", "returned", "failed"} : pc' = [pc EXCEPT ![h] = v]
        /\ \A d \in Callers : d # h => results'[d] = results[d]
    <3>1. ASSUME NEW p, Resolve(p)
          PROVE  /\ \E v \in {"resume", "returned", "failed"} : pc' = [pc EXCEPT ![h] = v]
                 /\ \A d \in Callers : d # h => results'[d] = results[d]
      BY <1>0, <2>2, <3>1 DEF Resolve
    <3>2. ASSUME Snapshot
          PROVE  /\ emitted' = emitted
                 /\ pc' = pc \/ \E v \in {"resume", "returned", "failed"} : pc' = [pc EXCEPT ![h] = v]
                 /\ \A d \in Callers : d # h => results'[d] = results[d]
      BY <3>1, <3>2 DEF Snapshot, callVars
    <3>3. CASE FlushStart
      BY <3>2, <3>3 DEF FlushStart, callVars, diskVars
    <3>4. CASE FlushReadDir \/ FlushReadDirFails
      BY <3>2, <3>4 DEF FlushReadDir, FlushReadDirFails
    <3>5. CASE FlushWriteTmp \/ FlushRenameBusy \/ FlushRenameNoEnt
      BY <3>5 DEF FlushWriteTmp, FlushRenameBusy, FlushRenameNoEnt, callVars, diskVars
    <3>6. CASE FlushRename
      BY <3>1, <3>6 DEF FlushRename
    <3>7. CASE FlushFail
      BY <3>7 DEF FlushFail, Reject
    <3> QED BY <1>2, <3>3, <3>4, <3>5, <3>6, <3>7, ZenonT(30) DEF FlushIO
  <2> HIDE DEF h
  <2> QED BY <1>0, <2>2, <2>3 DEF Awaiting
<1> QED BY <1>1, <1>2

(* The calls of the writer. *)
LEMMA CallFacts ==
  ASSUME ChunkInv, NEW c \in Callers, NEW n \in Nat,
         (CallAppend(c, n) /\ emitted' = emitted + n) \/ (CallFlush(c) /\ emitted' = emitted)
  PROVE  /\ pc[c] = "idle"
         /\ \A d \in Callers : IF d = c THEN pc'[d] # "idle" ELSE pc'[d] = pc[d]
         /\ results' = [results EXCEPT ![c] = <<>>]
         /\ added' = [added EXCEPT ![c] = 0]
         /\ parts' = parts /\ run' = run /\ faults' = faults
<1>0. pc \in [Callers -> CallStates]
  BY DEF ChunkInv, ChunkTypeOK
<1>1. pc[c] = "idle" /\ \E v \in CallStates \ {"idle"} : pc' = [pc EXCEPT ![c] = v]
  BY DEF CallAppend, CallFlush, AppendBatch, FlushRemainder, PushLines, CallStates
<1>2. /\ results' = [results EXCEPT ![c] = <<>>]
      /\ added' = [added EXCEPT ![c] = 0]
      /\ parts' = parts /\ run' = run /\ faults' = faults
  BY DEF CallAppend, CallFlush, AppendBatch, FlushRemainder, diskVars
<1> QED BY <1>0, <1>1, <1>2

(* A flush takes the whole queue. *)
LEMMA FlushTakesAll ==
  ASSUME ChunkInv, received \in 0..NumLines, NEW c \in Callers, StartFlush(c)
  PROVE  /\ Pending \in 1..MaxBatch
         /\ emitted + Pending <= NumLines
         /\ emitted' = received
         /\ CallAppend(c, Pending) /\ emitted' = emitted + Pending
         /\ stage' = [stage EXCEPT ![c] = "append"]
<1>1. /\ emitted \in Nat /\ NumLines \in Nat /\ MaxBatch \in Nat /\ MaxBatch >= NumLines
      /\ received \in Nat
  <2>1. emitted \in 0..NumLines /\ NumLines \in Nat
    BY ChunkWriterAssumption DEF ChunkInv, ChunkTypeOK
  <2> QED BY <2>1, ChunkWriterAssumption, RealtimeAssumption
<1>2. Pending > 0 /\ CallAppend(c, Pending) /\ stage' = [stage EXCEPT ![c] = "append"]
  BY DEF StartFlush, Goto
<1>3. emitted' = emitted + Pending
  BY <1>2 DEF CallAppend, AppendBatch
<1> QED BY <1>1, <1>2, <1>3 DEF Pending

(* A step of the session is a step of the store or leaves it alone. *)
LEMMA StoreSteps ==
  ASSUME ChunkInv, received \in 0..NumLines, [Next]_vars
  PROVE  [StoreNext]_storeVars
<1>0. Main \in Callers
  BY RealtimeAssumption
<1>1. ASSUME NEW c \in Callers, StartFlush(c), UNCHANGED <<manifestVars, mergedSoFar, readerVars>>
      PROVE  StoreNext
  <2>1. \E n \in 1..MaxBatch : emitted + n <= NumLines /\ CallAppend(c, n)
    BY <1>1, FlushTakesAll
  <2> QED BY <1>1, <2>1 DEF CallStep, StoreNext
<1>2. CASE Drain
  BY <1>0, <1>1, <1>2 DEF Drain, CallStep, StoreNext
<1>3. ASSUME NEW t \in Pulses, Pulse(t) PROVE [StoreNext]_storeVars
  <2>1. t \in Callers
    BY DEF Pulses
  <2> QED BY <1>1, <1>3, <2>1 DEF Pulse, storeVars
<1>4. CASE WriterStep
  BY <1>4 DEF WriterStep, WorkStep, StoreNext
<1>5. ASSUME NEW c \in Callers, TakeParts(c) PROVE StoreNext
  <2>1. Collect(c) /\ UNCHANGED <<manifestVars, mergedSoFar, added, readerVars>>
    BY <1>5, Zenon DEF TakeParts
  <2> QED BY <2>1, Zenon DEF WorkStep, StoreNext
<1>6. ASSUME NEW c \in Callers, AddParts(c) PROVE StoreNext
  <2>1. AddStep(c) \/ SaveStoreStep(c)
    BY <1>6, Zenon DEF AddParts, AddStep, SaveStoreStep
  <2> QED BY <2>1, Zenon DEF StoreNext
<1>7. ASSUME NEW c \in Callers, SaveStep(c) PROVE StoreNext
  <2>1. SaveStoreStep(c)
    BY <1>7, Zenon DEF SaveStep, SaveStoreStep
  <2> QED BY <2>1, Zenon DEF StoreNext
<1>8. ASSUME NEW c \in Callers, AfterSave(c) PROVE StoreNext
  BY <1>8, Zenon DEF AfterSave, SaveStoreStep, StoreNext
<1>9. ASSUME NEW c \in Callers, OpenRead(c) PROVE [StoreNext]_storeVars
  BY <1>9 DEF OpenRead, OpenStep, StoreNext, storeVars
<1>10. ASSUME NEW c \in Callers, OpenDone(c) PROVE StoreNext
  BY <1>10 DEF OpenDone, OpenStep, StoreNext
<1>11. ASSUME NEW c \in Callers, Deliver(c) PROVE [StoreNext]_storeVars
  BY <1>11 DEF Deliver, CallStep, StoreNext, storeVars
<1>12. ASSUME NEW c \in Callers, AfterSetDir(c) \/ ReadPage(c) PROVE UNCHANGED storeVars
  BY <1>12 DEF AfterSetDir, ReadPage
<1>13. CASE \/ StreamLine \/ StreamEnds \/ StreamFails \/ StopAll
            \/ Connect \/ Prepare \/ StreamOpens \/ UNCHANGED vars
  BY <1>13, Zenon DEF StreamLine, StreamEnds, StreamFails, StopAll, Connect, Prepare, StreamOpens, vars
<1> QED BY <1>2, <1>3, <1>4, <1>5, <1>6, <1>7, <1>8, <1>9, <1>10, <1>11, <1>12, <1>13, ZenonT(30)
        DEF Next, Step

(* The steps of a flush and of the end of the session. *)
Inner(c) == \/ TakeParts(c) \/ AddParts(c) \/ SaveStep(c) \/ AfterSave(c) \/ OpenRead(c)
            \/ OpenDone(c) \/ AfterSetDir(c) \/ ReadPage(c) \/ Deliver(c)

(* What these steps do to the stream, the queue and the stages. *)
LEMMA InnerKinds ==
  ASSUME ControlOK, NEW c \in Callers, Inner(c)
  PROVE  /\ UNCHANGED <<link, received, emitted, alone>>
         /\ paginationOpened' \in BOOLEAN
         /\ manifestFaults' \in Nat /\ manifestFaults' >= manifestFaults
         /\ \/ UNCHANGED <<stage, timer>>
            \/ /\ stage[c] \in FlushStages
               /\ \/ timer' = timer /\ \E v \in FlushStages : stage' = [stage EXCEPT ![c] = v]
                  \/ EndTask(c)
<1> DEFINE Kind == \/ UNCHANGED <<stage, timer>>
                   \/ /\ stage[c] \in FlushStages
                      /\ \/ timer' = timer /\ \E v \in FlushStages : stage' = [stage EXCEPT ![c] = v]
                         \/ EndTask(c)
<1>0. /\ manifestFaults \in Nat /\ paginationOpened \in BOOLEAN
      /\ FlushStages = {"append", "add", "save", "readForDir", "openForDir", "dirSet",
              "readForReload", "openForReload", "page", "deliver", "remainder", "addLast",
              "saveLast", "readForLast", "openForLast", "lastPage", "deliverLast"}
  BY DEF ControlOK, FlushStages, EndStages, LastStages
<1>1. CASE TakeParts(c)
  <2>1. Kind
    BY <1>0, <1>1 DEF TakeParts, Goto
  <2>2. UNCHANGED <<link, received, emitted, alone>> /\ UNCHANGED <<paginationOpened, manifestFaults>>
    BY <1>1, Zenon DEF TakeParts, Collect, diskVars, viewVars
  <2> QED BY <1>0, <2>1, <2>2
<1>2. CASE AddParts(c)
  <2>1. Kind
    BY <1>0, <1>2, Zenon DEF AddParts, Goto, streamVars
  <2>2. UNCHANGED <<link, received, emitted, alone>> /\ UNCHANGED <<paginationOpened, manifestFaults>>
    BY <1>2, Zenon DEF AddParts, chunkVars, diskVars, streamVars, viewVars
  <2> QED BY <1>0, <2>1, <2>2
<1>3. CASE SaveStep(c)
  <2>1. manifestFaults' \in Nat /\ manifestFaults' >= manifestFaults
    BY <1>0, <1>3 DEF SaveStep, ManifestFault
  <2>2. UNCHANGED <<link, received, emitted, alone, paginationOpened, stage, timer>>
    BY <1>3, Zenon DEF SaveStep, chunkVars, diskVars, streamVars, viewVars
  <2> QED BY <1>0, <2>1, <2>2, Zenon
<1>4. CASE AfterSave(c)
  <2>1. Kind
    BY <1>0, <1>4, Zenon DEF AfterSave, Goto
  <2>2. UNCHANGED <<link, received, emitted, alone>> /\ UNCHANGED <<paginationOpened, manifestFaults>>
    BY <1>4 DEF AfterSave, chunkVars, diskVars, viewVars
  <2> QED BY <1>0, <2>1, <2>2
<1>5. CASE OpenRead(c)
  <2>1. Kind
    BY <1>0, <1>5 DEF OpenRead, Goto
  <2>2. UNCHANGED <<link, received, emitted, alone, paginationOpened>>
    BY <1>5 DEF OpenRead, chunkVars, diskVars, viewVars
  <2>3. manifestFaults' \in Nat /\ manifestFaults' >= manifestFaults
    BY <1>0, <1>5 DEF OpenRead, ManifestFault
  <2> QED BY <1>0, <2>1, <2>2, <2>3
<1>6. CASE OpenDone(c)
  <2>1. Kind
    BY <1>0, <1>6, Zenon DEF OpenDone, Goto, streamVars
  <2>2. UNCHANGED <<link, received, emitted, alone>> /\ UNCHANGED <<paginationOpened, manifestFaults>>
    BY <1>6 DEF OpenDone, chunkVars, diskVars, streamVars, viewVars
  <2> QED BY <1>0, <2>1, <2>2
<1>7. CASE AfterSetDir(c) \/ ReadPage(c)
  <2>1. Kind
    BY <1>0, <1>7 DEF AfterSetDir, ReadPage, Goto, streamVars
  <2>2. /\ UNCHANGED <<link, received, emitted, alone>> /\ UNCHANGED <<manifestFaults>>
        /\ paginationOpened' \in BOOLEAN
    BY <1>0, <1>7, Zenon DEF AfterSetDir, ReadPage, storeVars, chunkVars, diskVars, streamVars
  <2> QED BY <1>0, <2>1, <2>2
<1>8. CASE Deliver(c)
  <2>1. Kind
    BY <1>0, <1>8 DEF Deliver, Goto
  <2>2. UNCHANGED <<link, received, emitted, alone>> /\ UNCHANGED <<paginationOpened, manifestFaults>>
    BY <1>8 DEF Deliver, CallFlush, FlushRemainder, chunkVars, diskVars
  <2> QED BY <1>0, <2>1, <2>2
<1> QED BY <1>1, <1>2, <1>3, <1>4, <1>5, <1>6, <1>7, <1>8, ZenonT(30) DEF Inner

(* Every step is one of these. *)
LEMMA RealtimeKinds ==
  ASSUME [Next]_vars
  PROVE  \/ StreamLine \/ StreamEnds \/ StreamFails \/ StopAll
         \/ Connect \/ Prepare \/ StreamOpens \/ Drain \/ WriterStep
         \/ \E t \in Pulses : Pulse(t)
         \/ \E c \in Callers : Inner(c)
         \/ UNCHANGED vars
BY DEF Next, Step, Inner

(* Every step keeps the types, the queue and its timer. *)
LEMMA QueueNext ==
  ASSUME ChunkInv, ControlOK, QueueInv, [Next]_vars
  PROVE  ControlOK' /\ QueueInv'
<1>0. /\ Main \in Callers /\ emitted \in Nat /\ NumLines \in Nat /\ received \in Nat
      /\ emitted <= received /\ received <= NumLines
  <2>1. emitted \in 0..NumLines /\ NumLines \in Nat /\ received \in 0..NumLines
    BY ChunkWriterAssumption DEF ChunkInv, ChunkTypeOK, ControlOK
  <2> QED BY <2>1, RealtimeAssumption DEF QueueInv
<1>1. ASSUME NEW c \in Callers, NEW v \in RealtimeStages
      PROVE  [stage EXCEPT ![c] = v] \in [Callers -> RealtimeStages]
  BY DEF ControlOK
<1>2. /\ FlushStages \subseteq RealtimeStages
      /\ FlushStages \cap (Opening \cup {"stream", "drain", "aborted", "failed", "done"}) = {}
  BY Zenon DEF FlushStages, EndStages, LastStages, RealtimeStages, Opening
<1> USE <1>0 DEF Pending
<1>3. CASE UNCHANGED vars
  BY <1>3 DEF vars, storeVars, chunkVars, diskVars, rtVars, streamVars, viewVars, ControlOK, QueueInv
<1>4. CASE WriterStep
  <2>1. emitted' = emitted
    BY <1>4, WriterAlone, Zenon DEF WriterStep
  <2> QED BY <1>4, <2>1, Zenon DEF WriterStep, rtVars, streamVars, viewVars, ControlOK, QueueInv
<1>5. CASE Connect \/ Prepare \/ StreamOpens
  <2>1. UNCHANGED <<emitted, link, received, timer, paginationOpened, alone, manifestFaults>>
    BY <1>5 DEF Connect, Prepare, StreamOpens, storeVars, chunkVars, diskVars, streamVars, viewVars
  <2>2. PICK v \in {"prepare", "opening", "stream", "failed"} : stage' = [stage EXCEPT ![Main] = v]
    BY <1>5, Zenon DEF Connect, Prepare, StreamOpens, Goto
  <2>3. stage[Main] \in Opening
    BY <1>5 DEF Connect, Prepare, StreamOpens, Opening
  <2>4. stage'[Main] = v
    BY <2>2, Zenon DEF ControlOK
  <2>5. ControlOK'
    BY <1>1, <2>1, <2>2 DEF ControlOK, RealtimeStages
  <2>6. received = 0 /\ emitted = 0
    BY <2>3 DEF QueueInv
  <2> QED BY <2>1, <2>4, <2>5, <2>6 DEF QueueInv
<1>6. CASE StreamLine
  <2>1. /\ received' = received + 1 /\ received' \in 0..NumLines /\ timer' = TRUE /\ stage[Main] = "stream"
        /\ UNCHANGED <<emitted, link, stage, paginationOpened, alone, manifestFaults>>
    BY <1>6 DEF StreamLine, storeVars, chunkVars, diskVars, viewVars
  <2> QED BY <2>1 DEF ControlOK, QueueInv, Opening
<1>7. CASE StreamEnds
  <2>1. /\ stage' = [stage EXCEPT ![Main] = "drain"] /\ link' = "none" /\ alone' \in BOOLEAN
        /\ received' \in {received, received + 1} /\ received' \in 0..NumLines /\ timer' \in BOOLEAN
        /\ UNCHANGED <<emitted, paginationOpened, manifestFaults>>
    <3>1. /\ stage' = [stage EXCEPT ![Main] = "drain"] /\ link' = "none"
          /\ UNCHANGED <<emitted, paginationOpened, manifestFaults>>
      BY <1>7 DEF StreamEnds, Goto, storeVars, chunkVars, diskVars, viewVars
    <3>2. alone' \in BOOLEAN
      BY <1>7, Zenon DEF StreamEnds
    <3>3. \/ received' = received /\ timer' = timer
          \/ received < NumLines /\ received' = received + 1 /\ timer' = TRUE
      BY <1>7 DEF StreamEnds
    <3>4. received' \in {received, received + 1} /\ received' \in 0..NumLines
      BY <3>3
    <3>5. timer' \in BOOLEAN
      BY <3>3, Zenon DEF ControlOK
    <3> QED BY <3>1, <3>2, <3>4, <3>5, Zenon
  <2>2. stage'[Main] = "drain" /\ stage' \in [Callers -> RealtimeStages]
    BY <1>1, <2>1, ZenonT(30) DEF ControlOK, RealtimeStages
  <2> QED BY <2>1, <2>2 DEF ControlOK, QueueInv, Opening
<1>8. CASE StreamFails
  <2>1. /\ stage' = [stage EXCEPT ![Main] = "failed"] /\ link' = "none" /\ link = "ADB"
        /\ stage[Main] = "stream"
        /\ UNCHANGED <<emitted, received, timer, paginationOpened, alone, manifestFaults>>
    BY <1>8, Zenon DEF StreamFails, Goto, storeVars, chunkVars, diskVars, viewVars
  <2>2. stage'[Main] = "failed" /\ stage' \in [Callers -> RealtimeStages]
    BY <1>1, <2>1 DEF ControlOK, RealtimeStages
  <2> QED BY <2>1, <2>2, Zenon DEF ControlOK, QueueInv, Opening
<1>9. CASE StopAll
  <2>1. /\ timer' = FALSE
        /\ UNCHANGED <<emitted, received, paginationOpened, alone, manifestFaults>>
    BY <1>9 DEF StopAll, storeVars, chunkVars, diskVars, viewVars
  <2>2. \/ stage' = [stage EXCEPT ![Main] = "aborted"] /\ link' = "none"
        \/ /\ UNCHANGED <<stage, link>>
           /\ ~(stage[Main] = "stream" /\ link = "ADB") /\ stage[Main] # "failed"
    BY <1>9 DEF StopAll, Goto
  <2>3. CASE stage' = [stage EXCEPT ![Main] = "aborted"] /\ link' = "none"
    <3>1. stage'[Main] = "aborted" /\ stage' \in [Callers -> RealtimeStages]
      BY <1>1, <2>3 DEF ControlOK, RealtimeStages
    <3> QED BY <2>1, <2>3, <3>1, Zenon DEF ControlOK, QueueInv, Opening
  <2>4. CASE /\ UNCHANGED <<stage, link>>
             /\ ~(stage[Main] = "stream" /\ link = "ADB") /\ stage[Main] # "failed"
    BY <2>1, <2>4, Zenon DEF ControlOK, QueueInv
  <2> QED BY <2>2, <2>3, <2>4, Zenon
<1>10. ASSUME NEW c \in Callers, StartFlush(c), timer' \in {timer, FALSE},
              stage[Main] = "drain" \/ c # Main,
              c = Main => stage[Main] = "drain",
              UNCHANGED <<link, received, viewVars, alone, manifestFaults>>
       PROVE  ControlOK' /\ QueueInv'
  <2>1. emitted' = received /\ stage' = [stage EXCEPT ![c] = "append"]
    BY <1>10, FlushTakesAll, Zenon DEF ControlOK
  <2>2. /\ stage' \in [Callers -> RealtimeStages]
        /\ stage'[Main] = IF c = Main THEN "append" ELSE stage[Main]
    BY <1>1, <2>1 DEF ControlOK, RealtimeStages
  <2>3. ControlOK'
    BY <1>10, <2>2, Zenon DEF ControlOK, viewVars
  <2>4. Pending' = 0 /\ emitted' <= received'
    BY <1>10, <2>1
  <2>5. stage'[Main] \in Opening => received' = 0
    BY <1>10, <2>2 DEF QueueInv, Opening
  <2>6. stage'[Main] = "done" => ~timer'
    <3>1. stage'[Main] = "done" => stage[Main] = "done"
      BY <2>2, Zenon
    <3>2. CASE timer' = timer
      BY <3>1, <3>2 DEF QueueInv
    <3>3. CASE timer' = FALSE
      BY <3>3
    <3> QED BY <1>10, <3>2, <3>3, Zenon
  <2> HIDE DEF Pending
  <2>7. ~(Pending' > 0)
    BY <2>4
  <2> QED BY <2>3, <2>4, <2>5, <2>6, <2>7, Zenon DEF QueueInv
<1>11. CASE Drain
  <2>1. CASE StartFlush(Main)
    BY <1>10, <1>11, <2>1, Zenon DEF Drain, streamVars
  <2>2. CASE Pending = 0 /\ CallFlush(Main) /\ Goto(Main, "remainder")
    <3>1. /\ stage' = [stage EXCEPT ![Main] = "remainder"] /\ emitted' = emitted
          /\ UNCHANGED <<link, received, timer, paginationOpened, alone, manifestFaults>>
      BY <1>11, <2>2, ZenonT(30) DEF Drain, Goto, CallFlush, FlushRemainder, diskVars, streamVars, viewVars
    <3>2. stage'[Main] = "remainder" /\ stage' \in [Callers -> RealtimeStages]
      BY <1>1, <3>1 DEF ControlOK, RealtimeStages
    <3> QED BY <2>2, <3>1, <3>2 DEF ControlOK, QueueInv, Opening
  <2> QED BY <1>11, <2>1, <2>2, Zenon DEF Drain
<1>12. ASSUME NEW t \in Pulses, Pulse(t) PROVE ControlOK' /\ QueueInv'
  <2>0. t \in Callers /\ t # Main
    BY DEF Pulses
  <2>1. CASE StartFlush(t)
    BY <1>10, <1>12, <2>0, <2>1, Zenon DEF Pulse
  <2>2. CASE Pending = 0 /\ UNCHANGED <<chunkVars, added, stage>>
    <3>1. /\ timer' = FALSE
          /\ UNCHANGED <<emitted, stage, link, received, paginationOpened, alone, manifestFaults>>
      BY <1>12, <2>2 DEF Pulse, chunkVars, diskVars, viewVars
    <3>2. ControlOK'
      BY <3>1, Zenon DEF ControlOK
    <3>3. Pending' = 0
      BY <2>2, <3>1
    <3> HIDE DEF Pending
    <3>4. ~(Pending' > 0) /\ ~timer'
      BY <3>1, <3>3
    <3> QED BY <3>1, <3>2, <3>4, Zenon DEF QueueInv
  <2> QED BY <1>12, <2>1, <2>2 DEF Pulse
<1>13. ASSUME NEW c \in Callers, Inner(c) PROVE ControlOK' /\ QueueInv'
  <2>1. /\ UNCHANGED <<link, received, emitted, alone>>
        /\ paginationOpened' \in BOOLEAN /\ manifestFaults' \in Nat
    BY <1>13, InnerKinds, Zenon
  <2>2. CASE UNCHANGED <<stage, timer>>
    BY <2>1, <2>2 DEF ControlOK, QueueInv
  <2>3. ASSUME stage[c] \in FlushStages, timer' = timer, NEW v \in FlushStages,
               stage' = [stage EXCEPT ![c] = v]
        PROVE  ControlOK' /\ QueueInv'
    <3>1. stage' \in [Callers -> RealtimeStages] /\ stage'[Main] = IF c = Main THEN v ELSE stage[Main]
      BY <1>1, <1>2, <2>3, Zenon DEF ControlOK
    <3>2. CASE c # Main
      BY <2>1, <2>3, <3>1, <3>2, Zenon DEF ControlOK, QueueInv
    <3>3. CASE c = Main
      BY <1>2, <2>1, <2>3, <3>1, <3>3, Zenon DEF ControlOK, QueueInv
    <3> QED BY <3>2, <3>3
  <2>4. ASSUME stage[c] \in FlushStages, EndTask(c) PROVE ControlOK' /\ QueueInv'
    <3>1. CASE c = Main
      <4>1. timer' = FALSE /\ stage' = [stage EXCEPT ![Main] = "done"]
        BY <2>4, <3>1, Zenon DEF EndTask, Goto
      <4>2. stage'[Main] = "done" /\ stage' \in [Callers -> RealtimeStages]
        BY <1>1, <4>1, ZenonT(30) DEF ControlOK, RealtimeStages
      <4> QED BY <1>2, <2>1, <2>4, <3>1, <4>1, <4>2, Zenon DEF ControlOK, QueueInv, Opening
    <3>2. CASE c # Main
      <4>1. timer' = (timer \/ Pending > 0) /\ stage' = [stage EXCEPT ![c] = "none"]
        BY <2>4, <3>2, Zenon DEF EndTask, Goto
      <4>2. stage'[Main] = stage[Main] /\ stage' \in [Callers -> RealtimeStages]
        BY <1>1, <3>2, <4>1 DEF ControlOK, RealtimeStages
      <4> QED BY <2>1, <4>1, <4>2, Zenon DEF ControlOK, QueueInv
    <3> QED BY <3>1, <3>2
  <2> QED BY <1>13, <2>2, <2>3, <2>4, InnerKinds, ZenonT(30)
<1> QED BY <1>3, <1>4, <1>5, <1>6, <1>7, <1>8, <1>9, <1>11, <1>12, <1>13, RealtimeKinds, ZenonT(30)

LEMMA QueueInit == Init => ControlOK /\ QueueInv
<1> SUFFICES ASSUME Init PROVE ControlOK /\ QueueInv
  OBVIOUS
<1>1. /\ received = 0 /\ emitted = 0 /\ timer = FALSE /\ paginationOpened = FALSE /\ alone = FALSE
      /\ manifestFaults = 0 /\ link \in {"ADB", "SSH", "none"} /\ NumLines \in Nat
  BY ChunkWriterAssumption DEF Init, StoreInit, ChunkInit
<1>2. stage \in [Callers -> RealtimeStages] /\ stage[Main] = "connect"
  BY RealtimeAssumption DEF Init, RealtimeStages
<1>3. ControlOK
  <2>1. received \in 0..NumLines /\ manifestFaults \in Nat
    BY <1>1
  <2>2. timer \in BOOLEAN /\ paginationOpened \in BOOLEAN /\ alone \in BOOLEAN
    BY <1>1, Zenon
  <2> QED BY <1>1, <1>2, <2>1, <2>2 DEF ControlOK
<1>4. QueueInv
  <2>1. Pending = 0
    BY <1>1 DEF Pending
  <2>2. ~(Pending > 0) /\ emitted <= received /\ ~timer
    BY <1>1, <2>1
  <2> QED BY <1>1, <1>2, <2>2 DEF QueueInv
<1> QED BY <1>3, <1>4

(* The queue and the writer together. *)
LEMMA QueueInvariant == Spec => [](ChunkInv /\ ControlOK /\ QueueInv)
<1>1. Init => ChunkInv /\ ControlOK /\ QueueInv
  BY QueueInit, InitInv DEF Init, StoreInit
<1>2. ChunkInv /\ ControlOK /\ QueueInv /\ [Next]_vars => ChunkInv'
  BY StoreSteps, WriterSteps, NextInv DEF ControlOK
<1>3. ChunkInv /\ ControlOK /\ QueueInv /\ [Next]_vars => ControlOK' /\ QueueInv'
  BY QueueNext
<1> QED BY <1>1, <1>2, <1>3, PTL DEF Spec

(* The session uses the chunk writer, the manifest and the reader only as  *)
(* the log store allows: what is proved of the store for any order of its  *)
(* steps holds for the pulses of startRealtimeSession and its end.         *)
THEOREM RealtimeImplementsStore == Spec => StoreSpec
<1>1. Init => StoreInit
  BY DEF Init
<1>2. ChunkInv /\ ControlOK /\ QueueInv /\ [Next]_vars => [StoreNext]_storeVars
  BY StoreSteps DEF ControlOK
<1> QED BY <1>1, <1>2, QueueInvariant, PTL DEF Spec, StoreSpec

(* A line that onLine has queued is never stranded: either rtFlushTimer is *)
(* armed, or the stream is still to end, or the session was aborted.       *)
THEOREM LinesNeverStranded == Spec => []NoLineStranded
<1>1. QueueInv => NoLineStranded
  BY DEF QueueInv, NoLineStranded
<1> QED BY <1>1, QueueInvariant, PTL

-----------------------------------------------------------------------------
(* The parts that a caller has been given against those it has added. *)
TaskInv == StageInv /\ AddedInv /\ SavedInv

LEMMA TaskInit == Init => TaskInv
<1> SUFFICES ASSUME Init PROVE TaskInv
  OBVIOUS
<1>1. \A c \in Callers : /\ pc[c] = "idle" /\ stage[c] \in {"connect", "none"} /\ added[c] = 0
                         /\ results[c] = <<>> /\ savePc[c] = "none"
  BY StoreAssumption, Zenon DEF Init, StoreInit, ChunkInit, ManifestInit
<1> QED BY <1>1 DEF TaskInv, StageInv, AddedInv, SavedInv, Calling

(* An error stays an error. *)
LEMMA FaultsStay ==
  ASSUME StoreInv, ControlOK, [Next]_vars
  PROVE  NoFaults' => NoFaults /\ faults = 0 /\ manifestFaults = 0
<1>0. WriterInv /\ [ChunkNext]_chunkVars /\ faults \in Nat /\ manifestFaults \in Nat
  BY StoreSteps, WriterSteps, Zenon DEF StoreInv, WriterInv, ChunkInv, ChunkTypeOK, ControlOK
<1>1. faults' >= faults
  BY <1>0, FaultNext DEF WriterInv
<1>2. manifestFaults' \in Nat /\ manifestFaults' >= manifestFaults
  <2>1. ASSUME NEW c \in Callers, Inner(c)
        PROVE  manifestFaults' \in Nat /\ manifestFaults' >= manifestFaults
    BY <2>1, InnerKinds
  <2>2. ASSUME NEW t \in Pulses, Pulse(t) PROVE UNCHANGED manifestFaults
    BY <2>2 DEF Pulse
  <2>3. CASE \/ StreamLine \/ StreamEnds \/ StreamFails \/ StopAll
             \/ Connect \/ Prepare \/ StreamOpens \/ Drain \/ WriterStep \/ UNCHANGED vars
    <3>1. UNCHANGED manifestFaults
      BY <2>3, Zenon DEF StreamLine, StreamEnds, StreamFails, StopAll, Connect, Prepare, StreamOpens,
                  Drain, WriterStep, vars, rtVars
    <3> QED BY <1>0, <3>1
  <2> QED BY <1>0, <2>1, <2>2, <2>3, RealtimeKinds
<1>3. ASSUME NoFaults' PROVE faults = 0 /\ manifestFaults = 0
  BY <1>0, <1>1, <1>2, <1>3 DEF NoFaults
<1> QED BY <1>3, Zenon DEF NoFaults

(* Every step keeps the calls and the additions in step. *)
LEMMA TaskNext ==
  ASSUME StoreInv, ControlOK, QueueInv, TaskInv, [Next]_vars
  PROVE  TaskInv'
<1>0. /\ Main \in Callers /\ ChunkInv /\ stage \in [Callers -> RealtimeStages]
      /\ pc \in [Callers -> CallStates] /\ results \in [Callers -> Seq(Part)]
      /\ added \in [Callers -> Nat] /\ savePc \in [Callers -> SaveStages]
      /\ manifestFaults \in Nat
  BY RealtimeAssumption, Zenon DEF StoreInv, WriterInv, ChunkInv, ChunkTypeOK, LogInv, StoreTypeOK, ControlOK
<1>1. NoFaults' => NoFaults /\ faults = 0 /\ manifestFaults = 0
  BY FaultsStay
<1>2. faults = 0 => \A c \in Callers : pc[c] # "failed"
  BY DEF StoreInv, WriterInv, FaultInv
<1> USE DEF TaskInv, Calling, Adding
\* Only the stage of c changes, between stages outside calls and additions.
<1>3. ASSUME UNCHANGED <<pc, results, added, savePc>>, manifestFaults' = 0 => manifestFaults = 0,
             \A c \in Callers : \/ stage'[c] = stage[c]
                                \/ /\ stage[c] \notin Calling \cup Adding
                                   /\ stage'[c] \notin Calling \cup Adding
      PROVE  TaskInv'
  <2>1. StageInv'
    BY <1>3, Zenon DEF StageInv
  <2>2. AddedInv'
    BY <1>1, <1>3, Zenon DEF AddedInv
  <2>3. SavedInv'
    BY <1>3, Zenon DEF SavedInv
  <2> QED BY <2>1, <2>2, <2>3, Zenon
<1>4. CASE UNCHANGED vars
  BY <1>3, <1>4, Zenon DEF vars, storeVars, chunkVars, callVars, manifestVars, saveVars, rtVars
<1>5. CASE StreamLine \/ StreamEnds \/ StreamFails \/ StopAll \/ Connect \/ Prepare \/ StreamOpens
  <2>1. UNCHANGED <<pc, results, added, savePc, manifestFaults>>
    BY <1>5, Zenon DEF StreamLine, StreamEnds, StreamFails, StopAll, Connect, Prepare, StreamOpens,
                storeVars, chunkVars, callVars, manifestVars, saveVars
  <2>2. \/ stage' = stage
        \/ /\ stage[Main] \in {"connect", "prepare", "opening", "stream", "failed"}
           /\ \E v \in {"prepare", "opening", "stream", "drain", "failed", "aborted"} :
                stage' = [stage EXCEPT ![Main] = v]
    BY <1>5, ZenonT(30) DEF StreamLine, StreamEnds, StreamFails, StopAll, Connect, Prepare, StreamOpens, Goto
  <2>3. \A c \in Callers : \/ stage'[c] = stage[c]
                           \/ /\ stage[c] \notin Calling \cup Adding
                              /\ stage'[c] \notin Calling \cup Adding
    BY <1>0, <2>2, Zenon
  <2> QED BY <1>3, <2>1, <2>3
<1>6. CASE WriterStep
  <2>1. UNCHANGED <<stage, added, savePc, manifestFaults>>
    BY <1>6 DEF WriterStep, rtVars, manifestVars, saveVars
  <2>2. /\ \A d \in Callers : pc'[d] = "idle" <=> pc[d] = "idle"
        /\ \A d \in Callers : pc[d] = "idle" => results'[d] = results[d]
    BY <1>0, <1>6, WriterAlone, Zenon DEF WriterStep
  <2>3. \A d \in Callers : Len(results'[d]) \in Nat
    <3>1. ChunkInv'
      BY <1>0, StoreSteps, WriterSteps, NextInv DEF ControlOK
    <3> QED BY <3>1 DEF ChunkInv, ChunkTypeOK
  <2>4. StageInv'
    BY <2>1, <2>2, ZenonT(30) DEF StageInv
  <2>5. AddedInv'
    <3>1. ASSUME NEW c \in Callers
          PROVE  /\ added'[c] <= Len(results'[c])
                 /\ stage'[c] \in Calling => added'[c] = 0
                 /\ NoFaults' /\ stage'[c] \notin Calling \cup Adding =>
                      added'[c] = Len(results'[c])
      <4>1. CASE stage[c] \in Calling
        <5>1. added'[c] = 0 /\ stage'[c] \in Calling
          BY <2>1, <4>1, Zenon DEF AddedInv
        <5>2. Len(results'[c]) \in Nat
          BY <2>3, Zenon
        <5>3. added'[c] <= Len(results'[c])
          BY <5>1, <5>2
        <5> QED BY <5>1, <5>3, Zenon
      <4>2. CASE stage[c] \notin Calling
        <5>1. results'[c] = results[c]
          BY <2>2, <4>2, Zenon DEF StageInv
        <5> QED BY <1>1, <2>1, <5>1, Zenon DEF AddedInv
      <4> QED BY <4>1, <4>2, Zenon
    <3> QED BY <3>1, Zenon DEF AddedInv
  <2>6. SavedInv'
    BY <2>1 DEF SavedInv
  <2> QED BY <2>4, <2>5, <2>6
\* c starts a call of the writer.
<1>7. ASSUME NEW c \in Callers, NEW v \in Calling, stage' = [stage EXCEPT ![c] = v],
             NEW n \in Nat,
             (CallAppend(c, n) /\ emitted' = emitted + n) \/ (CallFlush(c) /\ emitted' = emitted),
             UNCHANGED <<savePc, manifestFaults>>
      PROVE  TaskInv'
  <2>1. /\ \A d \in Callers : IF d = c THEN pc'[d] # "idle" ELSE pc'[d] = pc[d]
        /\ results' = [results EXCEPT ![c] = <<>>] /\ added' = [added EXCEPT ![c] = 0]
    BY <1>0, <1>7, CallFacts, ZenonT(30)
  <2>2. \A d \in Callers : IF d = c THEN stage'[d] = v ELSE stage'[d] = stage[d]
    BY <1>0, <1>7, Zenon
  <2>3. StageInv'
    BY <2>1, <2>2, Zenon DEF StageInv
  <2>4. \A d \in Callers : IF d = c THEN results'[d] = <<>> /\ added'[d] = 0
                                    ELSE results'[d] = results[d] /\ added'[d] = added[d]
    BY <1>0, <2>1, Zenon
  <2>5. AddedInv'
    BY <1>1, <2>2, <2>4 DEF AddedInv
  <2>6. SavedInv'
    BY <1>7 DEF SavedInv
  <2> QED BY <2>3, <2>5, <2>6, ZenonT(30)
<1>8. ASSUME NEW c \in Callers, StartFlush(c), UNCHANGED <<manifestVars, manifestFaults>>
      PROVE  TaskInv'
  <2>1. /\ Pending \in 1..MaxBatch /\ CallAppend(c, Pending) /\ emitted' = emitted + Pending
        /\ stage' = [stage EXCEPT ![c] = "append"] /\ MaxBatch \in Nat
    BY <1>0, <1>8, FlushTakesAll, ChunkWriterAssumption, ZenonT(30) DEF ControlOK
  <2>2. Pending \in Nat
    BY <2>1
  <2> QED BY <1>7, <1>8, <2>1, <2>2, Zenon DEF manifestVars, saveVars
<1>9. CASE Drain
  <2>1. CASE StartFlush(Main)
    BY <1>0, <1>8, <1>9, <2>1, ZenonT(30) DEF Drain
  <2>2. CASE CallFlush(Main) /\ Goto(Main, "remainder")
    <3>1. emitted' = emitted /\ stage' = [stage EXCEPT ![Main] = "remainder"] /\ 0 \in Nat
      BY <2>2, Zenon DEF CallFlush, FlushRemainder, diskVars, Goto
    <3> QED BY <1>0, <1>7, <1>9, <2>2, <3>1, Zenon DEF Drain, manifestVars, saveVars
  <2> QED BY <1>9, <2>1, <2>2, ZenonT(30) DEF Drain
<1>10. ASSUME NEW t \in Pulses, Pulse(t) PROVE TaskInv'
  <2>1. t \in Callers
    BY DEF Pulses
  <2>2. CASE StartFlush(t)
    BY <1>8, <1>10, <2>1, <2>2, ZenonT(30) DEF Pulse
  <2>3. CASE UNCHANGED <<chunkVars, added, stage>>
    BY <1>3, <1>10, <2>3 DEF Pulse, chunkVars, callVars, manifestVars, saveVars
  <2> QED BY <1>10, <2>2, <2>3 DEF Pulse
<1>11. ASSUME NEW c \in Callers, TakeParts(c) PROVE TaskInv'
  <2>1. /\ pc' = [pc EXCEPT ![c] = "idle"] /\ pc[c] \in {"returned", "failed"}
        /\ UNCHANGED <<results, added, savePc, manifestFaults>>
        /\ stage[c] \in Calling
    BY <1>11 DEF TakeParts, Collect, manifestVars, saveVars
  <2>2. \/ pc[c] = "failed" /\ stage' = [stage EXCEPT ![c] = IF c = Main THEN "done" ELSE "none"]
        \/ stage' = [stage EXCEPT ![c] = "add"]
        \/ stage' = [stage EXCEPT ![c] = "addLast"]
        \/ results[c] = <<>> /\ stage' = [stage EXCEPT ![c] = "lastPage"]
    BY <1>11, Zenon DEF TakeParts, EndTask, Goto
  <2>3. /\ \A d \in Callers : d # c => stage'[d] = stage[d] /\ pc'[d] = pc[d]
        /\ pc'[c] = "idle" /\ stage'[c] \notin Calling
        /\ \/ pc[c] = "failed"
           \/ stage'[c] \in Adding
           \/ results[c] = <<>>
    BY <1>0, <2>1, <2>2
  <2>4. StageInv'
    BY <2>3, ZenonT(30) DEF StageInv
  <2>5. AddedInv'
    <3>1. \A d \in Callers : d # c =>
            /\ added'[d] <= Len(results'[d])
            /\ stage'[d] \in Calling => added'[d] = 0
            /\ NoFaults' /\ stage'[d] \notin Calling \cup Adding => added'[d] = Len(results'[d])
      BY <1>1, <2>1, <2>3, ZenonT(30) DEF AddedInv
    <3>2. added'[c] <= Len(results'[c]) /\ added[c] = 0
      BY <2>1, Zenon DEF AddedInv
    <3>3. NoFaults' /\ stage'[c] \notin Calling \cup Adding => results[c] = <<>>
      BY <1>1, <1>2, <2>3, ZenonT(30)
    <3>4. NoFaults' /\ stage'[c] \notin Calling \cup Adding => added'[c] = Len(results'[c])
      BY <2>1, <3>2, <3>3, ZenonT(30)
    <3> QED BY <2>3, <3>1, <3>2, <3>4, Zenon DEF AddedInv
  <2>6. SavedInv'
    BY <2>1, Zenon DEF SavedInv
  <2> QED BY <2>4, <2>5, <2>6
<1>12. ASSUME NEW c \in Callers, AddParts(c) PROVE TaskInv'
  <2>0. UNCHANGED <<pc, results, manifestFaults>> /\ stage[c] \in Adding
    BY <1>12, Zenon DEF AddParts, chunkVars, callVars
  <2>1. CASE AddPart(c) /\ UNCHANGED <<saveVars, stage>>
    <3>1. /\ added[c] < Len(results[c]) /\ added' = [added EXCEPT ![c] = added[c] + 1]
          /\ UNCHANGED <<savePc, stage>>
      BY <2>1, Zenon DEF AddPart, saveVars
    <3>2. /\ \A d \in Callers : d # c => added'[d] = added[d]
          /\ added'[c] <= Len(results[c])
      BY <1>0, <3>1
    <3>3. AddedInv'
      BY <1>1, <2>0, <3>1, <3>2, ZenonT(30) DEF AddedInv
    <3>4. StageInv' /\ SavedInv'
      BY <2>0, <3>1, ZenonT(30) DEF StageInv, SavedInv
    <3> QED BY <3>3, <3>4, ZenonT(30)
  <2>2. CASE added[c] = Len(results[c]) /\ SaveCall(c) /\ UNCHANGED added
             /\ Goto(c, IF stage[c] = "add" THEN "save" ELSE "saveLast")
    <3>1. savePc' = [savePc EXCEPT ![c] = "mkdir"]
      BY <2>2, Zenon DEF SaveCall
    <3>2. /\ \A d \in Callers : d # c => stage'[d] = stage[d]
          /\ stage'[c] \in {"save", "saveLast"}
      BY <1>0, <2>2, Zenon DEF Goto
    <3>3. StageInv'
      BY <2>0, <3>2, Zenon DEF StageInv
    <3>4. AddedInv'
      BY <1>1, <2>0, <2>2, <3>2, ZenonT(30) DEF AddedInv
    <3>5. SavedInv'
      BY <1>0, <2>0, <3>1, ZenonT(30) DEF SavedInv
    <3> QED BY <3>3, <3>4, <3>5
  <2> QED BY <1>12, <2>1, <2>2, ZenonT(40) DEF AddParts
<1>13. ASSUME NEW c \in Callers, SaveStep(c) PROVE TaskInv'
  <2>1. UNCHANGED <<pc, results, added, stage>>
    BY <1>13, Zenon DEF SaveStep, chunkVars, callVars
  <2>2. \/ manifestFaults' = manifestFaults + 1
        \/ /\ manifestFaults' = manifestFaults
           /\ \E v \in {"write", "saved"} : savePc' = [savePc EXCEPT ![c] = v]
    BY <1>13, Zenon DEF SaveStep, ManifestFault, SaveSnapshot, SaveRename, SaveOverwrite
  <2>3. SavedInv'
    BY <1>0, <2>2 DEF SavedInv
  <2>4. StageInv' /\ AddedInv'
    BY <1>1, <2>1, ZenonT(30) DEF StageInv, AddedInv
  <2> QED BY <2>3, <2>4, ZenonT(30)
<1>14. ASSUME NEW c \in Callers, AfterSave(c) PROVE TaskInv'
  <2>1. /\ UNCHANGED <<pc, results, added, manifestFaults>>
        /\ savePc' = [savePc EXCEPT ![c] = "none"] /\ stage[c] \in {"save", "saveLast"}
    BY <1>14, ZenonT(30) DEF AfterSave, SaveReturn, chunkVars, callVars
  <2>2. \E v \in RealtimeStages \ (Calling \cup Adding) : stage' = [stage EXCEPT ![c] = v]
    BY <1>14, Zenon DEF AfterSave, EndTask, Goto, RealtimeStages
  <2>3. /\ \A d \in Callers : d # c => stage'[d] = stage[d]
        /\ stage'[c] \notin Calling \cup Adding
    BY <1>0, <2>2
  <2>4. StageInv'
    BY <2>1, <2>3, Zenon DEF StageInv
  <2>5. AddedInv'
    BY <1>1, <2>1, <2>3, Zenon DEF AddedInv
  <2>6. SavedInv'
    BY <1>0, <2>1, ZenonT(30) DEF SavedInv
  <2> QED BY <2>4, <2>5, <2>6
<1>15. ASSUME NEW c \in Callers, OpenRead(c) \/ OpenDone(c) \/ AfterSetDir(c) \/ ReadPage(c)
       PROVE  TaskInv'
  <2>1. UNCHANGED <<pc, results, added, savePc>>
    BY <1>15, Zenon DEF OpenRead, OpenDone, AfterSetDir, ReadPage, storeVars, chunkVars, callVars,
                 manifestVars, saveVars
  <2>2. manifestFaults' \in Nat /\ manifestFaults' >= manifestFaults
    BY <1>15, InnerKinds, Zenon DEF Inner
  <2>3. /\ stage[c] \notin Calling \cup Adding
        /\ \E v \in RealtimeStages \ (Calling \cup Adding) : stage' = [stage EXCEPT ![c] = v]
    <3>1. CASE OpenRead(c)
      BY <3>1, Zenon DEF OpenRead, EndTask, Goto, RealtimeStages
    <3>2. CASE OpenDone(c)
      BY <3>2, Zenon DEF OpenDone, Goto, RealtimeStages
    <3>3. CASE AfterSetDir(c) \/ ReadPage(c)
      BY <3>3, Zenon DEF AfterSetDir, ReadPage, Goto, RealtimeStages
    <3> QED BY <1>15, <3>1, <3>2, <3>3, ZenonT(30)
  <2>4. \A d \in Callers : \/ stage'[d] = stage[d]
                           \/ /\ stage[d] \notin Calling \cup Adding
                              /\ stage'[d] \notin Calling \cup Adding
    BY <1>0, <2>3
  <2>5. manifestFaults' = 0 => manifestFaults = 0
    BY <1>0, <2>2
  <2> QED BY <1>3, <2>1, <2>4, <2>5, ZenonT(30)
<1>16. ASSUME NEW c \in Callers, Deliver(c) PROVE TaskInv'
  <2>1. CASE CallFlush(c) /\ Goto(c, "remainder")
    <3>1. emitted' = emitted /\ stage' = [stage EXCEPT ![c] = "remainder"] /\ 0 \in Nat
      BY <2>1, Zenon DEF CallFlush, FlushRemainder, diskVars, Goto
    <3> QED BY <1>7, <1>16, <2>1, <3>1, Zenon DEF Deliver, manifestVars, saveVars
  <2>2. CASE EndTask(c) /\ UNCHANGED <<chunkVars, added>>
    <3>1. UNCHANGED <<pc, results, added, savePc, manifestFaults>> /\ stage[c] \in {"deliver", "deliverLast"}
      BY <1>16, <2>2, ZenonT(30) DEF Deliver, chunkVars, callVars, manifestVars, saveVars
    <3>2. \A d \in Callers : \/ stage'[d] = stage[d]
                             \/ /\ stage[d] \notin Calling \cup Adding
                                /\ stage'[d] \notin Calling \cup Adding
      BY <1>0, <2>2, <3>1, ZenonT(30) DEF EndTask, Goto
    <3> QED BY <1>3, <3>1, <3>2, ZenonT(30)
  <2> QED BY <1>16, <2>1, <2>2 DEF Deliver
<1>17. ASSUME NEW c \in Callers, Inner(c) PROVE TaskInv'
  BY <1>11, <1>12, <1>13, <1>14, <1>15, <1>16, <1>17, ZenonT(30) DEF Inner
<1> QED BY <1>4, <1>5, <1>6, <1>9, <1>10, <1>17, RealtimeKinds, ZenonT(30)

-----------------------------------------------------------------------------
(* The steps of the writer only add to what a call has been given. *)
LEMMA ResultsGrow ==
  ASSUME ChunkInv, FlushStart \/ FlushIO \/ \E c \in Callers : ResumeBatch(c) \/ Collect(c)
  PROVE  \A c \in Callers : \A i \in DOMAIN results[c] :
           i \in DOMAIN results'[c] /\ results'[c][i] = results[c][i]
<1> DEFINE Grows == \A c \in Callers : \A i \in DOMAIN results[c] :
                      i \in DOMAIN results'[c] /\ results'[c][i] = results[c][i]
<1>0. results \in [Callers -> Seq(Part)]
  BY DEF ChunkInv, ChunkTypeOK
<1>1. results' = results => Grows
  BY Zenon
<1>2. ASSUME NEW p, Resolve(p) PROVE Grows
  <2> DEFINE h == Head(chain)
             x == IF p.lines > 0 THEN Append(results[h], p) ELSE results[h]
             y == Append(results[h], p)
  <2>0. results' = [results EXCEPT ![h] = x] \/ results' = [results EXCEPT ![h] = y]
    BY <1>2, Zenon DEF Resolve
  <2>1. \A c \in Callers : results'[c] = results[c] \/ results'[c] = Append(results[c], p)
    <3>1. x = y \/ x = results[h]
      BY Zenon
    <3> HIDE DEF x, h
    <3> QED BY <1>0, <2>0, <3>1, ZenonT(30)
  <2> SUFFICES ASSUME NEW c \in Callers, NEW i \in DOMAIN results[c],
                      results'[c] = Append(results[c], p)
               PROVE  i \in DOMAIN results'[c] /\ results'[c][i] = results[c][i]
    BY <2>1
  <2>2. results[c] \in Seq(Part)
    BY <1>0, Zenon
  <2>3. /\ DOMAIN results'[c] = 1..(Len(results[c]) + 1)
        /\ i \in 1..Len(results[c]) /\ Len(results[c]) \in Nat
        /\ \A j \in 1..Len(results[c]) : results'[c][j] = results[c][j]
    BY <2>2
  <2> QED BY <2>3
<1>3. Snapshot => Grows
  BY <1>1, <1>2 DEF Snapshot, callVars
<1> HIDE DEF Grows
<1>4. FlushStart => Grows
  BY <1>1, <1>3, Zenon DEF FlushStart, callVars
<1>5. FlushIO => Grows
  BY <1>1, <1>2, <1>3 DEF FlushIO, FlushReadDir, FlushReadDirFails, FlushWriteTmp, FlushRename,
        FlushRenameBusy, FlushRenameNoEnt, FlushFail, Reject, callVars
<1>6. ASSUME NEW c \in Callers, ResumeBatch(c) \/ Collect(c) PROVE Grows
  BY <1>1, <1>6, Zenon DEF ResumeBatch, Collect
<1>7. Grows
  BY <1>4, <1>5, <1>6
<1> QED BY <1>7, Zenon DEF Grows

(* What the writer commits is given to a call, which is still to add it. *)
LEMMA ListedWriter ==
  ASSUME WriterInv, LogInv, AllListed,
         FlushStart \/ FlushIO \/ \E c \in Callers : ResumeBatch(c) \/ Collect(c),
         UNCHANGED <<chunks, added>>, \A c \in Callers : added[c] <= Len(results[c])
  PROVE  AllListed'
<1> DEFINE NextUnlisted(c) == {i \in DOMAIN results'[c] : i > added'[c] /\ results'[c][i].lines > 0}
           NextListed(n) == \/ \E k \in 1..Len(chunks') : chunks'[k].file = n
                            \/ \E c \in Callers : \E i \in NextUnlisted(c) : results'[c][i].file = n
<1>0. /\ ChunkInv /\ [ChunkNext]_chunkVars /\ results \in [Callers -> Seq(Part)]
      /\ added \in [Callers -> Nat] /\ run.buf \in Seq(Line)
  <2>1. run \in [stage : Stages, buf : Seq(Line), attempt : Nat]
    BY Zenon DEF WriterInv, ChunkInv, ChunkTypeOK
  <2>2. run.buf \in Seq(Line)
    BY <2>1
  <2>3. ChunkNext
    BY DEF ChunkNext
  <2> QED BY <2>2, <2>3, ZenonT(30) DEF WriterInv, ChunkInv, ChunkTypeOK, LogInv, StoreTypeOK
<1>1. ASSUME NEW n, Listed(n) PROVE NextListed(n)
  <2>1. CASE \E k \in 1..Len(chunks) : chunks[k].file = n
    BY <2>1, ZenonT(30)
  <2>2. ASSUME NEW c \in Callers, NEW i \in Unlisted(c), results[c][i].file = n
        PROVE  NextListed(n)
    <3>1. i \in DOMAIN results[c] /\ i > added[c] /\ results[c][i].lines > 0
      BY DEF Unlisted
    <3>2. i \in DOMAIN results'[c] /\ results'[c][i] = results[c][i]
      BY <1>0, <3>1, ResultsGrow, ZenonT(30)
    <3>3. i \in NextUnlisted(c) /\ results'[c][i].file = n
      BY <2>2, <3>1, <3>2, ZenonT(30)
    <3> QED BY <3>3, Zenon
  <2> QED BY <1>1, <2>1, <2>2, ZenonT(30) DEF Listed
<1>2. ASSUME NEW m \in Nat, CommitStep(m), NEW i \in DOMAIN run.buf PROVE NextListed(m)
  <2>1. Len(run.buf) > 0
    BY <1>0, <1>2
  <2>2. PICK c \in Callers : results'[c] = Append(results[c], [file |-> m, lines |-> Len(run.buf)])
    BY <1>2, <2>1 DEF CommitStep
  <2> DEFINE j == Len(results[c]) + 1
  <2>3. /\ results[c] \in Seq(Part) /\ Len(results[c]) \in Nat /\ added[c] \in Nat
        /\ j \in DOMAIN results'[c]
        /\ results'[c][j] = [file |-> m, lines |-> Len(run.buf)]
    <3> DEFINE r == [file |-> m, lines |-> Len(run.buf)]
    <3>1. results[c] \in Seq(Part) /\ added[c] \in Nat
      BY <1>0, Zenon
    <3>2. results'[c] = Append(results[c], r)
      BY <2>2, Zenon
    <3> HIDE DEF r
    <3>3. /\ Len(results[c]) \in Nat /\ j \in DOMAIN Append(results[c], r)
          /\ Append(results[c], r)[j] = r
      BY <3>1
    <3> USE DEF r
    <3> QED BY <3>1, <3>2, <3>3, Zenon
  <2>4. added[c] <= Len(results[c]) /\ added'[c] = added[c]
    BY Zenon
  <2>5. j > added'[c]
    BY <2>3, <2>4
  <2>6. results'[c][j].lines > 0 /\ results'[c][j].file = m
    BY <2>1, <2>3
  <2> HIDE DEF j
  <2>7. j \in NextUnlisted(c)
    BY <2>3, <2>5, <2>6, ZenonT(30)
  <2> QED BY <2>6, <2>7, Zenon
<1>3. ASSUME NEW n \in DOMAIN parts', NEW i \in DOMAIN parts'[n], parts'[n][i] # OldLine
      PROVE  NextListed(n)
  <2>1. parts' = parts \/ \E m \in Nat : CommitStep(m)
    BY <1>0, StepKinds, ZenonT(30) DEF PushStep, QuietStep, SnapshotStep, DropStep
  <2>2. CASE n \in DOMAIN parts /\ parts'[n] = parts[n]
    BY <1>1, <1>3, <2>2, ZenonT(30) DEF AllListed
  <2>3. ASSUME NEW m \in Nat, CommitStep(m), ~(n \in DOMAIN parts /\ parts'[n] = parts[n])
        PROVE  NextListed(n)
    <3>1. parts' = [k \in DOMAIN parts \cup {m} |-> IF k = m THEN run.buf ELSE parts[k]]
      BY <2>3, ZenonT(30) DEF CommitStep
    <3>2. n = m /\ parts'[n] = run.buf
      BY <2>3, <3>1, ZenonT(30)
    <3>3. i \in DOMAIN run.buf
      BY <3>2, Zenon
    <3> QED BY <1>2, <2>3, <3>2, <3>3, Zenon
  <2> QED BY <2>1, <2>2, <2>3, ZenonT(30)
<1> QED BY <1>3, Zenon DEF AllListed, Listed, Unlisted

(* The part that a caller adds becomes a chunk. *)
LEMMA ListedAdd ==
  ASSUME WriterInv, LogInv, AllListed, NEW c \in Callers, AddPart(c), UNCHANGED chunkVars
  PROVE  AllListed'
<1> DEFINE a == added[c] + 1
           p == results[c][a]
           NextUnlisted(d) == {i \in DOMAIN results'[d] : i > added'[d] /\ results'[d][i].lines > 0}
           NextListed(n) == \/ \E k \in 1..Len(chunks') : chunks'[k].file = n
                            \/ \E d \in Callers : \E i \in NextUnlisted(d) : results'[d][i].file = n
<1>0. /\ results \in [Callers -> Seq(Part)] /\ added \in [Callers -> Nat] /\ chunks \in Seq(Chunk)
      /\ results' = results /\ parts' = parts
  BY Zenon DEF WriterInv, ChunkInv, ChunkTypeOK, LogInv, StoreTypeOK, chunkVars, callVars, diskVars
<1>1. added' = [added EXCEPT ![c] = a]
  BY ZenonT(30) DEF AddPart
<1>2. \/ p.lines = 0 /\ UNCHANGED chunks
      \/ \E x \in Chunk : x.file = p.file /\ chunks' = Append(chunks, x)
  BY AddFacts, ZenonT(30)
<1>3. ASSUME NEW k \in 1..Len(chunks) PROVE k \in 1..Len(chunks') /\ chunks'[k] = chunks[k]
  <2>1. ASSUME NEW x \in Chunk, chunks' = Append(chunks, x)
        PROVE  k \in 1..Len(chunks') /\ chunks'[k] = chunks[k]
    <3>1. chunks \in Seq(Chunk)
      BY <1>0, Zenon
    <3>2. k \in 1..Len(Append(chunks, x)) /\ Append(chunks, x)[k] = chunks[k]
      BY <3>1
    <3> QED BY <2>1, <3>2, Zenon
  <2> QED BY <1>2, <2>1, ZenonT(30)
<1>4. p.lines > 0 => \E k \in 1..Len(chunks') : chunks'[k].file = p.file
  <2>1. ASSUME NEW x \in Chunk, x.file = p.file, chunks' = Append(chunks, x)
        PROVE  \E k \in 1..Len(chunks') : chunks'[k].file = p.file
    <3>1. Len(chunks') \in 1..Len(chunks') /\ chunks'[Len(chunks')] = x
      BY <1>0, <2>1
    <3> QED BY <2>1, <3>1, Zenon
  <2>2. p.lines = 0 => ~(p.lines > 0)
    OBVIOUS
  <2> HIDE DEF p
  <2> QED BY <1>2, <2>1, <2>2, Zenon
<1>5. ASSUME NEW n, Listed(n) PROVE NextListed(n)
  <2>1. CASE \E k \in 1..Len(chunks) : chunks[k].file = n
    BY <1>3, <2>1, ZenonT(30)
  <2>2. ASSUME NEW d \in Callers, NEW i \in Unlisted(d), results[d][i].file = n
        PROVE  NextListed(n)
    <3>1. i \in DOMAIN results[d] /\ i > added[d] /\ results[d][i].lines > 0
      BY DEF Unlisted
    <3>2. CASE d = c /\ i = a
      BY <1>4, <2>2, <3>1, <3>2, ZenonT(30)
    <3>3. CASE ~(d = c /\ i = a)
      <4>1. i > added'[d]
        <5>1. CASE d # c
          BY <1>0, <1>1, <3>1, <5>1, ZenonT(30)
        <5>2. CASE d = c
          <6>1. i \in Nat /\ added[c] \in Nat /\ added'[c] = added[c] + 1 /\ i # added[c] + 1 /\ i > added[c]
            BY <1>0, <1>1, <3>1, <3>3, <5>2
          <6> QED BY <5>2, <6>1
        <5> QED BY <5>1, <5>2
      <4>2. i \in NextUnlisted(d) /\ results'[d][i].file = n
        BY <1>0, <2>2, <3>1, <4>1, ZenonT(30)
      <4> QED BY <4>2, Zenon
    <3> QED BY <3>2, <3>3, ZenonT(30)
  <2> QED BY <1>5, <2>1, <2>2, ZenonT(30) DEF Listed
<1> HIDE DEF NextListed
<1>6. \A n \in DOMAIN parts' : (\E i \in DOMAIN parts'[n] : parts'[n][i] # OldLine) => NextListed(n)
  BY <1>0, <1>5 DEF AllListed
<1> USE DEF NextListed
<1> QED BY <1>6, ZenonT(30) DEF AllListed, Listed, Unlisted

(* A call of the writer starts when all is added. *)
LEMMA ListedCall ==
  ASSUME WriterInv, LogInv, AllListed, NEW c \in Callers, added[c] = Len(results[c]),
         results' = [results EXCEPT ![c] = <<>>], added' = [added EXCEPT ![c] = 0],
         UNCHANGED <<parts, chunks>>
  PROVE  AllListed'
<1> DEFINE NextUnlisted(d) == {i \in DOMAIN results'[d] : i > added'[d] /\ results'[d][i].lines > 0}
           NextListed(n) == \/ \E k \in 1..Len(chunks') : chunks'[k].file = n
                            \/ \E d \in Callers : \E i \in NextUnlisted(d) : results'[d][i].file = n
<1>0. results \in [Callers -> Seq(Part)] /\ added \in [Callers -> Nat]
  BY Zenon DEF WriterInv, ChunkInv, ChunkTypeOK, LogInv, StoreTypeOK
<1>1. ASSUME NEW i \in Unlisted(c) PROVE FALSE
  <2>1. i \in 1..Len(results[c]) /\ i > Len(results[c]) /\ Len(results[c]) \in Nat
    BY <1>0 DEF Unlisted
  <2> QED BY <2>1
<1>2. ASSUME NEW n, Listed(n) PROVE NextListed(n)
  <2>1. ASSUME NEW d \in Callers, NEW i \in Unlisted(d), results[d][i].file = n
        PROVE  NextListed(n)
    <3>1. d # c
      BY <1>1, Zenon
    <3>2. results'[d] = results[d] /\ added'[d] = added[d]
      BY <1>0, <3>1, Zenon
    <3>3. i \in NextUnlisted(d) /\ results'[d][i].file = n
      BY <2>1, <3>2, Zenon DEF Unlisted
    <3> QED BY <3>3, Zenon
  <2> QED BY <1>2, <2>1, Zenon DEF Listed
<1>3. \A n \in DOMAIN parts' : (\E i \in DOMAIN parts'[n] : parts'[n][i] # OldLine) => NextListed(n)
  BY <1>2, Zenon DEF AllListed
<1> QED BY <1>3, ZenonT(30) DEF AllListed, Listed, Unlisted

(* Every step keeps the parts of the stream listed or to be added. *)
LEMMA ListedNext ==
  ASSUME StoreInv, ControlOK, TaskInv, ListedInv, [Next]_vars
  PROVE  ListedInv'
<1> SUFFICES ASSUME NoFaults' PROVE AllListed'
  BY Zenon DEF ListedInv
<1>0. /\ WriterInv /\ LogInv /\ AllListed /\ Main \in Callers
      /\ \A c \in Callers : added[c] <= Len(results[c])
      /\ \A c \in Callers : stage[c] \notin Calling \cup Adding => added[c] = Len(results[c])
  <2>1. NoFaults
    BY FaultsStay, Zenon
  <2> QED BY <2>1, RealtimeAssumption DEF StoreInv, ListedInv, TaskInv, AddedInv
<1> USE DEF Calling, Adding
<1>1. ASSUME UNCHANGED <<parts, results, added, chunks>> PROVE AllListed'
  BY <1>0, <1>1 DEF AllListed, Listed, Unlisted
<1>2. ASSUME NEW c \in Callers, stage[c] \notin Calling \cup Adding, StartFlush(c) \/ CallFlush(c),
             UNCHANGED manifestVars
      PROVE  AllListed'
  <2>1. /\ results' = [results EXCEPT ![c] = <<>>] /\ added' = [added EXCEPT ![c] = 0]
        /\ parts' = parts
    BY <1>2, Zenon DEF StartFlush, CallAppend, CallFlush, AppendBatch, FlushRemainder, diskVars
  <2>2. chunks' = chunks
    BY <1>2 DEF manifestVars
  <2>3. added[c] = Len(results[c])
    BY <1>0, <1>2, Zenon
  <2>4. UNCHANGED <<parts, chunks>>
    BY <2>1, <2>2, Zenon
  <2> QED BY <1>0, <2>1, <2>3, <2>4, ListedCall, Zenon
<1>3. CASE \/ StreamLine \/ StreamEnds \/ StreamFails \/ StopAll \/ Connect \/ Prepare \/ StreamOpens
           \/ UNCHANGED vars
  <2>1. UNCHANGED storeVars
    BY <1>3, Zenon DEF StreamLine, StreamEnds, StreamFails, StopAll, Connect, Prepare, StreamOpens, vars
  <2>2. UNCHANGED <<parts, results, added, chunks>>
    BY <2>1 DEF storeVars, chunkVars, callVars, diskVars, manifestVars
  <2> QED BY <1>1, <2>2
<1>4. CASE Drain
  BY <1>0, <1>2, <1>4, ZenonT(30) DEF Drain
<1>5. ASSUME NEW t \in Pulses, Pulse(t) PROVE AllListed'
  <2>1. t \in Callers
    BY Zenon DEF Pulses
  <2>2. CASE StartFlush(t)
    BY <1>2, <1>5, <2>1, <2>2, Zenon DEF Pulse
  <2>3. CASE UNCHANGED <<chunkVars, added, stage>>
    BY <1>1, <1>5, <2>3, Zenon DEF Pulse, chunkVars, callVars, diskVars, manifestVars
  <2> QED BY <1>5, <2>2, <2>3, Zenon DEF Pulse
<1>6. CASE WriterStep
  <2>1. /\ FlushStart \/ FlushIO \/ \E c \in Callers : ResumeBatch(c) \/ Collect(c)
        /\ UNCHANGED <<chunks, added>>
    BY <1>6, Zenon DEF WriterStep, manifestVars
  <2> QED BY <1>0, <2>1, ListedWriter, Zenon
<1>7. ASSUME NEW c \in Callers, TakeParts(c) PROVE AllListed'
  <2>1. /\ FlushStart \/ FlushIO \/ \E d \in Callers : ResumeBatch(d) \/ Collect(d)
        /\ UNCHANGED <<chunks, added>>
    BY <1>7, Zenon DEF TakeParts, manifestVars
  <2> QED BY <1>0, <2>1, ListedWriter, Zenon
<1>8. ASSUME NEW c \in Callers, AddParts(c) PROVE AllListed'
  <2>1. CASE AddPart(c)
    BY <1>0, <1>8, <2>1, ListedAdd, ZenonT(30) DEF AddParts
  <2>2. CASE UNCHANGED <<chunks, mergedSoFar, added>>
    BY <1>1, <1>8, <2>2, Zenon DEF AddParts, chunkVars, callVars, diskVars
  <2> QED BY <1>8, <2>1, <2>2, ZenonT(30) DEF AddParts
<1>9. ASSUME NEW c \in Callers,
             SaveStep(c) \/ AfterSave(c) \/ OpenRead(c) \/ OpenDone(c) \/ AfterSetDir(c) \/ ReadPage(c)
      PROVE  AllListed'
  <2>1. UNCHANGED <<parts, results, added>>
    BY <1>9, Zenon DEF SaveStep, AfterSave, OpenRead, OpenDone, AfterSetDir, ReadPage,
                storeVars, chunkVars, callVars, diskVars
  <2>2. UNCHANGED chunks
    BY <1>9, Zenon DEF SaveStep, AfterSave, OpenRead, OpenDone, AfterSetDir, ReadPage, storeVars, manifestVars,
                SaveSnapshot, SaveRename, SaveOverwrite, SaveRenameFails, SaveFails
  <2> QED BY <1>1, <2>1, <2>2, ZenonT(30)
<1>10. ASSUME NEW c \in Callers, Deliver(c) PROVE AllListed'
  <2>1. stage[c] \notin Calling \cup Adding /\ UNCHANGED manifestVars
    BY <1>10, Zenon DEF Deliver
  <2>2. CASE CallFlush(c)
    BY <1>2, <2>1, <2>2, ZenonT(30)
  <2>3. CASE UNCHANGED <<chunkVars, added>>
    BY <1>1, <2>1, <2>3, ZenonT(30) DEF chunkVars, callVars, diskVars, manifestVars
  <2> QED BY <1>10, <2>2, <2>3, ZenonT(30) DEF Deliver
<1>11. ASSUME NEW c \in Callers, Inner(c) PROVE AllListed'
  BY <1>7, <1>8, <1>9, <1>10, <1>11, ZenonT(30) DEF Inner
<1> QED BY <1>3, <1>4, <1>5, <1>6, <1>11, RealtimeKinds, ZenonT(30)

-----------------------------------------------------------------------------
(* A flush that ends has emptied the buffer, if nothing was pushed after   *)
(* its snapshot; flushRemainder stays flushRemainder.                      *)
LEMMA FlushEmpties ==
  ASSUME ChunkInv, FlushStart \/ FlushIO
  PROVE  /\ \/ currentBuffer' = <<>>
            \/ /\ currentBuffer' = currentBuffer
               /\ \/ run.stage \in {"write", "rename"}
                  \/ pc' = pc /\ run'.stage = "readdir"
         /\ \A c \in Callers : pc[c] \in Ending => pc'[c] \in Ending
<1>0. /\ pc \in [Callers -> CallStates] /\ run \in [stage : Stages, buf : Seq(Line), attempt : Nat]
  BY ZenonT(30) DEF ChunkInv, ChunkTypeOK
<1>1. ASSUME NEW p, Resolve(p) PROVE \A c \in Callers : pc[c] \in Ending => pc'[c] \in Ending
  BY <1>0, <1>1, ZenonT(30) DEF Resolve, Ending
<1>2. ASSUME Snapshot
      PROVE  currentBuffer' = <<>> /\ \A c \in Callers : pc[c] \in Ending => pc'[c] \in Ending
  BY <1>1, <1>2 DEF Snapshot, callVars
<1>3. CASE FlushStart
  <2>1. CASE Snapshot
    BY <1>2, <2>1
  <2>2. CASE run' = [run EXCEPT !.stage = "readdir"] /\ UNCHANGED <<currentBuffer, callVars>>
    BY <1>0, <2>2, ZenonT(30) DEF callVars
  <2> QED BY <1>3, <2>1, <2>2, ZenonT(30) DEF FlushStart
<1>4. CASE FlushReadDir \/ FlushReadDirFails
  BY <1>2, <1>4 DEF FlushReadDir, FlushReadDirFails
<1>5. CASE FlushWriteTmp \/ FlushRenameBusy \/ FlushRenameNoEnt
  BY <1>5, Zenon DEF FlushWriteTmp, FlushRenameBusy, FlushRenameNoEnt, callVars
<1>6. CASE FlushRename
  <2>1. currentBuffer' = currentBuffer /\ run.stage = "rename"
    BY <1>6, ZenonT(30) DEF FlushRename
  <2>2. \E p : Resolve(p)
    BY <1>6, Zenon DEF FlushRename
  <2> QED BY <1>1, <2>1, <2>2, ZenonT(30)
<1>7. CASE FlushFail
  <2>1. currentBuffer' = currentBuffer /\ run.stage \in {"write", "rename"}
        /\ pc' = [pc EXCEPT ![Head(chain)] = "failed"]
    BY <1>7, Zenon DEF FlushFail, Reject
  <2> QED BY <1>0, <2>1, ZenonT(30) DEF Ending
<1> QED BY <1>3, <1>4, <1>5, <1>6, <1>7, ZenonT(30) DEF FlushIO

(* Without a pulse no flush is queued when Main is between its calls. *)
LEMMA NoneQueued ==
  ASSUME ChunkInv, StageInv, \A c \in Callers : stage[c] \notin Calling
  PROVE  run.stage = "idle"
<1>1. chain \in Seq(Callers) /\ \A c \in Callers : pc[c] = "idle"
  BY DEF ChunkInv, ChunkTypeOK, StageInv
<1>2. chain = <<>>
  <2>1. ASSUME chain # <<>> PROVE FALSE
    <3>1. 1 \in 1..Len(chain) /\ chain[1] \in Callers
      BY <1>1, <2>1
    <3>2. pc[chain[1]] \in Awaiting
      BY <3>1, Zenon DEF ChunkInv, ChainInv, Matches
    <3> QED BY <1>1, <3>1, <3>2, Zenon DEF Awaiting
  <2> QED BY <2>1
<1> QED BY <1>2, Zenon DEF ChunkInv, ChainInv

(* Main calls flushRemainder with no pulse running. *)
LEMMA EndCall ==
  ASSUME ChunkInv, StageInv, Main \in Callers, \A c \in Callers : stage[c] \notin Calling, CallFlush(Main)
  PROVE  /\ pc'[Main] \in Ending
         /\ pc'[Main] = "returned" \/ run'.stage \in {"write", "rename"} => currentBuffer' = <<>>
<1>1. pc \in [Callers -> CallStates] /\ run.stage = "idle"
  BY NoneQueued, Zenon DEF ChunkInv, ChunkTypeOK
<1>2. run' = run /\ currentBuffer' = currentBuffer
  BY Zenon DEF CallFlush, FlushRemainder
<1>3. \/ currentBuffer = <<>> /\ pc' = [pc EXCEPT ![Main] = "returned"]
      \/ pc' = [pc EXCEPT ![Main] = "remainder"]
  BY DEF CallFlush, FlushRemainder
<1> QED BY <1>1, <1>2, <1>3, ZenonT(30) DEF Ending

(* Every step keeps what is known of the end of the session. *)
LEMMA EndNext ==
  ASSUME StoreInv, ControlOK, QueueInv, TaskInv, EndInv, [Next]_vars
  PROVE  EndInv'
<1>0. /\ Main \in Callers /\ ChunkInv /\ StageInv /\ stage \in [Callers -> RealtimeStages]
      /\ pc \in [Callers -> CallStates]
  BY RealtimeAssumption, Zenon DEF StoreInv, WriterInv, ChunkInv, ChunkTypeOK, ControlOK, TaskInv
<1>1. /\ NoFaults' => NoFaults
      /\ NoFaults => \A c \in Callers : pc[c] # "failed" /\ savePc[c] # "failed"
  BY FaultsStay DEF StoreInv, WriterInv, FaultInv, TaskInv, SavedInv, NoFaults
<1>2. \A c \in Callers : c # Main => c \in Pulses
  BY DEF Pulses
<1>3. /\ \A v \in Opening \cup {"stream", "failed", "aborted"} : v \notin EndStages
      /\ FlushStages \subseteq EndStages /\ LastStages \subseteq EndStages
  BY Zenon DEF EndStages, LastStages, Opening, FlushStages
<1>4. CASE StreamEnds
  <2>1. stage' = [stage EXCEPT ![Main] = "drain"] /\ alone' = \A t \in Pulses : stage[t] = "none"
    BY <1>4 DEF StreamEnds, Goto
  <2>2. stage'[Main] = "drain" /\ \A t \in Pulses : stage'[t] = stage[t]
    BY <1>0, <2>1 DEF Pulses
  <2>3. alone' => \A t \in Pulses : stage'[t] = "none"
    BY <2>1, <2>2, Zenon
  <2> QED BY <2>2, <2>3, Zenon DEF EndInv, EndStages, LastStages
<1> SUFFICES ASSUME alone', ~StreamEnds PROVE EndInv'
  BY <1>4, Zenon DEF EndInv
<1>5. alone
  <2>1. ASSUME NEW c \in Callers, Inner(c) PROVE alone' = alone
    BY <2>1, InnerKinds, Zenon
  <2>2. ASSUME NEW t \in Pulses, Pulse(t) PROVE alone' = alone
    BY <2>2, Zenon DEF Pulse
  <2>3. CASE \/ StreamLine \/ StreamFails \/ StopAll
             \/ Connect \/ Prepare \/ StreamOpens \/ Drain \/ WriterStep \/ UNCHANGED vars
    BY <2>3, Zenon DEF StreamLine, StreamFails, StopAll, Connect, Prepare, StreamOpens, Drain, WriterStep,
                vars, rtVars
  <2> QED BY <2>1, <2>2, <2>3, RealtimeKinds, Zenon
<1>6. /\ stage[Main] \in EndStages
      /\ \A t \in Pulses : stage[t] = "none"
      /\ stage[Main] = "remainder" => pc[Main] \in Ending
      /\ NoFaults => /\ stage[Main] \in LastStages => currentBuffer = <<>>
                     /\ stage[Main] = "remainder"
                        /\ (pc[Main] = "returned" \/ run.stage \in {"write", "rename"})
                          => currentBuffer = <<>>
  BY <1>5, ZenonT(30) DEF EndInv
<1>7. ASSUME UNCHANGED <<stage, pc, currentBuffer, run>> PROVE EndInv'
  BY <1>1, <1>6, <1>7, ZenonT(30) DEF EndInv
<1>8. CASE StreamLine \/ StreamFails \/ Connect \/ Prepare \/ StreamOpens
  <2>1. stage[Main] \in Opening \cup {"stream", "failed", "aborted"}
    BY <1>8, Zenon DEF StreamLine, StreamFails, Connect, Prepare, StreamOpens, Opening
  <2> QED BY <1>3, <1>6, <2>1, ZenonT(30)
<1>9. CASE StopAll \/ UNCHANGED vars
  <2>1. UNCHANGED storeVars /\ (stage' = stage \/ stage[Main] \in {"stream", "failed"})
    BY <1>9, Zenon DEF StopAll, vars, rtVars
  <2>2. stage' = stage
    BY <1>3, <1>6, <2>1, ZenonT(30)
  <2> QED BY <1>7, <2>1, <2>2, ZenonT(30) DEF storeVars, chunkVars, callVars, writerVars
\* Main calls flushRemainder.
<1>10. ASSUME CallFlush(Main), stage' = [stage EXCEPT ![Main] = "remainder"],
              stage[Main] \notin Calling
       PROVE  EndInv'
  <2>1. \A c \in Callers : stage[c] \notin Calling
    BY <1>2, <1>6, <1>10, Zenon DEF Calling
  <2>2. /\ pc'[Main] \in Ending
        /\ pc'[Main] = "returned" \/ run'.stage \in {"write", "rename"} => currentBuffer' = <<>>
    BY <1>0, <1>10, <2>1, EndCall, ZenonT(30)
  <2>3. stage'[Main] = "remainder" /\ \A t \in Pulses : stage'[t] = "none"
    BY <1>0, <1>6, <1>10, ZenonT(30) DEF Pulses
  <2>4. "remainder" \in EndStages /\ "remainder" \notin LastStages
    BY DEF EndStages, LastStages
  <2> QED BY <2>2, <2>3, <2>4, ZenonT(30) DEF EndInv
<1>11. CASE Drain
  <2>1. CASE StartFlush(Main)
    <3>1. stage' = [stage EXCEPT ![Main] = "append"]
      BY <2>1, Zenon DEF StartFlush, Goto
    <3>2. stage'[Main] = "append" /\ \A t \in Pulses : stage'[t] = "none"
      BY <1>0, <1>6, <3>1, ZenonT(30) DEF Pulses
    <3> QED BY <3>2 DEF EndInv, EndStages, LastStages
  <2>2. CASE CallFlush(Main) /\ Goto(Main, "remainder")
    BY <1>10, <1>11, <2>2, ZenonT(30) DEF Drain, Goto, Calling
  <2> QED BY <1>11, <2>1, <2>2, ZenonT(30) DEF Drain
<1>12. ASSUME NEW t \in Pulses, Pulse(t) PROVE EndInv'
  <2>1. stage[Main] # "drain"
    BY <1>0, <1>12, ZenonT(30) DEF Pulse, Ready
  <2>2. ~(Pending > 0)
    BY <1>3, <1>6, <2>1, ZenonT(30) DEF QueueInv
  <2>3. UNCHANGED <<chunkVars, stage>>
    BY <1>12, <2>2, Zenon DEF Pulse, StartFlush
  <2> QED BY <1>7, <2>3, Zenon DEF chunkVars, callVars, writerVars
<1>13. CASE WriterStep
  <2>1. stage' = stage
    BY <1>13 DEF WriterStep, rtVars
  <2>2. ASSUME NEW c \in Callers, ResumeBatch(c) PROVE EndInv'
    <3>1. pc[c] = "resume"
      BY <2>2, ZenonT(30) DEF ResumeBatch
    <3>2. stage[c] \in Calling
      BY <1>0, <3>1 DEF StageInv
    <3>3. c = Main
      BY <1>2, <1>6, <3>2, ZenonT(30) DEF Calling
    <3>4. stage[Main] = "append"
      BY <1>6, <3>1, <3>2, <3>3, ZenonT(30) DEF Calling, Ending
    <3> QED BY <1>6, <2>1, <3>4, ZenonT(30) DEF EndInv, LastStages
  <2>3. CASE FlushStart \/ FlushIO
    <3>1. /\ \/ currentBuffer' = <<>>
             \/ /\ currentBuffer' = currentBuffer
                /\ \/ run.stage \in {"write", "rename"}
                   \/ pc' = pc /\ run'.stage = "readdir"
          /\ \A c \in Callers : pc[c] \in Ending => pc'[c] \in Ending
      BY <1>0, <2>3, FlushEmpties, ZenonT(30)
    <3>2. stage'[Main] = "remainder" => pc'[Main] \in Ending
      BY <1>0, <1>6, <2>1, <3>1, ZenonT(30)
    <3>3. NoFaults' /\ stage'[Main] \in LastStages => currentBuffer' = <<>>
      BY <1>1, <1>6, <2>1, <3>1, ZenonT(30)
    <3>4. NoFaults' /\ stage'[Main] = "remainder"
          /\ (pc'[Main] = "returned" \/ run'.stage \in {"write", "rename"}) => currentBuffer' = <<>>
      BY <1>1, <1>6, <2>1, <3>1, ZenonT(30)
    <3> QED BY <1>6, <2>1, <3>2, <3>3, <3>4, ZenonT(30) DEF EndInv
  <2> QED BY <1>13, <2>2, <2>3, Zenon DEF WriterStep
\* A step of Main that makes no call.
<1>14. ASSUME currentBuffer' = currentBuffer, NEW v \in EndStages, v # "remainder",
              stage' = [stage EXCEPT ![Main] = v],
              NoFaults' /\ v \in LastStages =>
                \/ stage[Main] \in LastStages
                \/ stage[Main] = "remainder" /\ pc[Main] = "returned"
       PROVE  EndInv'
  <2>1. stage'[Main] = v /\ \A t \in Pulses : stage'[t] = "none"
    BY <1>0, <1>6, <1>14, ZenonT(30) DEF Pulses
  <2>2. NoFaults' /\ v \in LastStages => currentBuffer' = <<>>
    BY <1>1, <1>6, <1>14, ZenonT(30)
  <2> QED BY <1>14, <2>1, <2>2, ZenonT(30) DEF EndInv
<1>15. ASSUME NEW c \in Callers, Inner(c) PROVE EndInv'
  <2>1. CASE SaveStep(c)
    BY <1>7, <2>1, Zenon DEF SaveStep, chunkVars, writerVars, callVars
  <2>2. ASSUME c # Main, ~SaveStep(c) PROVE FALSE
    <3>1. stage[c] = "none"
      BY <1>2, <1>6, <2>2, Zenon
    <3> QED BY <1>15, <2>2, <3>1, ZenonT(30) DEF Inner, TakeParts, AddParts, AfterSave, OpenRead, OpenDone,
                                     AfterSetDir, ReadPage, Deliver
  <2>3. CASE TakeParts(Main)
    <3>1. currentBuffer' = currentBuffer /\ stage[Main] \in Calling
      BY <2>3 DEF TakeParts, Collect, writerVars, Calling
    <3>2. \/ pc[Main] = "failed" /\ stage' = [stage EXCEPT ![Main] = "done"]
          \/ /\ pc[Main] = "returned" /\ stage[Main] = "append"
             /\ stage' = [stage EXCEPT ![Main] = "add"]
          \/ /\ pc[Main] = "returned" /\ stage[Main] = "remainder"
             /\ \E v \in {"lastPage", "addLast"} : stage' = [stage EXCEPT ![Main] = v]
      BY <2>3, Zenon DEF TakeParts, EndTask, Goto
    <3>3. {"done", "add", "lastPage", "addLast"} \subseteq EndStages /\ "add" \notin LastStages
      BY DEF EndStages, LastStages
    <3> QED BY <1>0, <1>1, <1>14, <3>1, <3>2, <3>3, ZenonT(30)
  <2>4. CASE AddParts(Main)
    <3>1. currentBuffer' = currentBuffer /\ UNCHANGED <<pc, run>>
      BY <2>4, ZenonT(30) DEF AddParts, chunkVars, writerVars, callVars
    <3>2. \/ stage' = stage
          \/ stage[Main] = "add" /\ stage' = [stage EXCEPT ![Main] = "save"]
          \/ stage[Main] = "addLast" /\ stage' = [stage EXCEPT ![Main] = "saveLast"]
      BY <2>4, ZenonT(30) DEF AddParts, Goto
    <3>3. /\ {"save", "saveLast"} \subseteq EndStages /\ "save" \notin LastStages
          /\ "addLast" \in LastStages
      BY DEF EndStages, LastStages
    <3> QED BY <1>7, <1>14, <3>1, <3>2, <3>3, ZenonT(30)
  <2>5. CASE AfterSave(Main)
    <3>1. currentBuffer' = currentBuffer
      BY <2>5, Zenon DEF AfterSave, chunkVars, writerVars
    <3>2. \/ savePc[Main] = "failed" /\ stage' = [stage EXCEPT ![Main] = "done"]
          \/ /\ stage[Main] = "saveLast"
             /\ \E v \in {"lastPage", "readForLast"} : stage' = [stage EXCEPT ![Main] = v]
          \/ \E v \in {"readForDir", "dirSet", "readForReload", "page"} :
               stage' = [stage EXCEPT ![Main] = v]
      BY <2>5, Zenon DEF AfterSave, EndTask, Goto
    <3>3. /\ {"done", "lastPage", "readForLast", "readForDir", "dirSet", "readForReload", "page"}
                \subseteq EndStages
          /\ {"readForDir", "dirSet", "readForReload", "page"} \cap LastStages = {}
          /\ "saveLast" \in LastStages
      BY Zenon DEF EndStages, LastStages
    <3> QED BY <1>0, <1>1, <1>14, <3>1, <3>2, <3>3, ZenonT(30)
  <2>6. CASE OpenRead(Main) \/ OpenDone(Main)
    <3>1. currentBuffer' = currentBuffer
      BY <2>6, Zenon DEF OpenRead, OpenDone, chunkVars, writerVars
    <3>2. \/ /\ stage[Main] \in {"readForLast", "openForLast"}
             /\ \E v \in {"done", "openForLast", "lastPage"} : stage' = [stage EXCEPT ![Main] = v]
          \/ \E v \in {"page", "openForDir", "openForReload", "dirSet"} :
               stage' = [stage EXCEPT ![Main] = v]
      BY <2>6, Zenon DEF OpenRead, OpenDone, EndTask, Goto
    <3>3. /\ {"done", "openForLast", "lastPage", "page", "openForDir", "openForReload", "dirSet"}
                \subseteq EndStages
          /\ {"page", "openForDir", "openForReload", "dirSet"} \cap LastStages = {}
          /\ {"readForLast", "openForLast"} \subseteq LastStages
      BY Zenon DEF EndStages, LastStages
    <3> QED BY <1>14, <3>1, <3>2, <3>3, ZenonT(30)
  <2>7. CASE AfterSetDir(Main) \/ ReadPage(Main)
    <3>1. currentBuffer' = currentBuffer
      BY <2>7, Zenon DEF AfterSetDir, ReadPage, storeVars, chunkVars, writerVars
    <3>2. \/ stage[Main] = "lastPage" /\ stage' = [stage EXCEPT ![Main] = "deliverLast"]
          \/ \E v \in {"page", "deliver"} : stage' = [stage EXCEPT ![Main] = v]
      BY <2>7, Zenon DEF AfterSetDir, ReadPage, Goto
    <3>3. /\ {"deliverLast", "page", "deliver"} \subseteq EndStages
          /\ {"page", "deliver"} \cap LastStages = {} /\ "lastPage" \in LastStages
      BY Zenon DEF EndStages, LastStages
    <3> QED BY <1>14, <3>1, <3>2, <3>3, ZenonT(30)
  <2>8. CASE Deliver(Main)
    <3>1. CASE stage[Main] = "deliver" /\ CallFlush(Main) /\ Goto(Main, "remainder")
      BY <1>10, <3>1 DEF Goto, Calling
    <3>2. CASE stage[Main] = "deliverLast" /\ EndTask(Main) /\ UNCHANGED <<chunkVars, added>>
      <4>1. currentBuffer' = currentBuffer /\ stage' = [stage EXCEPT ![Main] = "done"]
        BY <3>2 DEF EndTask, Goto, chunkVars, writerVars
      <4>2. "done" \in EndStages /\ "deliverLast" \in LastStages
        BY DEF EndStages, LastStages
      <4> QED BY <1>14, <3>2, <4>1, <4>2, Zenon
    <3> QED BY <2>8, <3>1, <3>2, ZenonT(30) DEF Deliver
  <2> QED BY <1>15, <2>1, <2>2, <2>3, <2>4, <2>5, <2>6, <2>7, <2>8, ZenonT(30) DEF Inner
<1> QED BY <1>8, <1>9, <1>11, <1>12, <1>13, <1>15, RealtimeKinds, ZenonT(30)

-----------------------------------------------------------------------------
(* Where a row of the log is: in a part of this session, with its lines.   *)
LEMMA RowFacts ==
  ASSUME StoreInv, FiledInv, NEW i \in 1..MergedLines
  PROVE  LET k == ChunkOf(chunks, i)
             n == chunks[k].file
             j == i - chunks[k].start IN
         /\ k \in 1..Len(chunks) /\ n \in DOMAIN parts /\ j \in DOMAIN parts[n]
         /\ RowOf(chunks, i) = parts[n][j]
         /\ RowOf(chunks, i) \in 1..emitted
<1> DEFINE k == ChunkOf(chunks, i)
           n == chunks[k].file
           j == i - chunks[k].start
<1>1. chunks \in Seq(Chunk) /\ Tiled(chunks) /\ MergedLines \in Nat
  BY MergedLinesType, Zenon DEF StoreInv, LogInv, StoreTypeOK, ManifestTiles, MergedLines
<1>2. k \in 1..Len(chunks) /\ HasLine(chunks[k], i)
  BY <1>1, ChunkOfLine, Zenon DEF MergedLines
<1>3. k > Len(LoadedChunks)
  <2>1. Len(LoadedChunks) = 0
    BY RealtimeAssumption
  <2> HIDE DEF k
  <2> QED BY <1>2, <2>1
<1>4. OwnPart(n) /\ Sound(k)
  BY <1>2, <1>3, Zenon DEF FiledInv, Sound
<1>5. n \in DOMAIN parts /\ parts[n] \in Seq(Line) /\ chunks[k].lines = Len(parts[n])
  BY <1>2, <1>4, ZenonT(30) DEF FiledInv, ManifestPartsExist, OwnPart, StoreInv, WriterInv, ChunkInv, ChunkTypeOK
<1>6. chunks[k].start \in Nat /\ chunks[k].lines \in Nat
  BY <1>1, <1>2, ChunkFields, ZenonT(30)
<1>7. j \in 1..Len(parts[n])
  <2> HIDE DEF k
  <2> QED BY <1>1, <1>2, <1>5, <1>6 DEF HasLine
<1>8. j \in DOMAIN parts[n]
  BY <1>5, <1>7
<1>9. RowOf(chunks, i) = parts[n][j]
  BY DEF RowOf, ChunkOf
<1>10. parts[n][j] \in 1..emitted
  BY <1>4, <1>8, ZenonT(30) DEF OwnPart
<1> QED BY <1>2, <1>5, <1>8, <1>9, <1>10, ZenonT(30)

(* The pages that are being sent. *)
PagesOK == page \in [Callers -> SUBSET (Nat \X Line)] /\ PagesTrue

(* A row of the log stays where it is, and so do the rows being sent. *)
LEMMA PagesNext ==
  ASSUME StoreInv, FiledInv, ControlOK, PagesOK, [Next]_vars
  PROVE  /\ PagesOK'
         /\ \A i \in 1..MergedLines : i <= MergedLines' /\ RowOf(chunks, i)' = RowOf(chunks, i)
<1>0. /\ [StoreNext]_storeVars /\ LogInv /\ page \in [Callers -> SUBSET (Nat \X Line)]
      /\ MergedLines \in Nat
  <2>1. ChunkInv /\ received \in 0..NumLines
    BY DEF StoreInv, WriterInv, ControlOK
  <2>2. MergedLines \in Nat
    BY MergedLinesType, Zenon DEF StoreInv, LogInv, StoreTypeOK, MergedLines
  <2> QED BY <2>1, <2>2, StoreSteps, Zenon DEF StoreInv, PagesOK
<1>1. ASSUME NEW i \in 1..MergedLines
      PROVE  i \in 1..MergedLines' /\ RowOf(chunks, i)' = RowOf(chunks, i)
  <2>1. MergedLinesOf(LoadedChunks) = 0
    BY RealtimeAssumption, Zenon DEF MergedLinesOf
  <2>2. i > MergedLinesOf(LoadedChunks)
    BY <1>0, <2>1
  <2> QED BY <1>0, <2>2, RowKept, Zenon
<1>2. ASSUME NEW c \in Callers, NEW r \in page[c]
      PROVE  r[1] \in 1..MergedLines' /\ RowOf(chunks, r[1])' = r[2]
  <2>1. r[1] \in 1..MergedLines /\ RowOf(chunks, r[1]) = r[2]
    BY Zenon DEF PagesOK, PagesTrue
  <2> QED BY <1>1, <2>1, Zenon
<1>3. ASSUME NEW c \in Callers, \A d \in Callers : d # c => page'[d] = page[d],
             page' \in [Callers -> SUBSET (Nat \X Line)],
             \A r \in page'[c] : r[1] \in 1..MergedLines' /\ RowOf(chunks, r[1])' = r[2]
      PROVE  PagesOK'
  <2>1. ASSUME NEW d \in Callers, NEW r \in page'[d]
        PROVE  r[1] \in 1..MergedLines' /\ RowOf(chunks, r[1])' = r[2]
    BY <1>2, <1>3, <2>1, Zenon
  <2> QED BY <1>3, <2>1, Zenon DEF PagesOK, PagesTrue
<1>4. ASSUME page' = page PROVE PagesOK'
  <2>1. page' \in [Callers -> SUBSET (Nat \X Line)] /\ Main \in Callers
    BY <1>0, <1>4, RealtimeAssumption, Zenon
  <2>2. \A r \in page'[Main] : r[1] \in 1..MergedLines' /\ RowOf(chunks, r[1])' = r[2]
    BY <1>2, <1>4, <2>1, ZenonT(30)
  <2>3. \A d \in Callers : d # Main => page'[d] = page[d]
    BY <1>4, Zenon
  <2> QED BY <1>3, <2>1, <2>2, <2>3, Zenon
<1>5. ASSUME NEW c \in Callers, ReadPage(c) PROVE PagesOK'
  <2>1. page' = [page EXCEPT ![c] = LastRows(mergedSoFar)]
    BY <1>5, Zenon DEF ReadPage
  <2>2. ASSUME NEW r \in LastRows(mergedSoFar)
        PROVE  r \in Nat \X Line /\ r[1] \in 1..MergedLines /\ RowOf(chunks, r[1]) = r[2]
    <3>1. reader # NoReader
      BY Zenon DEF LastRows
    <3>2. PICK i \in 1..MergedLinesOf(reader) : r = <<i, RowOf(reader, i)>>
      BY <3>1, Zenon DEF LastRows
    <3>3. i \in 1..MergedLines /\ RowOf(reader, i) = RowOf(chunks, i)
      BY <1>0, <3>1, ReaderRow
    <3>4. RowOf(chunks, i) \in 1..emitted
      BY <3>3, RowFacts, ZenonT(30)
    <3>5. emitted \in 0..NumLines /\ NumLines \in Nat
      BY ChunkWriterAssumption, Zenon DEF StoreInv, WriterInv, ChunkInv, ChunkTypeOK
    <3>6. RowOf(chunks, i) \in Line /\ i \in Nat
      BY <1>0, <3>3, <3>4, <3>5 DEF Line
    <3> QED BY <3>2, <3>3, <3>6, Zenon
  <2>3. LastRows(mergedSoFar) \in SUBSET (Nat \X Line)
    BY <2>2, Zenon
  <2>4. page'[c] = LastRows(mergedSoFar) /\ \A d \in Callers : d # c => page'[d] = page[d]
    BY <1>0, <2>1, ZenonT(30)
  <2>5. page' \in [Callers -> SUBSET (Nat \X Line)]
    BY <1>0, <2>1, <2>3, ZenonT(30)
  <2>6. \A r \in page'[c] : r[1] \in 1..MergedLines' /\ RowOf(chunks, r[1])' = r[2]
    BY <1>1, <2>2, <2>4, ZenonT(30)
  <2> QED BY <1>3, <2>4, <2>5, <2>6, Zenon
<1>6. ASSUME NEW c \in Callers, Deliver(c) PROVE PagesOK'
  <2>1. page' = [page EXCEPT ![c] = {}]
    BY <1>6, Zenon DEF Deliver
  <2>2. /\ page'[c] = {} /\ \A d \in Callers : d # c => page'[d] = page[d]
        /\ page' \in [Callers -> SUBSET (Nat \X Line)]
    BY <1>0, <2>1, Zenon
  <2> QED BY <1>3, <2>2, ZenonT(30)
<1>7. ASSUME NEW c \in Callers, Inner(c), ~ReadPage(c), ~Deliver(c) PROVE page' = page
  BY <1>7, Zenon DEF Inner, TakeParts, AddParts, SaveStep, AfterSave, OpenRead, OpenDone, AfterSetDir, viewVars
<1>8. ASSUME NEW t \in Pulses, Pulse(t) PROVE page' = page
  BY <1>8 DEF Pulse, viewVars
<1>9. ASSUME \/ StreamLine \/ StreamEnds \/ StreamFails \/ StopAll
             \/ Connect \/ Prepare \/ StreamOpens \/ Drain \/ WriterStep \/ UNCHANGED vars
      PROVE  PagesOK'
  <2>1. page' = page
    BY <1>9, Zenon DEF StreamLine, StreamEnds, StreamFails, StopAll, Connect, Prepare, StreamOpens, Drain,
                WriterStep, vars, rtVars, viewVars
  <2> QED BY <1>4, <2>1
<1>10. PagesOK'
  BY <1>4, <1>5, <1>6, <1>7, <1>8, <1>9, RealtimeKinds, ZenonT(30)
<1>11. ASSUME NEW i \in 1..MergedLines
       PROVE  i <= MergedLines' /\ RowOf(chunks, i)' = RowOf(chunks, i)
  <2>1. i \in 1..MergedLines' /\ RowOf(chunks, i)' = RowOf(chunks, i)
    BY <1>1
  <2>2. i <= MergedLines'
    BY <2>1
  <2> QED BY <2>1, <2>2, Zenon
<1> QED BY <1>10, <1>11, Zenon

-----------------------------------------------------------------------------
-----------------------------------------------------------------------------
LEMMA RtInit == Init => ListedInv /\ EndInv /\ PagesOK
<1> SUFFICES ASSUME Init PROVE ListedInv /\ EndInv /\ PagesOK
  OBVIOUS
<1>1. ListedInv
  <2>1. parts = [n \in OldParts |-> OldPart(n)]
    BY ZenonT(30) DEF Init, StoreInit, ChunkInit
  <2>2. \A n \in DOMAIN parts : \A i \in DOMAIN parts[n] : parts[n][i] = OldLine
    BY <2>1 DEF OldPart
  <2> QED BY <2>2 DEF ListedInv, AllListed
<1>2. EndInv
  BY Zenon DEF Init, EndInv
<1>3. PagesOK
  BY Zenon DEF Init, PagesOK, PagesTrue
<1> QED BY <1>1, <1>2, <1>3, Zenon

SessionInv == TaskInv /\ ListedInv /\ EndInv /\ PagesOK

(* All that is known of the session, from the store, the queue and above. *)
LEMMA SessionInvariant ==
  Spec => [](StoreInv /\ FiledInv /\ ControlOK /\ QueueInv /\ SessionInv)
<1>1. Init => SessionInv
  BY TaskInit, RtInit DEF SessionInv
<1>2. StoreInv /\ FiledInv /\ ControlOK /\ QueueInv /\ SessionInv /\ [Next]_vars => SessionInv'
  BY TaskNext, ListedNext, EndNext, PagesNext, ZenonT(30) DEF SessionInv
<1>3. Spec => [](StoreInv /\ FiledInv)
  BY RealtimeImplementsStore, StoreInvariant, FiledInvariant, PTL
<1> QED BY <1>1, <1>2, <1>3, QueueInvariant, PTL DEF Spec

(* In whatever order the pulses of the timer add their parts, the line at  *)
(* an index of the log stays there, and the pages that are sent to the     *)
(* viewer hold the lines of the log at their indexes.                      *)
THEOREM RowsAreStable == Spec => RowsStable
<1>1. StoreInv /\ FiledInv /\ ControlOK /\ QueueInv /\ SessionInv /\ [Next]_vars
        => [/\ \A i \in 1..MergedLines : i <= MergedLines' /\ RowOf(chunks, i)' = RowOf(chunks, i)
            /\ PagesTrue']_vars
  <2> SUFFICES ASSUME StoreInv, FiledInv, ControlOK, SessionInv, [Next]_vars
               PROVE  /\ \A i \in 1..MergedLines :
                           i <= MergedLines' /\ RowOf(chunks, i)' = RowOf(chunks, i)
                      /\ PagesTrue'
    BY Zenon
  <2> QED BY PagesNext, ZenonT(30) DEF SessionInv, PagesOK
<1> QED BY <1>1, SessionInvariant, PTL DEF Spec, RowsStable

(* The state of startRealtimeSession keeps its types. *)
THEOREM RealtimeTypeCorrect == Spec => [](RealtimeTypeOK /\ StoreTypeOK)
<1>1. StoreInv /\ FiledInv /\ ControlOK /\ QueueInv /\ SessionInv => RealtimeTypeOK /\ StoreTypeOK
  BY ZenonT(30) DEF StoreInv, LogInv, ControlOK, SessionInv, PagesOK, RealtimeTypeOK
<1> QED BY <1>1, SessionInvariant, PTL

(* A session that is over, with no pulse at its end and no error, has the  *)
(* lines of the stream in the rows of its log, each once.                  *)
OneRowEach ==
  /\ \A e \in 1..emitted : \E i \in 1..MergedLines : RowOf(chunks, i) = e
  /\ \A i \in 1..MergedLines : RowOf(chunks, i) \in 1..emitted
  /\ \A a, b \in 1..MergedLines : RowOf(chunks, a) = RowOf(chunks, b) => a = b

LEMMA DoneRows ==
  ASSUME StoreInv, FiledInv, ControlOK, QueueInv, TaskInv, ListedInv, EndInv,
         stage[Main] = "done"
  PROVE  /\ ~timer /\ Pending = 0 /\ received = emitted
         /\ MergedLines \in Nat /\ emitted \in Nat
         /\ alone /\ NoFaults => OneRowEach
<1>0. /\ emitted \in Nat /\ received \in Nat /\ Main \in Callers /\ chunks \in Seq(Chunk)
      /\ MergedLines \in Nat /\ ChunkInv /\ Tiled(chunks)
      /\ \A n \in DOMAIN parts : parts[n] \in Seq(Line)
  <2>1. /\ emitted \in 0..NumLines /\ received \in 0..NumLines /\ NumLines \in Nat
        /\ chunks \in Seq(Chunk) /\ ChunkInv /\ Tiled(chunks)
        /\ \A n \in DOMAIN parts : parts[n] \in Seq(Line)
    BY ChunkWriterAssumption, ZenonT(30) DEF StoreInv, WriterInv, ChunkInv, ChunkTypeOK, ControlOK, LogInv,
                                 StoreTypeOK, ManifestTiles
  <2>2. MergedLines \in Nat
    BY <2>1, MergedLinesType, Zenon DEF MergedLines
  <2>3. emitted \in Nat /\ received \in Nat
    BY <2>1
  <2> QED BY <2>1, <2>2, <2>3, RealtimeAssumption, ZenonT(30)
<1>1. ~timer /\ ~(Pending > 0) /\ emitted <= received
  BY Zenon DEF QueueInv
<1>2. Pending = 0 /\ received = emitted
  BY <1>0, <1>1 DEF Pending
<1> SUFFICES ASSUME alone, NoFaults PROVE OneRowEach
  BY <1>0, <1>1, <1>2
<1>3. \A c \in Callers : stage[c] \in {"done", "none"}
  BY <1>0, ZenonT(30) DEF EndInv, Pulses
<1>4. /\ lost = {} /\ run.buf = <<>> /\ currentBuffer = <<>>
      /\ \A c \in Callers : pos[c] > end[c] /\ added[c] = Len(results[c])
  <2>1. lost = {}
    BY DEF StoreInv, WriterInv, FaultInv, NoFaults
  <2>2. \A c \in Callers : stage[c] \notin Calling /\ stage[c] \notin Calling \cup Adding
    BY <1>3, Zenon DEF Calling, Adding
  <2>3. run.stage = "idle"
    BY <1>0, <2>2, NoneQueued, ZenonT(30) DEF TaskInv
  <2>4. run.buf = <<>>
    BY <1>0, <2>3, ZenonT(30) DEF ChunkInv, ChainInv
  <2>5. currentBuffer = <<>>
    BY Zenon DEF EndInv, LastStages
  <2>6. \A c \in Callers : pc[c] = "idle"
    BY <2>2, Zenon DEF TaskInv, StageInv
  <2>7. \A c \in Callers : pos[c] > end[c]
    BY <2>6, Zenon DEF StoreInv, WriterInv, StreamInv, CallInv
  <2>8. \A c \in Callers : added[c] = Len(results[c])
    BY <2>2, Zenon DEF TaskInv, AddedInv
  <2> QED BY <2>1, <2>4, <2>5, <2>7, <2>8, ZenonT(30)
<1>5. ASSUME NEW c \in Callers PROVE Unpushed(c) = {} /\ Unlisted(c) = {}
  <2>1. pos[c] \in Nat /\ end[c] \in Nat /\ results[c] \in Seq(Part)
    BY <1>0, ZenonT(30) DEF ChunkInv, ChunkTypeOK
  <2>2. pos[c]..end[c] = {}
    BY <1>4, <2>1
  <2>3. ASSUME NEW i \in Unlisted(c) PROVE FALSE
    <3>1. i \in 1..Len(results[c]) /\ i > Len(results[c]) /\ Len(results[c]) \in Nat
      <4>1. i \in DOMAIN results[c] /\ i > added[c]
        BY Zenon DEF Unlisted
      <4>2. added[c] = Len(results[c]) /\ results[c] \in Seq(Part)
        BY <1>4, <2>1, Zenon
      <4>3. DOMAIN results[c] = 1..Len(results[c]) /\ Len(results[c]) \in Nat
        BY <4>2
      <4> QED BY <4>1, <4>2, <4>3, Zenon
    <3> QED BY <3>1
  <2> QED BY <2>2, <2>3, ZenonT(30) DEF Unpushed
<1>6. ASSUME NEW e \in 1..emitted PROVE \E i \in 1..MergedLines : RowOf(chunks, i) = e
  <2>1. PICK n \in DOMAIN parts : \E j \in DOMAIN parts[n] : parts[n][j] = e
    <3>1. \E n \in DOMAIN parts : e \in Elements(parts[n])
      <4>1. DOMAIN <<>> = {}
        OBVIOUS
      <4>2. Elements(<<>>) = {}
        BY <4>1 DEF Elements
      <4> QED BY <1>4, <1>5, <4>2, ZenonT(30) DEF StoreInv, WriterInv, StreamInv, NoLineVanishes
    <3> QED BY <3>1, ZenonT(30) DEF Elements
  <2>2. PICK j \in DOMAIN parts[n] : parts[n][j] = e
    BY <2>1, ZenonT(30)
  <2>3. e # OldLine
    BY <1>0 DEF OldLine
  <2>4. Listed(n)
    BY <2>2, <2>3, ZenonT(30) DEF ListedInv, AllListed
  <2>5. PICK k \in 1..Len(chunks) : chunks[k].file = n
    BY <1>5, <2>4, ZenonT(30) DEF Listed
  <2>6. chunks[k].lines = Len(parts[n])
    <3>1. Len(LoadedChunks) = 0 /\ k > 0
      BY <1>0, RealtimeAssumption
    <3> QED BY <2>5, <3>1, ZenonT(30) DEF FiledInv, ManifestPartsExist, Sound
  <2>7. /\ chunks[k].start \in Nat /\ chunks[k].lines \in Nat
        /\ chunks[k].start + chunks[k].lines <= MergedLines
    BY <1>0, ChunkFields, TiledEnds, ZenonT(30) DEF MergedLines
  <2> DEFINE i == chunks[k].start + j
  <2>8. j \in 1..chunks[k].lines
    BY <1>0, <2>6
  <2>9. i \in 1..MergedLines /\ HasLine(chunks[k], i) /\ i \in Int /\ i - chunks[k].start = j
    BY <1>0, <2>7, <2>8 DEF HasLine
  <2> HIDE DEF i
  <2>10. ChunkOf(chunks, i) \in 1..Len(chunks) /\ HasLine(chunks[ChunkOf(chunks, i)], i)
    BY <1>0, <2>9, ChunkOfLine, ZenonT(30) DEF MergedLines
  <2>11. ChunkOf(chunks, i) = k
    BY <1>0, <2>9, <2>10, LineInOneChunk, ZenonT(30)
  <2>12. RowOf(chunks, i) = parts[chunks[k].file][i - chunks[k].start]
    BY <2>11, Zenon DEF RowOf, ChunkOf
  <2> QED BY <2>2, <2>5, <2>9, <2>12, ZenonT(30)
<1>7. ASSUME NEW i \in 1..MergedLines PROVE RowOf(chunks, i) \in 1..emitted
  BY RowFacts, ZenonT(30)
<1>8. ASSUME NEW a \in 1..MergedLines, NEW b \in 1..MergedLines, RowOf(chunks, a) = RowOf(chunks, b)
      PROVE  a = b
  <2> DEFINE k == ChunkOf(chunks, a)
             m == ChunkOf(chunks, b)
             x == a - chunks[k].start
             y == b - chunks[m].start
  <2>1. /\ k \in 1..Len(chunks) /\ chunks[k].file \in DOMAIN parts
        /\ x \in DOMAIN parts[chunks[k].file] /\ RowOf(chunks, a) = parts[chunks[k].file][x]
        /\ RowOf(chunks, a) \in 1..emitted
    BY RowFacts, ZenonT(30)
  <2>2. /\ m \in 1..Len(chunks) /\ chunks[m].file \in DOMAIN parts
        /\ y \in DOMAIN parts[chunks[m].file] /\ RowOf(chunks, b) = parts[chunks[m].file][y]
    BY RowFacts, ZenonT(30)
  <2> HIDE DEF x, y, k, m
  <2>3. RowOf(chunks, a) # OldLine
    <3>1. RowOf(chunks, a) \in 1..emitted /\ emitted \in Nat
      BY <1>0, <2>1, Zenon
    <3> QED BY <3>1 DEF OldLine
  <2>4. chunks[k].file = chunks[m].file /\ x = y
    <3>1. \A p, q \in DOMAIN parts : \A i \in DOMAIN parts[p], j \in DOMAIN parts[q] :
            parts[p][i] = parts[q][j] /\ parts[p][i] # OldLine => p = q /\ i = j
      BY ZenonT(30) DEF StoreInv, WriterInv, StreamInv, LineStoredOnce
    <3>2. \A i \in DOMAIN parts[chunks[k].file], j \in DOMAIN parts[chunks[m].file] :
            parts[chunks[k].file][i] = parts[chunks[m].file][j] /\ parts[chunks[k].file][i] # OldLine
              => chunks[k].file = chunks[m].file /\ i = j
      BY <2>1, <2>2, <3>1, Zenon
    <3>3. parts[chunks[k].file][x] = parts[chunks[m].file][y] /\ parts[chunks[k].file][x] # OldLine
      BY <1>8, <2>1, <2>2, <2>3, Zenon
    <3> QED BY <2>1, <2>2, <3>2, <3>3, ZenonT(30)
  <2>5. k = m
    <3>1. Len(LoadedChunks) = 0 /\ k > 0 /\ m > 0
      <4>1. k \in 1..Len(chunks) /\ m \in 1..Len(chunks)
        BY <2>1, <2>2, Zenon
      <4>2. Len(LoadedChunks) = 0
        BY RealtimeAssumption, ZenonT(30)
      <4>3. chunks \in Seq(Chunk)
        BY <1>0, Zenon
      <4> QED BY <4>1, <4>2, <4>3
    <3> QED BY <2>1, <2>2, <2>4, <3>1, ZenonT(30) DEF FiledInv, ManifestPartsExist, Sound
  <2>6. chunks[k].start \in Nat
    BY <1>0, <2>1, ChunkFields, ZenonT(30)
  <2> QED BY <1>0, <2>4, <2>5, <2>6 DEF x, y
<1> QED BY <1>6, <1>7, <1>8, ZenonT(30) DEF OneRowEach

-----------------------------------------------------------------------------
INSTANCE FiniteSetTheorems

(* A numbering of 1..n by 1..m without repetition has as many numbers. *)
LEMMA IntervalBijection ==
  ASSUME NEW m \in Nat, NEW n \in Nat, NEW f \in Bijection(1..m, 1..n)
  PROVE  m = n
<1>1. /\ IsFiniteSet(1..m) /\ Cardinality(1..m) = IF 1 > m THEN 0 ELSE m - 1 + 1
      /\ Cardinality(1..n) = IF 1 > n THEN 0 ELSE n - 1 + 1
  BY FS_Interval
<1>2. ExistsBijection(1..m, 1..n)
  BY DEF ExistsBijection
<1>3. Cardinality(1..n) = Cardinality(1..m)
  BY <1>1, <1>2, FS_Bijection, ZenonT(30)
<1> QED BY <1>1, <1>3

(* It has as many rows as lines. *)
LEMMA DoneWritesAll ==
  ASSUME StoreInv, FiledInv, ControlOK, QueueInv, TaskInv, ListedInv, EndInv
  PROVE  EndWritesAll
<1> SUFFICES ASSUME stage[Main] = "done" PROVE EndWritesAll
  BY ZenonT(30) DEF EndWritesAll
<1>1. /\ ~timer /\ Pending = 0 /\ received = emitted
      /\ MergedLines \in Nat /\ emitted \in Nat
      /\ alone /\ NoFaults => OneRowEach
  BY DoneRows, ZenonT(30)
<1> SUFFICES ASSUME alone, NoFaults
             PROVE  MergedLines = emitted /\ {RowOf(chunks, i) : i \in 1..MergedLines} = 1..emitted
  BY <1>1, ZenonT(30) DEF EndWritesAll
<1>2. OneRowEach
  BY <1>1, Zenon
<1>3. {RowOf(chunks, i) : i \in 1..MergedLines} = 1..emitted
  BY <1>2 DEF OneRowEach
<1>4. MergedLines = emitted
  <2> DEFINE f == [i \in 1..MergedLines |-> RowOf(chunks, i)]
  <2>1. f \in [1..MergedLines -> 1..emitted]
    BY <1>2, ZenonT(30) DEF OneRowEach
  <2>2. \A a, b \in 1..MergedLines : f[a] = f[b] => a = b
    BY <1>2, ZenonT(30) DEF OneRowEach
  <2>3. \A e \in 1..emitted : \E i \in 1..MergedLines : f[i] = e
    BY <1>2, ZenonT(30) DEF OneRowEach
  <2> HIDE DEF f
  <2>4. f \in Bijection(1..MergedLines, 1..emitted)
    BY <2>1, <2>2, <2>3, ZenonT(30) DEF Bijection, Injection, Surjection, IsInjective
  <2> QED BY <1>1, <2>4, IntervalBijection, ZenonT(30)
<1> QED BY <1>3, <1>4, ZenonT(30)

(* A session that has ended has its timer off and its queue empty; and if  *)
(* no pulse was running when the stream ended and no I/O call failed,      *)
(* every line of the stream is in the log, once, and nothing else is.      *)
THEOREM EndHasWrittenAll == Spec => []EndWritesAll
<1>1. StoreInv /\ FiledInv /\ ControlOK /\ QueueInv /\ SessionInv => EndWritesAll
  BY DoneWritesAll DEF SessionInv
<1> QED BY <1>1, SessionInvariant, PTL

=============================================================================
