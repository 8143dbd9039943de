--------------------------- MODULE RealtimeSession ---------------------------
(***************************************************************************)
(* startRealtimeSession of src/core/sessions/LogSessionManager.ts: lines   *)
(* streamed from the device are queued in pending, and a timer, armed by   *)
(* the first of them, flushes the queue to the chunk writer, the manifest  *)
(* and the viewer.  The timer is free again before its flush is over, so   *)
(* pulses overlap with each other and with the final flush of Main.        *)
(*                                                                         *)
(* The line stream is adbStream or sshStream of src/core/connection: they  *)
(* end, fail and answer an abort differently.  pending holds the lines     *)
(* emitted+1..received of the stream.                                      *)
(***************************************************************************)
EXTENDS LogSession

CONSTANT Window  \* LOG_WINDOW_SIZE

Pulses == Callers \ {Main}

ASSUME RealtimeAssumption ==
  /\ Main \in Callers
  /\ MaxBatch >= NumLines
  /\ LoadedChunks = <<>>
  /\ Window \in Nat \ {0}

VARIABLES
  link,             \* the connection of the line stream until it is over
  received,         \* how many lines the stream has delivered
  timer,            \* is rtFlushTimer armed
  page,             \* page[c]: the rows <<index, line>> that c is sending
  alone             \* was no pulse running when the stream ended (history)

streamVars == <<link, received, timer>>
viewVars   == <<paginationOpened, page>>
rtVars     == <<streamVars, stage, viewVars, alone, manifestFaults>>
vars       == <<storeVars, rtVars>>

Init ==
  /\ StoreInit
  /\ link \in {"ADB", "SSH", "none"}
  /\ received = 0
  /\ timer = FALSE
  /\ paginationOpened = FALSE
  /\ stage = [c \in Callers |-> IF c = Main THEN "connect" ELSE "none"]
  /\ page = [c \in Callers |-> {}]
  /\ alone = FALSE
  /\ manifestFaults = 0

Pending == received - emitted

(* MaxFaults bounds the errors on part files and manifest.json together. *)
ManifestFault ==
  /\ faults + manifestFaults < MaxFaults
  /\ manifestFaults' = manifestFaults + 1

(* Continuations that are ready run before the next event of the loop. *)
Ready ==
  \/ WriterReady
  \/ \E c \in Callers : \/ savePc[c] \in {"saved", "failed"}
                        \/ stage[c] \in {"drain", "dirSet", "page", "lastPage"}

(* The end of a pulse re-arms the timer for lines that came meanwhile; the *)
(* end of the session clears it.                                           *)
EndTask(c) ==
  /\ Goto(c, IF c = Main THEN "done" ELSE "none")
  /\ timer' = IF c = Main THEN FALSE ELSE timer \/ Pending > 0

-----------------------------------------------------------------------------
(* connect() and the test for an active connection, without which the      *)
(* session throws.                                                         *)
Connect ==
  /\ ~Ready
  /\ stage[Main] = "connect"
  /\ Goto(Main, IF link = "none" THEN "failed" ELSE "prepare")
  /\ UNCHANGED <<storeVars, streamVars, viewVars, alone, manifestFaults>>

(* rtAbort exists, a directory without a manifest has been chosen and the  *)
(* empty manifest created; the stream is being opened.                     *)
Prepare ==
  /\ ~Ready
  /\ stage[Main] = "prepare"
  /\ Goto(Main, "opening")
  /\ UNCHANGED <<storeVars, streamVars, viewVars, alone, manifestFaults>>

(* The client is connected and the command runs, or stream throws.  An     *)
(* abort that came before is not seen: the listener is added here.         *)
StreamOpens ==
  /\ ~Ready
  /\ stage[Main] = "opening"
  /\ stage' \in {[stage EXCEPT ![Main] = s] : s \in {"stream", "failed"}}
  /\ UNCHANGED <<storeVars, streamVars, viewVars, alone, manifestFaults>>

(* Variant: only the first line arms the timer. *)
StreamLineOnce ==
  /\ ~Ready
  /\ stage[Main] = "stream"
  /\ received < NumLines
  /\ received' = received + 1
  /\ timer' = (timer \/ received = 0)
  /\ UNCHANGED <<storeVars, link, stage, viewVars, alone, manifestFaults>>

(* onLine: the line is queued and schedulePulse arms the timer. *)
StreamLine ==
  /\ ~Ready
  /\ stage[Main] = "stream"
  /\ received < NumLines
  /\ received' = received + 1
  /\ timer' = TRUE
  /\ UNCHANGED <<storeVars, link, stage, viewVars, alone, manifestFaults>>

(* The stream ends and its promise is resolved.  adbStream hands over an   *)
(* unfinished last line first, sshStream drops it.                         *)
StreamEnds ==
  /\ ~Ready
  /\ stage[Main] = "stream"
  /\ \/ UNCHANGED <<received, timer>>
     \/ /\ link = "ADB" /\ received < NumLines
        /\ received' = received + 1
        /\ timer' = TRUE
  /\ Goto(Main, "drain")
  /\ link' = "none"
  /\ alone' = \A t \in Pulses : stage[t] = "none"
  /\ UNCHANGED <<storeVars, viewVars, manifestFaults>>

(* The stream of adbkit emits an error, as it does when its timeout        *)
(* destroys it: the session throws, and leaves its timer as it is.         *)
StreamFails ==
  /\ ~Ready
  /\ stage[Main] = "stream"
  /\ link = "ADB"
  /\ Goto(Main, "failed")
  /\ link' = "none"
  /\ UNCHANGED <<storeVars, received, timer, viewVars, alone, manifestFaults>>

(* stopAll clears the timer and aborts the stream.  An open adb stream is  *)
(* destroyed with an error, and so the session throws; an ssh connection   *)
(* is asked to end, and closes its stream later.  A session that has       *)
(* failed loses the timer that would still have flushed its queue.         *)
StopAll ==
  /\ ~Ready
  /\ timer' = FALSE
  /\ LET aborts == \/ stage[Main] = "stream" /\ link = "ADB"
                   \/ stage[Main] = "failed"
     IN  \/ aborts /\ Goto(Main, "aborted") /\ link' = "none"
         \/ ~aborts /\ UNCHANGED <<stage, link>>
  /\ UNCHANGED <<storeVars, received, viewVars, alone, manifestFaults>>

-----------------------------------------------------------------------------
(* doFlush up to its first await, with lines in the queue. *)
StartFlush(c) ==
  /\ Pending > 0
  /\ CallAppend(c, Pending)
  /\ Goto(c, "append")

(* The timer fires. *)
Pulse(t) ==
  /\ ~Ready
  /\ timer
  /\ stage[t] = "none"
  /\ timer' = FALSE
  /\ \/ StartFlush(t)
     \/ Pending = 0 /\ UNCHANGED <<chunkVars, added, stage>>
  /\ UNCHANGED <<manifestVars, mergedSoFar, readerVars, link, received, viewVars,
                 alone, manifestFaults>>

(* Variant: an empty queue is taken to mean that all is written. *)
DrainForgets ==
  /\ stage[Main] = "drain"
  /\ \/ StartFlush(Main)
     \/ Pending = 0 /\ Goto(Main, "lastPage") /\ UNCHANGED <<chunkVars, added>>
  /\ UNCHANGED <<manifestVars, mergedSoFar, readerVars, streamVars, viewVars,
                 alone, manifestFaults>>

(* The final flush, or flushRemainder at once when the queue is empty. *)
Drain ==
  /\ stage[Main] = "drain"
  /\ \/ StartFlush(Main)
     \/ /\ Pending = 0
        /\ CallFlush(Main)
        /\ Goto(Main, "remainder")
  /\ UNCHANGED <<manifestVars, mergedSoFar, readerVars, streamVars, viewVars,
                 alone, manifestFaults>>

(* appendBatch or flushRemainder returns: its parts are added to the       *)
(* manifest; a session without a remainder sends its last page.  An        *)
(* exception ends the pulse, or the session's own flush.                   *)
TakeParts(c) ==
  /\ stage[c] \in {"append", "remainder"}
  /\ Collect(c)
  /\ \/ /\ pc[c] = "failed"
        /\ EndTask(c)
     \/ /\ pc[c] = "returned"
        /\ Goto(c, CASE stage[c] = "append" -> "add"
                     [] stage[c] = "remainder" ->
                          IF results[c] = <<>> THEN "lastPage" ELSE "addLast")
        /\ UNCHANGED timer
  /\ UNCHANGED <<manifestVars, mergedSoFar, added, readerVars, link, received,
                 viewVars, alone, manifestFaults>>

(* One turn of the loop over the parts, or its end and the call of save. *)
AddParts(c) ==
  /\ stage[c] \in {"add", "addLast"}
  /\ \/ AddPart(c) /\ UNCHANGED <<saveVars, stage>>
     \/ /\ added[c] = Len(results[c])
        /\ SaveCall(c)
        /\ Goto(c, IF stage[c] = "add" THEN "save" ELSE "saveLast")
        /\ UNCHANGED <<chunks, mergedSoFar, added>>
  /\ UNCHANGED <<chunkVars, readerVars, streamVars, viewVars, alone,
                 manifestFaults>>

(* A step of save, with its I/O errors. *)
SaveStep(c) ==
  /\ ~Ready
  /\ \/ SaveSnapshot(c) /\ UNCHANGED manifestFaults
     \/ SaveRename(c) /\ UNCHANGED manifestFaults
     \/ SaveOverwrite(c) /\ UNCHANGED manifestFaults
     \/ SaveRenameFails(c) /\ ManifestFault
     \/ SaveFails(c) /\ ManifestFault
  /\ UNCHANGED <<chunkVars, mergedSoFar, added, readerVars, streamVars, stage,
                 viewVars, alone>>

(* The first flush opens the pagination service, a later one reloads it    *)
(* when it made a new part.  setManifestDir of the directory that is       *)
(* already open returns at once.  The last reload is unconditional, and    *)
(* does nothing when no open has succeeded.                                *)
AfterSave(c) ==
  /\ stage[c] \in {"save", "saveLast"}
  /\ SaveReturn(c)
  /\ \/ savePc[c] = "failed" /\ EndTask(c)
     \/ /\ savePc[c] = "saved"
        /\ Goto(c, IF stage[c] = "saveLast"
                   THEN IF reader = NoReader THEN "lastPage" ELSE "readForLast"
                   ELSE IF ~paginationOpened
                   THEN IF reader = NoReader THEN "readForDir" ELSE "dirSet"
                   ELSE IF results[c] # <<>> THEN "readForReload" ELSE "page")
        /\ UNCHANGED timer
  /\ UNCHANGED <<chunkVars, chunks, mergedSoFar, added, readerVars, link,
                 received, viewVars, alone, manifestFaults>>

(* PagedReader.open reads manifest.json.  A failure is caught: the flush   *)
(* goes on with its page, the end of the session goes to its finally.      *)
OpenRead(c) ==
  /\ ~Ready
  /\ stage[c] \in {"readForDir", "readForReload", "readForLast"}
  /\ \/ /\ (disk = Torn /\ UNCHANGED manifestFaults) \/ ManifestFault
        /\ \/ stage[c] = "readForLast" /\ EndTask(c)
           \/ stage[c] # "readForLast" /\ Goto(c, "page") /\ UNCHANGED timer
        /\ UNCHANGED readerVars
     \/ /\ ReadManifest(c)
        /\ Goto(c, CASE stage[c] = "readForDir" -> "openForDir"
                     [] stage[c] = "readForReload" -> "openForReload"
                     [] stage[c] = "readForLast" -> "openForLast")
        /\ UNCHANGED <<timer, manifestFaults>>
  /\ UNCHANGED <<chunkVars, manifestVars, mergedSoFar, added, link, received,
                 viewVars, alone>>

(* The new reader is installed. *)
OpenDone(c) ==
  /\ ~Ready
  /\ stage[c] \in {"openForDir", "openForReload", "openForLast"}
  /\ InstallReader(c)
  /\ Goto(c, CASE stage[c] = "openForDir" -> "dirSet"
               [] stage[c] = "openForReload" -> "page"
               [] stage[c] = "openForLast" -> "lastPage")
  /\ UNCHANGED <<chunkVars, manifestVars, mergedSoFar, added, streamVars,
                 viewVars, alone, manifestFaults>>

(* setManifestDir returns: the viewer is told the total and the version. *)
AfterSetDir(c) ==
  /\ stage[c] = "dirSet"
  /\ paginationOpened' = TRUE
  /\ Goto(c, "page")
  /\ UNCHANGED <<storeVars, streamVars, page, alone, manifestFaults>>

(* readRangeByIdx of the last window, clipped to what the reader has. *)
LastRows(total) ==
  IF reader = NoReader THEN {}
  ELSE LET endIdx == IF total < 1 THEN 1 ELSE total
       IN  {<<i, RowOf(reader, i)>> :
              i \in {i \in 1..MergedLinesOf(reader) :
                       endIdx - Window < i /\ i <= endIdx}}

(* The last window is being read. *)
ReadPage(c) ==
  /\ stage[c] \in {"page", "lastPage"}
  /\ page' = [page EXCEPT ![c] = LastRows(mergedSoFar)]
  /\ Goto(c, IF stage[c] = "page" THEN "deliver" ELSE "deliverLast")
  /\ UNCHANGED <<storeVars, streamVars, paginationOpened, alone, manifestFaults>>

(* The page is sent, or was not read, which is caught.  The final flush    *)
(* goes on with flushRemainder; a pulse and the session's end are over.    *)
Deliver(c) ==
  /\ ~Ready
  /\ stage[c] \in {"deliver", "deliverLast"}
  /\ page' = [page EXCEPT ![c] = {}]
  /\ \/ /\ c = Main /\ stage[c] = "deliver"
        /\ CallFlush(c)
        /\ Goto(c, "remainder")
        /\ UNCHANGED timer
     \/ /\ c # Main \/ stage[c] = "deliverLast"
        /\ EndTask(c)
        /\ UNCHANGED <<chunkVars, added>>
  /\ UNCHANGED <<manifestVars, mergedSoFar, readerVars, link, received,
                 paginationOpened, alone, manifestFaults>>

(* The chunk writer's own steps, and appendBatch going on in its loop. *)
WriterStep ==
  /\ \/ FlushStart
     \/ \E c \in Callers : ResumeBatch(c)
     \/ ~Ready /\ FlushIO
  /\ faults' + manifestFaults <= MaxFaults
  /\ UNCHANGED <<manifestVars, mergedSoFar, added, readerVars, rtVars>>

Over == stage[Main] \in {"done", "failed", "aborted"} /\ ~timer
        /\ \A t \in Pulses : stage[t] = "none"

Step ==
  \/ StreamLine \/ StreamEnds \/ StreamFails \/ StopAll
  \/ Connect \/ Prepare \/ StreamOpens \/ Drain \/ WriterStep
  \/ \E t \in Pulses : Pulse(t)
  \/ \E c \in Callers : \/ TakeParts(c) \/ SaveStep(c) \/ AfterSave(c)
                        \/ OpenRead(c) \/ OpenDone(c) \/ AfterSetDir(c)
                        \/ ReadPage(c) \/ Deliver(c)
  \/ Over /\ UNCHANGED vars

(* The loop over the parts has no await in it: the model takes one step    *)
(* per turn, and nothing else meanwhile.                                   *)
NoneAdding == \A c \in Callers : stage[c] \notin {"add", "addLast"}

Next ==
  \/ \E c \in Callers : AddParts(c)
  \/ NoneAdding /\ Step

Spec == Init /\ [][Next]_vars

-----------------------------------------------------------------------------
RealtimeStages == {"connect", "prepare", "opening", "stream", "drain", "none",
                   "append", "add", "save", "readForDir", "openForDir", "dirSet",
                   "readForReload", "openForReload", "page", "deliver",
                   "remainder", "addLast", "saveLast", "readForLast",
                   "openForLast", "lastPage", "deliverLast",
                   "done", "failed", "aborted"}

(* Type invariant of the session's own state. *)
RealtimeTypeOK ==
  /\ link \in {"ADB", "SSH", "none"}
  /\ received \in 0..NumLines
  /\ timer \in BOOLEAN
  /\ paginationOpened \in BOOLEAN
  /\ stage \in [Callers -> RealtimeStages]
  /\ page \in [Callers -> SUBSET (Nat \X Line)]
  /\ alone \in BOOLEAN
  /\ manifestFaults \in Nat

NoFaults == faults = 0 /\ manifestFaults = 0

(* The rows that are being sent are those of the log at their indexes. *)
PagesTrue ==
  \A c \in Callers : \A r \in page[c] :
    r[1] \in 1..MergedLines /\ RowOf(chunks, r[1]) = r[2]

(* In whatever order overlapping pulses add their parts, the line at an    *)
(* index of the log stays there, and the rows that a pulse or the session  *)
(* sends are those that the log has at these indexes: the viewer addresses *)
(* lines by index.                                                         *)
RowsStable ==
  [][/\ \A i \in 1..MergedLines :
          i <= MergedLines' /\ RowOf(chunks, i)' = RowOf(chunks, i)
     /\ PagesTrue']_vars

(* When the session is over the timer is off and the queue empty, so that  *)
(* no flush begins in a directory the session has left; and if no pulse    *)
(* was running when the stream ended, every one of its lines is on disk    *)
(* and in the manifest.                                                    *)
EndWritesAll ==
  stage[Main] = "done" =>
    /\ ~timer /\ Pending = 0
    /\ alone /\ NoFaults =>
         /\ MergedLines = received
         /\ {RowOf(chunks, i) : i \in 1..MergedLines} = 1..received

(* A line in the queue is never stranded: the timer is armed, or the end   *)
(* of the stream is still to come and will flush it, unless the session    *)
(* was disposed of and its adb stream failed by it.                        *)
NoLineStranded ==
  Pending > 0 => \/ timer
                 \/ stage[Main] \in {"stream", "drain", "aborted"}

=============================================================================
