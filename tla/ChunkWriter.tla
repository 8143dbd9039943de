----------------------------- MODULE ChunkWriter -----------------------------
(***************************************************************************)
(* The chunk writer of src/core/logs/ChunkWriter.ts: log lines are pushed  *)
(* into currentBuffer, and every time the buffer reaches chunkMaxLines it  *)
(* is written to the next part file of the output directory.  Several      *)
(* calls of appendBatch and flushRemainder may be in flight at once: they  *)
(* share the buffer and interleave at every await, while the flushes       *)
(* themselves are serialised on a promise chain.                           *)
(*                                                                         *)
(* One step of the model is one stretch of the code between two awaits.    *)
(* A continuation whose promise is settled runs before the next I/O event  *)
(* of the event loop; continuations that are ready together run in any     *)
(* order.  A log line is its position 1, 2, 3... in the stream handed to   *)
(* the writer, so that a batch is an interval of numbers.                  *)
(***************************************************************************)
EXTENDS Integers, Sequences

CONSTANTS
  Callers,        \* the concurrent callers of appendBatch / flushRemainder
  NumLines,       \* bound on the lines handed to appendBatch
  MaxBatch,       \* bound on the lines of one batch
  ChunkMaxLines,  \* chunkMaxLines, the length at which the buffer is flushed
  StartIndex,     \* startIndex, the number of chunks of a loaded manifest
  OldParts,       \* numbers of the part files already in outDir
  OldLines,       \* OldLines[n]: how many lines part n of these has
  MaxAttempts,    \* MAX_ATTEMPTS, the bound on the retries of a rename
  MaxFaults       \* bound on the file-system errors of a behaviour

ASSUME ChunkWriterAssumption ==
  /\ NumLines \in Nat
  /\ MaxBatch \in Nat
  /\ ChunkMaxLines \in Nat \ {0}
  /\ StartIndex \in Nat
  /\ OldParts \subseteq Nat \ {0}
  /\ OldLines \in [OldParts -> Nat]
  /\ MaxAttempts \in Nat \ {0}
  /\ MaxFaults \in Nat

VARIABLES
  currentIndex,        \* the last part number used
  currentBuffer,       \* the lines not yet taken by a flush
  writtenThisChunk,    \* lines pushed since the buffer was last emptied
  fsIndexInitialized,  \* has readdir been consulted
  chain,               \* _serial: callers whose flush is queued, head first
  run,                 \* the flush that is executing
  pc,                  \* pc[c]: where caller c is in its call
  pos, end,            \* pos[c]..end[c]: the lines c has still to push
  results,             \* results[c]: the parts c's call has been given
  parts,               \* the part files of outDir, by number
  emitted,             \* how many lines have been handed to appendBatch
  lost,                \* lines dropped by a failed flush (history variable)
  faults,              \* file-system errors so far
  blind                \* has readdir failed (history variable)

writerVars == <<currentIndex, currentBuffer, writtenThisChunk,
                fsIndexInitialized, chain, run>>
callVars   == <<pc, pos, end, results>>
diskVars   == <<parts, emitted, lost, faults, blind>>
chunkVars  == <<writerVars, callVars, diskVars>>

-----------------------------------------------------------------------------
(* The parts that earlier sessions left in outDir; their lines are not     *)
(* told apart.                                                             *)
OldLine == 0
OldPart(n) == [i \in 1..OldLines[n] |-> OldLine]

Line == 0..NumLines
Part == [file : Nat, lines : Nat]

(* What flushChunk returns when there was nothing to flush: { file: '', lines: 0 }. *)
EmptyPart == [file |-> 0, lines |-> 0]

IdleRun == [stage |-> "idle", buf |-> <<>>, attempt |-> 0]

(* The lines a..b of the stream, in order. *)
Interval(a, b) == [i \in 1..(b - a + 1) |-> a + i - 1]

Elements(s) == {s[i] : i \in DOMAIN s}

ChunkInit ==
  /\ currentIndex = StartIndex
  /\ currentBuffer = <<>>
  /\ writtenThisChunk = 0
  /\ fsIndexInitialized = FALSE
  /\ chain = <<>>
  /\ run = IdleRun
  /\ pc = [c \in Callers |-> "idle"]
  /\ pos = [c \in Callers |-> 1]
  /\ end = [c \in Callers |-> 0]
  /\ results = [c \in Callers |-> <<>>]
  /\ parts = [n \in OldParts |-> OldPart(n)]
  /\ emitted = 0
  /\ lost = {}
  /\ faults = 0
  /\ blind = FALSE

-----------------------------------------------------------------------------
(* Variant: the threshold test is for equality, and a chunk that others    *)
(* have filled is never flushed.                                           *)
RoomEqual == IF writtenThisChunk < ChunkMaxLines
             THEN ChunkMaxLines - writtenThisChunk
             ELSE MaxBatch + 1

(* How many pushes it takes until writtenThisChunk >= chunkMaxLines: one,  *)
(* when other callers have already filled the chunk and it is waiting.     *)
Room == IF writtenThisChunk < ChunkMaxLines
        THEN ChunkMaxLines - writtenThisChunk
        ELSE 1

(* The loop of appendBatch up to its next await: lines first..last are     *)
(* pushed until the chunk is full and a flush is queued, or until none is  *)
(* left and the call returns.                                              *)
PushLines(c, first, last) ==
  LET todo == last - first + 1
      n    == IF todo < Room THEN todo ELSE Room
  IN  /\ currentBuffer' = currentBuffer \o Interval(first, first + n - 1)
      /\ writtenThisChunk' = writtenThisChunk + n
      /\ pos' = [pos EXCEPT ![c] = first + n]
      /\ end' = [end EXCEPT ![c] = last]
      /\ IF todo < Room
         THEN /\ pc' = [pc EXCEPT ![c] = "returned"]
              /\ chain' = chain
         ELSE /\ pc' = [pc EXCEPT ![c] = "flushing"]
              /\ chain' = Append(chain, c)

(* appendBatch is called with the next n lines of the stream. *)
AppendBatch(c, n) ==
  /\ pc[c] = "idle"
  /\ PushLines(c, emitted + 1, emitted + n)
  /\ emitted' = emitted + n
  /\ results' = [results EXCEPT ![c] = <<>>]
  /\ UNCHANGED <<currentIndex, fsIndexInitialized, run, parts, lost,
                 faults, blind>>

(* The flush that appendBatch awaited is done: the loop goes on. *)
ResumeBatch(c) ==
  /\ pc[c] = "resume"
  /\ PushLines(c, pos[c], end[c])
  /\ UNCHANGED <<currentIndex, fsIndexInitialized, run, results, diskVars>>

(* flushRemainder returns at once when the buffer is empty. *)
FlushRemainder(c) ==
  /\ pc[c] = "idle"
  /\ results' = [results EXCEPT ![c] = <<>>]
  /\ \/ /\ currentBuffer = <<>>
        /\ pc' = [pc EXCEPT ![c] = "returned"]
        /\ chain' = chain
     \/ /\ currentBuffer # <<>>
        /\ pc' = [pc EXCEPT ![c] = "remainder"]
        /\ chain' = Append(chain, c)
  /\ UNCHANGED <<currentIndex, currentBuffer, writtenThisChunk,
                 fsIndexInitialized, run, pos, end, diskVars>>

(* The caller takes the outcome of its call, a value or an exception. *)
Collect(c) ==
  /\ pc[c] \in {"returned", "failed"}
  /\ pc' = [pc EXCEPT ![c] = "idle"]
  /\ UNCHANGED <<writerVars, pos, end, results, diskVars>>

-----------------------------------------------------------------------------
(* flushChunk's promise is resolved with part p; the next flush of the     *)
(* chain may start and the caller may resume, in either order.             *)
Resolve(p) ==
  LET c == Head(chain) IN
  /\ chain' = Tail(chain)
  /\ run' = IdleRun
  /\ \/ /\ pc[c] = "flushing"
        /\ pc' = [pc EXCEPT ![c] = "resume"]
        /\ results' = [results EXCEPT ![c] = IF p.lines > 0 THEN Append(@, p) ELSE @]
     \/ /\ pc[c] = "remainder"
        /\ pc' = [pc EXCEPT ![c] = "returned"]
        /\ results' = [results EXCEPT ![c] = Append(@, p)]
  /\ UNCHANGED <<pos, end>>

(* flushChunk's promise is rejected.  The lines of the snapshot are gone,  *)
(* and so are those the caller had still to push, for the exception leaves *)
(* its loop; the chain swallows the error and goes on.                     *)
Reject ==
  LET c == Head(chain) IN
  /\ chain' = Tail(chain)
  /\ run' = IdleRun
  /\ pc' = [pc EXCEPT ![c] = "failed"]
  /\ pos' = [pos EXCEPT ![c] = end[c] + 1]
  /\ lost' = lost \cup Elements(run.buf) \cup pos[c]..end[c]
  /\ UNCHANGED <<currentBuffer, writtenThisChunk, fsIndexInitialized,
                 currentIndex, end, results, parts, emitted, blind>>

(* Variant: the buffer is not emptied with the snapshot. *)
SnapshotKeepsBuffer ==
  /\ UNCHANGED currentBuffer
  /\ writtenThisChunk' = 0
  /\ \/ /\ currentBuffer = <<>>
        /\ Resolve(EmptyPart)
     \/ /\ currentBuffer # <<>>
        /\ run' = [stage |-> "write", buf |-> currentBuffer, attempt |-> 0]
        /\ UNCHANGED <<chain, callVars>>
  /\ UNCHANGED <<parts, emitted, lost>>

(* The buffer is snapshot and emptied without an await in between. *)
Snapshot ==
  /\ currentBuffer' = <<>>
  /\ writtenThisChunk' = 0
  /\ \/ /\ currentBuffer = <<>>
        /\ Resolve(EmptyPart)
     \/ /\ currentBuffer # <<>>
        /\ run' = [stage |-> "write", buf |-> currentBuffer, attempt |-> 0]
        /\ UNCHANGED <<chain, callVars>>
  /\ UNCHANGED <<parts, emitted, lost>>

(* A promise is settled and its continuation has not run yet: a flush can  *)
(* start, or a call can go on or return.                                   *)
WriterReady ==
  \/ run.stage = "idle" /\ chain # <<>>
  \/ \E c \in Callers : pc[c] \in {"resume", "returned", "failed"}

(* The next queued flush starts; the first one ever awaits readdir. *)
FlushStart ==
  /\ run.stage = "idle"
  /\ chain # <<>>
  /\ \/ /\ ~fsIndexInitialized
        /\ run' = [run EXCEPT !.stage = "readdir"]
        /\ UNCHANGED <<currentIndex, currentBuffer, writtenThisChunk,
                       fsIndexInitialized, chain, callVars, diskVars>>
     \/ /\ fsIndexInitialized
        /\ Snapshot
        /\ UNCHANGED <<currentIndex, fsIndexInitialized, faults, blind>>

(* Variant: the largest number found is not kept. *)
FlushReadDirForgets ==
  /\ run.stage = "readdir"
  /\ fsIndexInitialized' = TRUE
  /\ Snapshot
  /\ UNCHANGED <<currentIndex, faults, blind>>

(* The index is raised to the largest part number in the directory. *)
FlushReadDir ==
  /\ run.stage = "readdir"
  /\ \E m \in DOMAIN parts \cup {currentIndex} :
       /\ \A n \in DOMAIN parts \cup {currentIndex} : n <= m
       /\ currentIndex' = m
  /\ fsIndexInitialized' = TRUE
  /\ Snapshot
  /\ UNCHANGED <<faults, blind>>

(* The file system may fail once more. *)
Fault == faults < MaxFaults /\ faults' = faults + 1

(* readdir fails: the error is caught, the index keeps its value, and the  *)
(* directory is not read again.                                            *)
FlushReadDirFails ==
  /\ run.stage = "readdir"
  /\ Fault
  /\ blind' = TRUE
  /\ fsIndexInitialized' = TRUE
  /\ Snapshot
  /\ UNCHANGED currentIndex

(* Variant: the buffer is emptied once the temporary file is written, and  *)
(* so after an await.                                                      *)
FlushWriteTmpResets ==
  /\ run.stage = "write"
  /\ run' = [run EXCEPT !.stage = "rename"]
  /\ currentBuffer' = <<>>
  /\ writtenThisChunk' = 0
  /\ UNCHANGED <<currentIndex, fsIndexInitialized, chain, callVars, diskVars>>

(* mkdir and the temporary file succeed. *)
FlushWriteTmp ==
  /\ run.stage = "write"
  /\ run' = [run EXCEPT !.stage = "rename"]
  /\ UNCHANGED <<currentIndex, currentBuffer, writtenThisChunk,
                 fsIndexInitialized, chain, callVars, diskVars>>

(* Variant: the index is not advanced after the rename. *)
FlushRenameNoAdvance ==
  /\ run.stage = "rename"
  /\ run.attempt < MaxAttempts
  /\ LET n == currentIndex + 1 IN
       /\ parts' = [m \in DOMAIN parts \cup {n} |->
                      IF m = n THEN run.buf ELSE parts[m]]
       /\ Resolve([file |-> n, lines |-> Len(run.buf)])
  /\ UNCHANGED <<currentIndex, currentBuffer, writtenThisChunk, fsIndexInitialized,
                 emitted, lost, faults, blind>>

(* The rename succeeds.  An existing file of that name is replaced, as     *)
(* rename does on every platform.                                          *)
FlushRename ==
  /\ run.stage = "rename"
  /\ run.attempt < MaxAttempts
  /\ LET n == currentIndex + 1 IN
       /\ parts' = [m \in DOMAIN parts \cup {n} |->
                      IF m = n THEN run.buf ELSE parts[m]]
       /\ currentIndex' = n
       /\ Resolve([file |-> n, lines |-> Len(run.buf)])
  /\ UNCHANGED <<currentBuffer, writtenThisChunk, fsIndexInitialized,
                 emitted, lost, faults, blind>>

(* EEXIST, EPERM or EBUSY: the next number is tried. *)
FlushRenameBusy ==
  /\ run.stage = "rename"
  /\ run.attempt < MaxAttempts
  /\ Fault
  /\ run' = [run EXCEPT !.attempt = @ + 1]
  /\ currentIndex' = currentIndex + 1
  /\ UNCHANGED <<currentBuffer, writtenThisChunk, fsIndexInitialized,
                 chain, callVars, parts, emitted, lost, blind>>

(* ENOENT: the directory and the temporary file are restored, and the same *)
(* number is tried again.                                                  *)
FlushRenameNoEnt ==
  /\ run.stage = "rename"
  /\ run.attempt < MaxAttempts
  /\ Fault
  /\ run' = [run EXCEPT !.attempt = @ + 1]
  /\ UNCHANGED <<currentIndex, currentBuffer, writtenThisChunk,
                 fsIndexInitialized, chain, callVars, parts, emitted, lost, blind>>

(* mkdir, writeFile or rename fails otherwise, or the attempts run out. *)
FlushFail ==
  /\ \/ run.stage \in {"write", "rename"} /\ Fault
     \/ run.stage = "rename" /\ run.attempt = MaxAttempts /\ faults' = faults
  /\ Reject

FlushIO ==
  /\ ~WriterReady
  /\ \/ FlushReadDir \/ FlushReadDirFails \/ FlushWriteTmp \/ FlushRename
     \/ FlushRenameBusy \/ FlushRenameNoEnt \/ FlushFail

ChunkNext ==
  \/ \E c \in Callers :
       \/ \E n \in 1..MaxBatch : emitted + n <= NumLines /\ AppendBatch(c, n)
       \/ ResumeBatch(c)
       \/ FlushRemainder(c)
       \/ Collect(c)
  \/ FlushStart
  \/ FlushIO

ChunkSpec == ChunkInit /\ [][ChunkNext]_chunkVars

-----------------------------------------------------------------------------
Stages == {"idle", "readdir", "write", "rename"}
CallStates == {"idle", "flushing", "resume", "remainder", "returned", "failed"}

(* Type invariant of the writer's fields, of the calls and of outDir. *)
ChunkTypeOK ==
  /\ currentIndex \in Nat
  /\ currentBuffer \in Seq(Line)
  /\ writtenThisChunk \in Nat
  /\ fsIndexInitialized \in BOOLEAN
  /\ chain \in Seq(Callers)
  /\ run \in [stage : Stages, buf : Seq(Line), attempt : Nat]
  /\ pc \in [Callers -> CallStates]
  /\ pos \in [Callers -> Nat]
  /\ end \in [Callers -> Nat]
  /\ results \in [Callers -> Seq(Part)]
  /\ DOMAIN parts \subseteq Nat \ {0}
  /\ \A n \in DOMAIN parts : parts[n] \in Seq(Line)
  /\ emitted \in 0..NumLines
  /\ lost \subseteq Line
  /\ faults \in Nat
  /\ blind \in BOOLEAN

(* The lines caller c has been given and has not pushed yet. *)
Unpushed(c) == pos[c]..end[c]

(* No line is stored twice, whatever the interleaving of the callers: a    *)
(* line of the stream is in at most one part file and at one place of it,  *)
(* and what is on disk is no longer in the buffer or in a running flush.   *)
LineStoredOnce ==
  /\ \A m, n \in DOMAIN parts : \A i \in DOMAIN parts[m], j \in DOMAIN parts[n] :
       parts[m][i] = parts[n][j] /\ parts[m][i] # OldLine => m = n /\ i = j
  /\ \A n \in DOMAIN parts :
       /\ \A i \in DOMAIN parts[n], j \in DOMAIN currentBuffer :
            parts[n][i] # currentBuffer[j]
       /\ \A i \in DOMAIN parts[n], j \in DOMAIN run.buf : parts[n][i] # run.buf[j]

(* Every line handed to appendBatch is still to be pushed by its caller,   *)
(* buffered, being flushed or on disk, unless the flush that carried it    *)
(* was rejected.                                                           *)
NoLineVanishes ==
  \A e \in 1..emitted :
    \/ \E c \in Callers : e \in Unpushed(c)
    \/ e \in Elements(currentBuffer)
    \/ e \in Elements(run.buf)
    \/ \E n \in DOMAIN parts : e \in Elements(parts[n])
    \/ e \in lost

(* A part that a call has been told of exists and has that many lines, so  *)
(* a manifest that lists it never points to a missing file.                *)
ReportedPartsExist ==
  \A c \in Callers : \A i \in DOMAIN results[c] :
    LET p == results[c][i] IN
    p.lines > 0 => p.file \in DOMAIN parts /\ p.lines = Len(parts[p.file])

(* Flushes queued on _serial that have not taken their snapshot yet. *)
PendingFlushes == Len(chain) - (IF run.stage \in {"write", "rename"} THEN 1 ELSE 0)

(* A full chunk is never left in memory without a flush that will take it: *)
(* the threshold test of appendBatch cannot miss.                          *)
FullChunkHasFlush == writtenThisChunk >= ChunkMaxLines => PendingFlushes > 0

(* Callers that find the chunk full and waiting each add one line to it:   *)
(* the buffer exceeds chunkMaxLines - 1 by at most one line per flush      *)
(* that is waiting to take it.                                             *)
OvershootBounded == Len(currentBuffer) <= ChunkMaxLines - 1 + PendingFlushes

(* Part n is still the one that an earlier session left. *)
IsOld(n) == n \in OldParts /\ parts[n] = OldPart(n)

(* A part file that was renamed into place is never replaced or removed by *)
(* a later flush: neither one of this writer's, nor, unless readdir failed,*)
(* one that an earlier session left in the directory.                      *)
PartsImmutable ==
  [][\A n \in DOMAIN parts :
       /\ n \in DOMAIN parts'
       /\ parts'[n] = parts[n] \/ (blind /\ IsOld(n))]_chunkVars

=============================================================================
