------------------------------- MODULE LogMerge -------------------------------
(***************************************************************************)
(* mergeDirectory and warmupTailPrepass, src/core/logs/                    *)
(* LogFileIntegration.ts, and the calls that startFileMergeSession of      *)
(* src/core/sessions/LogSessionManager.ts makes of them: the newest lines  *)
(* of each type are read into memory (T0), then, if the directory does not *)
(* fit there, each type is corrected, sorted and stored, and the types are *)
(* merged newest first (T1).                                               *)
(***************************************************************************)
EXTENDS LogText

CONSTANTS
  FileNames,     \* the files of the directory, [type, rot]; rot -1: no suffix
  Unlisted,      \* those that are no log files, or not on the white list
  RuleFiles,     \* those that some rule of the parser is for
  Texts,         \* Texts[f]: what may be in file f
  Options,       \* memory_mode_threshold, warmupPerTypeLimit, and who calls:
                 \* mode is "session", "warmup", "plain" or "reverse"
  Breakable,     \* files that may not open
  BatchSize,     \* batchSize
  Refill,        \* what is read of a stored type at a time, 100
  WarmChunk,     \* CHUNK of the prepass, 64
  MaxFaults      \* bound on read errors

Types == {f.type : f \in FileNames}

ASSUME MergeAssumption ==
  /\ Types \subseteq Nat
  /\ Unlisted \subseteq FileNames /\ RuleFiles \subseteq FileNames
  /\ BatchSize \in Nat \ {0} /\ Refill \in Nat \ {0} /\ WarmChunk \in Nat \ {0}
  /\ \A o \in Options : o.threshold \in Nat \ {0} /\ o.cap \in Nat \ {0}
  /\ MaxFaults \in Nat

VARIABLES
  dir,       \* dir[f]: what reading f gives
  broken,    \* the files that cannot be opened
  opt,       \* the options of this call
  order,     \* the types in the order of readdir, hence of groupByType
  aborted,   \* signal.aborted
  pc,
  estimate,  \* preEstimate, -1 when the count failed
  walk,      \* walk[k]: where the tail walker of type k is, and its buffer
  job,       \* the batchRead under way: the type, and the lines still wanted
  queue,     \* types to come: of the even share, or of the sorting
  turn,      \* i of the redistribution
  warm,      \* what the prepass returned
  picking,   \* is the prepass in its k-way merge
  sorted,    \* sorted[k]: the corrected lines of type k, newest first
  cursor,    \* cursor[k]: how much of type k, or of file k, is in the heap
  heap, out,
  sent,      \* the batches given to onBatch
  seeded,    \* the warm buffer of the pagination service
  final,     \* the argument of onFinalize
  faults

inputs == <<dir, broken, opt, order>>
warmVars == <<walk, job, turn, warm, picking>>
mergeVars == <<sorted, cursor, heap, out>>
results == <<sent, seeded, final>>
vars == <<inputs, seriesVars, aborted, pc, estimate, warmVars, queue, mergeVars,
          results, faults>>

-----------------------------------------------------------------------------
(* walk and listInputLogFiles; groupByType with compareLogOrderDesc. *)
Listed == FileNames \ Unlisted

ListedTypes == {f.type : f \in Listed}

FilesOf(k) ==
  SetToSortSeq({f \in Listed : f.type = k}, LAMBDA a, b : a.rot < b.rot)

(* What reading a text gives: its lines newest first, whether the parser   *)
(* is used, and the entries of a backward and of a forward reading.        *)
Reading(f, text) ==
  LET use == f \in RuleFiles /\ ShouldUseParser(text)
      lines == ReverseLines(text)
  IN  [lines |-> lines, use |-> use, count |-> CountLines(text),
       backward |-> EntriesOf(lines, use),
       forward |-> EntriesOf(ForwardLines(text), use)]

Readings(f) == {Reading(f, text) : text \in Texts[f]}

(* T1 reads each file of a type from its end to its start; rank and rev    *)
(* tell its lines apart.                                                   *)
LinesOfType(k) ==
  LET files == FilesOf(k)
      lines(i) ==
        LET es == dir[files[i]].backward
        IN  [j \in 1..Len(es) |->
               [ts |-> es[j].ts, yearless |-> es[j].yearless, type |-> k,
                rot |-> files[i].rot, rank |-> i, rev |-> es[j].rev]]
  IN  FlattenSeq([i \in 1..Len(files) |-> lines(i)])

(* The lines of the files that open, one file after the other. *)
WalkFiles(files) ==
  LET lines(f) ==
        LET ls == IF f \in broken THEN <<>> ELSE dir[f].lines
        IN  [j \in 1..Len(ls) |-> [line |-> ls[j], use |-> dir[f].use,
                                   rot |-> f.rot, rev |-> j]]
  IN  FlattenSeq([i \in 1..Len(files) |-> lines(files[i])])

(* What the tail walker of a type meets. *)
WalkedLines(k) == WalkFiles(FilesOf(k))

Lesser(a, b) == IF a < b THEN a ELSE b

-----------------------------------------------------------------------------
NoWalk == [k \in Types |-> [pos |-> 0, exhausted |-> FALSE, prev |-> NoTs,
                            buf |-> <<>>]]
NoWarm == [logs |-> <<>>, covered |-> FALSE]

Init ==
  /\ dir \in {d \in [FileNames -> UNION {Readings(f) : f \in FileNames}] :
                \A f \in FileNames : d[f] \in Readings(f)}
  /\ broken \in {{}} \cup {{f} : f \in Breakable}
  /\ opt \in Options
  /\ order \in {s \in [1..Cardinality(ListedTypes) -> ListedTypes] :
                  ToSet(s) = ListedTypes}
  /\ SeriesInit
  /\ aborted = FALSE
  /\ pc = IF opt.mode = "session" THEN "T0" ELSE "count"
  /\ estimate = -1
  /\ walk = NoWalk /\ job = [type |-> 0, need |-> 0] /\ turn = 0
  /\ queue = <<>> /\ warm = NoWarm /\ picking = FALSE
  /\ sorted = [k \in Types |-> <<>>] /\ cursor = <<>> /\ heap = <<>>
  /\ out = <<>> /\ sent = <<>> /\ seeded = <<>> /\ final = <<>>
  /\ faults = 0

(* The user closes the session.  The corrections of a type and the merge   *)
(* of the prepass have no await in them, so nothing comes between two of   *)
(* their steps.                                                            *)
Abort ==
  /\ ~aborted /\ pc \notin {"over", "failed"} /\ SeriesOver /\ ~picking
  /\ aborted' = TRUE
  /\ UNCHANGED <<inputs, seriesVars, pc, estimate, warmVars, queue, mergeVars,
                 results, faults>>

-----------------------------------------------------------------------------
(* warmupTailPrepass.  Its target is shared out evenly, the remainder to   *)
(* the first types, each share at most the cap.                            *)
Target == opt.threshold

Share(i) ==
  LET n == Len(order)
  IN  Lesser(opt.cap, Target \div n + IF i <= Target % n THEN 1 ELSE 0)

Collected == FoldLeft(LAMBDA n, k : n + Len(walk[k].buf), 0, order)

(* Variant: there is room only up to the even share. *)
SlotsEven ==
  SelectSeq(order, LAMBDA k : /\ ~walk[k].exhausted
                              /\ Len(walk[k].buf) < Target \div Len(order))

(* Variant: a type that is exhausted stays in the round. *)
SlotsExhausted ==
  SelectSeq(order, LAMBDA k : Len(walk[k].buf) < opt.cap)

(* The types that still have lines, and room for them. *)
Slots ==
  SelectSeq(order, LAMBDA k : /\ ~walk[k].exhausted
                              /\ Len(walk[k].buf) < opt.cap)

InPrepass == pc \in {"T0warm", "warm"}

(* The prepass returns to the session, or to mergeDirectory. *)
Return(logs, covered) ==
  /\ warm' = [logs |-> logs, covered |-> covered]
  /\ IF pc = "T0warm"
     THEN /\ pc' = "count" /\ seeded' = logs /\ sent' = sent
     ELSE /\ pc' = "decide"
          /\ seeded' = IF seeded = <<>> THEN logs ELSE seeded
          /\ sent' = IF opt.mode = "warmup" /\ logs # <<>>
                     THEN Append(sent, SubSeq(logs, 1, Lesser(BatchSize, Len(logs))))
                     ELSE sent

StartPrepass(p) ==
  /\ pc' = p
  /\ walk' = NoWalk /\ turn' = 0
  /\ queue' = order
  /\ job' = [type |-> 0, need |-> 0]
  /\ sorted' = [k \in Types |-> <<>>]

T0 ==
  /\ pc = "T0"
  /\ \/ /\ aborted \/ order = <<>>
        /\ pc' = "count" /\ warm' = [logs |-> <<>>, covered |-> ~aborted]
        /\ UNCHANGED <<walk, job, turn, queue, sorted>>
     \/ /\ ~(aborted \/ order = <<>>)
        /\ StartPrepass("T0warm")
        /\ warm' = warm
  /\ UNCHANGED <<inputs, picking, seriesVars, aborted, estimate, cursor, heap, out,
                 results, faults>>

InRead ==
  InPrepass /\ job.need > 0 /\ ~walk[job.type].exhausted /\ ~aborted

(* A chunk of lines becomes entries; only those kept are counted. *)
Take(w, lines) ==
  FoldLeft(
    LAMBDA acc, l :
      LET e == LineToEntry(l.line, l.use, acc.prev)
      IN  IF l.use /\ HeaderMissing(l.line) THEN acc
          ELSE [acc EXCEPT !.prev = e.ts,
                           !.buf = Append(@, [ts |-> e.ts,
                             yearless |-> e.yearless, type |-> job.type,
                             rot |-> l.rot, rev |-> l.rev])],
    w, lines)

(* One turn of batchRead.  The walker is exhausted when it has fewer lines *)
(* than asked for.                                                         *)
WarmRead ==
  /\ InRead
  /\ LET k == job.type
         all == WalkedLines(k)
         end == Lesser(walk[k].pos + Lesser(WarmChunk, job.need), Len(all))
         new == Take(walk[k], SubSeq(all, walk[k].pos + 1, end))
     IN  /\ walk' = [walk EXCEPT ![k] = [new EXCEPT
                !.pos = end,
                !.exhausted = end < walk[k].pos + Lesser(WarmChunk, job.need)]]
         /\ job' = [job EXCEPT !.need = @ - (Len(new.buf) - Len(walk[k].buf))]
  /\ UNCHANGED <<inputs, picking, seriesVars, aborted, pc, estimate, turn, warm, queue,
                 mergeVars, results, faults>>

(* A read error: the prepass throws, the session goes on to T1, and        *)
(* mergeDirectory to its decision.                                         *)
WarmFails ==
  /\ InRead /\ faults < MaxFaults
  /\ faults' = faults + 1
  /\ warm' = NoWarm
  /\ pc' = IF pc = "T0warm" THEN "count" ELSE "decide"
  /\ UNCHANGED <<inputs, picking, seriesVars, aborted, estimate, walk, job, turn, queue,
                 mergeVars, results>>

(* The index of the round is only used modulo a number of slots. *)
RoundLength == FoldLeft(LAMBDA n, i : n * i, 1, [i \in 1..Len(order) |-> i])

(* batchRead returns: the next even share or, when those are done, a turn  *)
(* of the redistribution.                                                  *)
NextRead ==
  \/ /\ queue # <<>>
     /\ job' = [type |-> Head(queue), need |-> Share(Len(order) - Len(queue) + 1)]
     /\ queue' = Tail(queue) /\ turn' = turn
  \/ /\ queue = <<>> /\ Collected < Target /\ Slots # <<>> /\ ~aborted
     /\ LET k == Slots[(turn % Len(Slots)) + 1]
        IN  job' = [type |-> k,
                    need |-> Lesser(Lesser(WarmChunk, opt.cap - Len(walk[k].buf)),
                                    Target - Collected)]
     /\ turn' = (turn + 1) % RoundLength /\ queue' = queue

WarmTurn ==
  /\ InPrepass /\ ~InRead
  /\ NextRead
  /\ UNCHANGED <<inputs, picking, seriesVars, aborted, pc, estimate, walk, warm,
                 mergeVars, results, faults>>

(* Everything wanted has been collected.  The types are corrected and      *)
(* sorted, then merged.                                                    *)
WarmCollected ==
  InPrepass /\ ~InRead /\ queue = <<>>
  /\ (Collected >= Target \/ Slots = <<>> \/ aborted)

Unsorted == {k \in ListedTypes : walk[k].buf # <<>> /\ sorted[k] = <<>>}

(* logs.sort, once each line has its corrected time. *)
Corrected(entries) ==
  SortDesc([i \in 1..Len(entries) |-> [entries[i] EXCEPT !.ts = series[i]]])

WarmSort ==
  /\ WarmCollected /\ Unsorted # {} /\ raw = <<>>
  /\ StartSeries(walk[CHOOSE k \in Unsorted : TRUE].buf)
  /\ UNCHANGED <<inputs, aborted, pc, estimate, warmVars, queue, mergeVars,
                 results, faults>>

WarmSorted ==
  /\ WarmCollected /\ raw # <<>> /\ SeriesOver
  /\ sorted' = [sorted EXCEPT ![raw[1].type] = Corrected(raw)]
  /\ StartSeries(<<>>)
  /\ UNCHANGED <<inputs, aborted, pc, estimate, warmVars, queue, cursor, heap,
                 out, results, faults>>

(* The item of line i of a type; ties go to the later type. *)
WarmItem(k, i) ==
  [key |-> <<-sorted[k][i].ts, -k, i>>, type |-> k, idx |-> i]

WarmHeap ==
  /\ WarmCollected /\ raw = <<>> /\ Unsorted = {} /\ ~picking
  /\ LET some == SelectSeq(order, LAMBDA k : sorted[k] # <<>>)
     IN  heap' = HeapPushAll(<<>>,
                   [i \in 1..Len(some) |-> WarmItem(some[i], 1)])
  /\ picking' = TRUE
  /\ UNCHANGED <<inputs, seriesVars, aborted, pc, estimate, walk, job, turn, warm,
                 queue, sorted, cursor, out, results, faults>>

(* The k-way merge of the prepass takes the newest line. *)
WarmPick ==
  /\ picking /\ heap # <<>> /\ Len(out) < Target /\ ~aborted
  /\ LET top == heap[1]
         rest == HeapPop(heap)
     IN  /\ out' = Append(out, sorted[top.type][top.idx])
         /\ heap' = IF top.idx < Len(sorted[top.type])
                    THEN HeapPush(rest, WarmItem(top.type, top.idx + 1))
                    ELSE rest
  /\ UNCHANGED <<inputs, seriesVars, aborted, pc, estimate, warmVars, queue,
                 sorted, cursor, results, faults>>

WarmDone ==
  /\ picking /\ (heap = <<>> \/ Len(out) >= Target \/ aborted)
  /\ Return(out, \A k \in ListedTypes : walk[k].exhausted)
  /\ sorted' = [k \in Types |-> <<>>]
  /\ heap' = <<>> /\ out' = <<>> /\ picking' = FALSE
  /\ UNCHANGED <<inputs, seriesVars, aborted, estimate, walk, job, turn, queue,
                 cursor, final, faults>>

-----------------------------------------------------------------------------
(* mergeDirectory: countTotalLinesInDir, which fails when a file does not  *)
(* open, and a prepass when it is wanted or the count is not known.        *)
Count ==
  /\ pc = "count"
  /\ estimate' =
       IF Listed \cap broken # {} THEN -1
       ELSE FoldLeft(LAMBDA n, f : n + dir[f].count, 0, SetToSeq(Listed))
  /\ \/ /\ opt.mode # "warmup" /\ estimate' # -1
        /\ pc' = "decide" /\ warm' = NoWarm
        /\ UNCHANGED <<walk, job, turn, queue, sorted>>
     \/ /\ opt.mode = "warmup" \/ estimate' = -1
        /\ IF aborted \/ order = <<>>
           THEN /\ pc' = "decide"
                /\ warm' = [logs |-> <<>>, covered |-> ~aborted]
                /\ UNCHANGED <<walk, job, turn, queue, sorted>>
           ELSE StartPrepass("warm") /\ warm' = warm
  /\ UNCHANGED <<inputs, picking, seriesVars, aborted, cursor, heap, out, results,
                 faults>>

(* Everything fits in memory: T1 is skipped. *)
SkipT1 ==
  \/ estimate # -1 /\ estimate <= opt.threshold
  \/ warm.covered /\ Len(warm.logs) <= opt.threshold

(* The lines of the prepass that were not given out yet are, then the      *)
(* merge is over.                                                          *)
FinishInMemory ==
  /\ pc = "decide" /\ SkipT1
  /\ IF warm.logs # <<>> /\ opt.mode # "warmup"
     THEN /\ seeded' = IF seeded = <<>> THEN warm.logs ELSE seeded
          /\ sent' = Append(sent,
               SubSeq(warm.logs, 1, Lesser(BatchSize, Len(warm.logs))))
     ELSE UNCHANGED <<seeded, sent>>
  /\ final' = [mode |-> "memory",
               total |-> IF estimate # -1 THEN estimate ELSE Len(warm.logs)]
  /\ pc' = "over"
  /\ UNCHANGED <<inputs, seriesVars, aborted, estimate, warmVars, queue,
                 mergeVars, faults>>

StartMerge ==
  /\ pc = "decide" /\ ~SkipT1
  /\ pc' = IF Listed = {} THEN "over"
           ELSE IF opt.mode = "reverse" THEN "openReverse" ELSE "types"
  /\ queue' = order
  /\ UNCHANGED <<inputs, seriesVars, aborted, estimate, warmVars, mergeVars,
                 results, faults>>

-----------------------------------------------------------------------------
(* T1: a type is read, newest line first.  A file that does not open, or a *)
(* read error, ends the merge.                                             *)
ReadType ==
  /\ pc = "types" /\ queue # <<>> /\ ~aborted /\ raw = <<>>
  /\ ToSet(FilesOf(Head(queue))) \cap broken = {}
  /\ LET lines == LinesOfType(Head(queue)) IN
       /\ StartSeries(lines)
       /\ queue' = IF lines = <<>> THEN Tail(queue) ELSE queue
  /\ UNCHANGED <<inputs, aborted, pc, estimate, warmVars, mergeVars, results,
                 faults>>

ReadTypeFails ==
  /\ pc = "types" /\ queue # <<>> /\ ~aborted /\ raw = <<>>
  /\ \/ ToSet(FilesOf(Head(queue))) \cap broken # {} /\ faults' = faults
     \/ faults < MaxFaults /\ faults' = faults + 1
  /\ pc' = "failed"
  /\ UNCHANGED <<inputs, seriesVars, aborted, estimate, warmVars, queue,
                 mergeVars, results>>

(* Each line goes through the YearlessStitcher and the MonotonicCorrector. *)
Correct ==
  /\ Feed
  /\ UNCHANGED <<inputs, aborted, pc, estimate, warmVars, queue, mergeVars,
                 results, faults>>

(* The type is sorted and appended to its file of the intermediate store.  *)
SaveType ==
  /\ pc = "types" /\ raw # <<>> /\ SeriesOver
  /\ sorted' = [sorted EXCEPT ![Head(queue)] = Corrected(raw)]
  /\ StartSeries(<<>>)
  /\ queue' = Tail(queue)
  /\ UNCHANGED <<inputs, aborted, pc, estimate, warmVars, cursor, heap, out,
                 results, faults>>

-----------------------------------------------------------------------------
(* Variant: ties go to the older line. *)
KwayItemOld(k, i) ==
  LET e == sorted[k][i]
  IN  [key |-> <<-e.ts, -e.rank, k, e.rot, -e.rev>>, of |-> k, entry |-> e]

(* The k-way merge.  Ties go to the younger file of its type, then to the  *)
(* file name, which the type is the head of, then to the line.             *)
KwayItem(k, i) ==
  LET e == sorted[k][i]
  IN  [key |-> <<-e.ts, e.rank, k, e.rot, e.rev>>, of |-> k, entry |-> e]

(* nextBatch: the next lines of a stored type. *)
NextBatch(k, from) ==
  LET n == Lesser(Refill, Len(sorted[k]) - from)
  IN  [i \in 1..n |-> KwayItem(k, from + i)]

OpenCursors ==
  /\ pc = "types" /\ raw = <<>> /\ (queue = <<>> \/ aborted)
  /\ LET names == SetToSortSeq({k \in Types : sorted[k] # <<>>}, <)
     IN  /\ cursor' = [k \in ToSet(names) |-> Len(NextBatch(k, 0))]
         /\ heap' = HeapPushAll(<<>>,
              FlattenSeq([i \in 1..Len(names) |-> NextBatch(names[i], 0)]))
  /\ pc' = "kway"
  /\ UNCHANGED <<inputs, seriesVars, aborted, estimate, warmVars, queue, sorted,
                 out, results, faults>>

(* A full batch is given out. *)
Emit(entry) ==
  LET full == Len(out) + 1 >= BatchSize
  IN  /\ out' = IF full THEN <<>> ELSE Append(out, entry)
      /\ sent' = IF full THEN Append(sent, Append(out, entry)) ELSE sent

(* Variant: a type is read on only when the heap is empty. *)
MergeStepLazy ==
  /\ pc = "kway" /\ heap # <<>> /\ ~aborted
  /\ Emit(heap[1].entry)
  /\ LET k == heap[1].of
         next == IF Len(heap) = 1 THEN NextBatch(k, cursor[k]) ELSE <<>>
     IN  /\ heap' = HeapPushAll(HeapPop(heap), next)
         /\ cursor' = [cursor EXCEPT ![k] = @ + Len(next)]
  /\ UNCHANGED <<inputs, seriesVars, aborted, pc, estimate, warmVars, queue,
                 sorted, seeded, final, faults>>

(* The newest line leaves the heap, and the next lines of its type enter. *)
MergeStep ==
  /\ pc = "kway" /\ heap # <<>> /\ ~aborted
  /\ Emit(heap[1].entry)
  /\ LET k == heap[1].of
         next == NextBatch(k, cursor[k])
     IN  /\ heap' = HeapPushAll(HeapPop(heap), next)
         /\ cursor' = [cursor EXCEPT ![k] = @ + Len(next)]
  /\ UNCHANGED <<inputs, seriesVars, aborted, pc, estimate, warmVars, queue,
                 sorted, seeded, final, faults>>

(* What is left of a batch is given out, unless the merge was aborted. *)
FlushOut ==
  /\ sent' = IF out = <<>> \/ aborted THEN sent ELSE Append(sent, out)
  /\ out' = <<>> /\ pc' = "over"

EndMerge ==
  /\ pc = "kway" /\ (heap = <<>> \/ aborted)
  /\ FlushOut
  /\ final' = [mode |-> "file", total |-> Len(FlattenSeq(sent'))]
  /\ UNCHANGED <<inputs, seriesVars, aborted, estimate, warmVars, queue, sorted,
                 cursor, heap, seeded, faults>>

-----------------------------------------------------------------------------
(* The reverse mode: a cursor per file, oldest file of a type first, and   *)
(* one line of each in the heap; nothing is corrected or stored.           *)
ReverseFiles == SetToSortSeq(Listed, LAMBDA a, b :
                  \/ a.type < b.type
                  \/ a.type = b.type /\ a.rot > b.rot)

ForwardEntries(i) == dir[ReverseFiles[i]].forward

ReverseItem(i, n) ==
  LET e == ForwardEntries(i)[n]
      f == ReverseFiles[i]
  IN  [key |-> <<e.ts, i, e.rev>>, of |-> i,
       entry |-> [ts |-> e.ts, type |-> f.type, rot |-> f.rot, rev |-> e.rev]]

NextOfFile(i, from) ==
  IF from < Len(ForwardEntries(i)) THEN <<ReverseItem(i, from + 1)>> ELSE <<>>

(* A file that does not open makes the first read of its cursor throw. *)
OpenReverse ==
  /\ pc = "openReverse"
  /\ IF Listed \cap broken # {}
     THEN pc' = "failed" /\ UNCHANGED <<cursor, heap>>
     ELSE /\ pc' = "reverse"
          /\ cursor' = [i \in 1..Len(ReverseFiles) |-> Len(NextOfFile(i, 0))]
          /\ heap' = HeapPushAll(<<>>,
               FlattenSeq([i \in 1..Len(ReverseFiles) |-> NextOfFile(i, 0)]))
  /\ UNCHANGED <<inputs, seriesVars, aborted, estimate, warmVars, queue, sorted,
                 out, results, faults>>

ReverseStep ==
  /\ pc = "reverse" /\ heap # <<>> /\ ~aborted
  /\ Emit(heap[1].entry)
  /\ LET i == heap[1].of
         next == NextOfFile(i, cursor[i])
     IN  /\ heap' = HeapPushAll(HeapPop(heap), next)
         /\ cursor' = [cursor EXCEPT ![i] = @ + Len(next)]
  /\ UNCHANGED <<inputs, seriesVars, aborted, pc, estimate, warmVars, queue,
                 sorted, seeded, final, faults>>

EndReverse ==
  /\ pc = "reverse" /\ (heap = <<>> \/ aborted)
  /\ FlushOut
  /\ UNCHANGED <<inputs, seriesVars, aborted, estimate, warmVars, queue, sorted,
                 cursor, heap, seeded, final, faults>>

-----------------------------------------------------------------------------
Prepass ==
  T0 \/ WarmRead \/ WarmTurn \/ WarmSort \/ WarmSorted
  \/ WarmHeap \/ WarmPick \/ WarmDone

Merge ==
  \/ Count \/ FinishInMemory \/ StartMerge
  \/ ReadType \/ SaveType \/ OpenCursors \/ MergeStep \/ EndMerge
  \/ OpenReverse \/ ReverseStep \/ EndReverse

Over ==
  pc \in {"over", "failed"} /\ UNCHANGED vars

Next ==
  Prepass \/ Merge \/ Correct \/ WarmFails \/ ReadTypeFails \/ Abort \/ Over

(* mergeDirectory awaits only reads and writes of files, which end: weak   *)
(* fairness of a step of the call, which has one as long as it is not over. *)
Step == Prepass \/ Merge \/ Correct \/ ReadTypeFails
Spec == Init /\ [][Next]_vars
FairSpec ==
  Spec /\ ([]<>(pc \in {"over", "failed"}) \/ []<><<Step>>_vars)

-----------------------------------------------------------------------------
Id(e) == <<e.type, e.rot, e.rev>>
Ids(es) == {Id(es[i]) : i \in 1..Len(es)}
Sent == FlattenSeq(sent)

(* The lines that mergeDirectory keeps, numbered in the order of reading. *)
ValidLines ==
  IF opt.mode # "reverse" THEN UNION {Ids(LinesOfType(k)) : k \in ListedTypes}
  ELSE UNION {LET f == ReverseFiles[i] IN
              {<<f.type, f.rot, e.rev>> : e \in ToSet(ForwardEntries(i))} :
              i \in 1..Len(ReverseFiles)}
InMemory == final # <<>> /\ final.mode = "memory"
Merged == final # <<>> /\ final.mode = "file"
Undisturbed == ~aborted /\ faults = 0 /\ broken = {}

(* The batches of T1 are newest first from one line to the next, across    *)
(* batches and types and however the cursors were refilled: the violations *)
(* that mergeDirectory counts (`top.ts > lastEmittedTs') never occur.      *)
(* Lines of one type leave in the order in which they stand in its files,  *)
(* also those that the correction gave the same time.                      *)
MergeOrdered ==
  opt.mode \in {"session", "plain"} /\ (pc = "kway" \/ Merged) =>
    LET s == Sent \o out IN
    /\ \A i \in 1..(Len(s) - 1) : s[i + 1].ts <= s[i].ts
    /\ \A i, j \in 1..Len(s) :
         i < j /\ s[i].type = s[j].type =>
           LexLess(<<s[i].rank, s[i].rev>>, <<s[j].rank, s[j].rev>>)

(* When a call was neither aborted nor failed, nothing is missing.  After  *)
(* a merge every valid line of every listed file was given out exactly     *)
(* once, and onFinalize says how many there were; when T1 was skipped, the *)
(* warm buffer that the viewer reads has them all.                         *)
EachLineOnce ==
  pc = "over" /\ Undisturbed =>
    IF InMemory
    THEN opt.mode \in {"session", "warmup"} /\ opt.cap >= opt.threshold =>
           Ids(seeded) = ValidLines
    ELSE opt.mode # "warmup" =>
           /\ Ids(Sent) = ValidLines
           /\ Len(Sent) = Cardinality(ValidLines)
           /\ final # <<>> => final.total = Len(Sent)

(* The prepass takes the newest valid lines of each type, without a gap,   *)
(* and fills up: without a cap it returns as many lines as asked for, or   *)
(* all there are, however unevenly the types fill their shares.            *)
WarmNewest ==
  /\ broken = {} /\ pc \in {"count", "decide", "over"} =>
       \A k \in ListedTypes :
         LET all == LinesOfType(k)
             got == {i \in 1..Len(all) : Id(all[i]) \in Ids(seeded)}
         IN  \A i \in got : \A j \in 1..i : j \in got
  /\ pc = "count" /\ opt.mode = "session" /\ Undisturbed
     /\ opt.cap >= opt.threshold =>
       Len(seeded) = Lesser(Target, Cardinality(ValidLines))

(* Every call ends: each round of the redistribution reads lines or finds  *)
(* a type exhausted, each step of the merge takes a line.                  *)
MergeEnds == <>(pc \in {"over", "failed"})

=============================================================================
