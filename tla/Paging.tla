------------------------------- MODULE Paging -------------------------------
(***************************************************************************)
(* What PaginationService.ts, PagedReader.ts and the handlers of           *)
(* hostWebviewBridge.ts compute for one request, when nothing changes in   *)
(* the meantime: pages, totals, search hits and the windows around a jump  *)
(* target or a refresh anchor.  Each request is one step; the actions of   *)
(* LogPaging interleave them.                                              *)
(*                                                                         *)
(* A line is its physical position, counted from 0 at the newest: lines    *)
(* are stored newest first and shown oldest first, numbered from 1.        *)
(***************************************************************************)
EXTENDS Integers, Sequences

CONSTANTS
  Stores,        \* the states of the service the requests are tried in
  Terms,         \* search terms: the sets of lines whose text has the term
  PageSize,      \* LOG_WINDOW_SIZE of the host's handlers
  WindowSize,    \* windowSize of the viewer's store
  ReadWindow,    \* WINDOW of readRangeFiltered
  CountWindow,   \* WINDOW of getFilteredTotal
  SearchWindow,  \* WINDOW of searchAll
  MaxIndex       \* bound: requests name indices up to MaxIndex

ASSUME PagingAssumption ==
  /\ PageSize \in Nat \ {0} /\ WindowSize \in Nat \ {0}
  /\ WindowSize >= PageSize
  /\ ReadWindow \in Nat \ {0} /\ CountWindow \in Nat \ {0} /\ SearchWindow \in Nat \ {0}
  /\ MaxIndex \in Nat

(* A store has the chunks of the open manifest, the numbers of those whose *)
(* file is gone, the manifest's totalLines estimate, the number of lines   *)
(* in the warm buffer (0: no warm mode), whether a reader is open, and the *)
(* filter: whether it is active and which lines match it.  The chunks of a *)
(* manifest follow each other from line 0 on.                              *)
Chunks == [start : Nat, lines : Nat]

StoreOK(st) ==
  /\ st \in [chunks : Seq(Chunks), missing : SUBSET Nat, hint : Nat, warm : Nat,
             open : BOOLEAN, filtered : BOOLEAN, matched : SUBSET Nat]
  /\ \A n \in DOMAIN st.chunks :
       st.chunks[n].start = IF n = 1 THEN 0
                            ELSE st.chunks[n - 1].start + st.chunks[n - 1].lines
  /\ ~st.open => st.chunks = <<>>

ASSUME StoresAssumption == \A st \in Stores : StoreOK(st)

VARIABLES store, request, answer

pagingVars == <<store, request, answer>>

Least(a, b) == IF a <= b THEN a ELSE b
Greatest(a, b) == IF a >= b THEN a ELSE b

Reversed(s) == [i \in 1..Len(s) |-> s[Len(s) + 1 - i]]

-----------------------------------------------------------------------------
(* PagedReader: mergedLines is derived from the last chunk. *)
MergedLines(st) ==
  LET n == Len(st.chunks)
  IN  IF n = 0 THEN 0 ELSE st.chunks[n].start + st.chunks[n].lines

(* Lines start (included) to endExcl (excluded), chunk by chunk, until     *)
(* there are enough; the file of a missing chunk reads as empty.           *)
Skipped(st, n, start, endExcl) ==
  LET c == st.chunks[n]
  IN  n \in st.missing \/ c.start + c.lines <= start \/ c.start >= endExcl

Slice(c, start, endExcl) ==
  LET from == Greatest(0, start - c.start)
      to == Least(c.lines, endExcl - c.start)
  IN  [i \in 1..(to - from) |-> c.start + from + i - 1]

ReadChunks(st, start, endExcl) ==
  LET out[n \in 0..Len(st.chunks)] ==
        IF n = 0 THEN <<>>
        ELSE LET read == out[n - 1]
             IN  IF Len(read) >= endExcl - start \/ Skipped(st, n, start, endExcl) THEN read
                 ELSE read \o Slice(st.chunks[n], start, endExcl)
  IN  out[Len(st.chunks)]

ReadLineRange(st, start, endExcl) ==
  LET out == ReadChunks(st, start, endExcl)
  IN  IF endExcl <= start THEN <<>>
      ELSE SubSeq(out, 1, Least(endExcl - start, Len(out)))

(* getTotalLines falls back on the estimate while nothing is merged. *)
TotalLines(st) == IF MergedLines(st) > 0 THEN MergedLines(st) ELSE st.hint

-----------------------------------------------------------------------------
(* PaginationService *)
Matches(st, line) == st.filtered => line \in st.matched

Filtered(st, lines) ==
  LET kept[i \in 0..Len(lines)] ==
        IF i = 0 THEN <<>>
        ELSE IF Matches(st, lines[i]) THEN Append(kept[i - 1], lines[i]) ELSE kept[i - 1]
  IN  kept[Len(lines)]

WarmBuffer(st) == [i \in 1..st.warm |-> i - 1]

(* Variant: the end of the range is taken as excluded. *)
MapAscToDescRangeShort(total, s, e) ==
  [physStart |-> Greatest(0, total - e), physEndExcl |-> Least(total, total - s)]

MapAscToDescRange(total, s, e) ==
  [physStart |-> Greatest(0, total - e), physEndExcl |-> Least(total, total - s + 1)]

Indexed(lines, first) == [i \in 1..Len(lines) |-> [idx |-> first + i - 1, line |-> lines[i]]]

(* The warm buffer's lines for the shown indices s..e. *)
WarmSlice(st, s, e) ==
  LET m == MapAscToDescRange(st.warm, s, e)
  IN  Indexed(Reversed(SubSeq(WarmBuffer(st), m.physStart + 1, m.physEndExcl)), s)

FileSlice(st, startIdx, endIdx) ==
  LET total == TotalLines(st)
      s == Greatest(1, Least(total, startIdx))
      e == Greatest(1, Least(total, endIdx))
      m == MapAscToDescRange(total, s, e)
  IN  IF total <= 0 \/ e < s \/ m.physEndExcl <= m.physStart THEN <<>>
      ELSE Indexed(Reversed(ReadLineRange(st, m.physStart, m.physEndExcl)), s)

(* Variant: a window of a whole page is read below the start of the file. *)
WindowAscOverlapping(st, tail, window) ==
  Reversed(ReadLineRange(st, Greatest(0, tail - window - 1), tail))

WindowAsc(st, tail, window) == Reversed(ReadLineRange(st, Greatest(0, tail - window), tail))

(* The lines a scan from the oldest line on reads: window by window, each  *)
(* below the one before.                                                   *)
Scanned(st, window) ==
  LET below[tail \in 0..MergedLines(st)] ==
        IF tail = 0 THEN <<>>
        ELSE WindowAsc(st, tail, window) \o below[Greatest(0, tail - window)]
  IN  below[MergedLines(st)]

(* The loop over the lines: the first startIdx - 1 that match are counted, *)
(* the next ones taken until there are as many as wanted.                  *)
KeepRange(st, lines, startIdx, want) ==
  LET acc[i \in 0..Len(lines)] ==
        IF i = 0 THEN [v |-> 0, out |-> <<>>]
        ELSE LET a == acc[i - 1]
             IN  IF Len(a.out) >= want \/ ~Matches(st, lines[i]) THEN a
                 ELSE [v |-> a.v + 1,
                       out |-> IF a.v + 1 < startIdx THEN a.out ELSE Append(a.out, lines[i])]
  IN  acc[Len(lines)].out

ReadRangeFiltered(st, startIdx, endIdx) ==
  LET want == endIdx - startIdx + 1
      asc == Reversed(Filtered(st, WarmBuffer(st)))
      s0 == Greatest(0, startIdx - 1)
  IN  IF startIdx > endIdx THEN <<>>
      ELSE IF st.warm > 0
           THEN Indexed(SubSeq(asc, s0 + 1, Least(s0 + want, Len(asc))), startIdx)
      ELSE IF ~st.open THEN <<>>
      ELSE Indexed(KeepRange(st, Scanned(st, ReadWindow), startIdx, want), startIdx)

(* In warm mode a range beyond the buffer is read from the file when there *)
(* is a reader, and is answered with the buffer's last page when not.      *)
ReadRangeByIdx(st, startIdx, endIdx) ==
  LET n == st.warm
      win == Greatest(1, endIdx - startIdx + 1)
      Within(i) == Greatest(1, Least(n, i))
  IN  IF st.filtered THEN ReadRangeFiltered(st, startIdx, endIdx)
      ELSE IF n > 0 /\ (startIdx > endIdx \/ endIdx <= 0) THEN <<>>
      ELSE IF n > 0 /\ startIdx <= n THEN WarmSlice(st, Within(startIdx), Within(endIdx))
      ELSE IF n > 0 /\ ~st.open THEN WarmSlice(st, Greatest(1, n - win + 1), n)
      ELSE IF ~st.open \/ startIdx > endIdx THEN <<>>
      ELSE FileSlice(st, startIdx, endIdx)

(* Variant: the filter is not applied to the count. *)
GetFilteredTotalUnfiltered(st) ==
  IF st.warm > 0 THEN st.warm ELSE IF st.open THEN MergedLines(st) ELSE 0

(* The lines that match, counted window by window from the newest line on; *)
(* left: those that are not read yet.                                      *)
CountMatches(st) ==
  LET total == MergedLines(st)
      count[left \in 0..total] ==
        IF left = 0 THEN 0
        ELSE LET from == total - left
                 to == Least(total, from + CountWindow)
             IN  Len(Filtered(st, ReadLineRange(st, from, to))) + count[total - to]
  IN  count[total]

GetFilteredTotal(st) ==
  IF st.warm > 0 THEN Len(Filtered(st, WarmBuffer(st)))
  ELSE IF ~st.open THEN 0
  ELSE IF st.filtered THEN CountMatches(st) ELSE MergedLines(st)

(* The lines that match the filter and the term, oldest first, with their  *)
(* place among the lines that match the filter; top = 0: all of them.      *)
Hits(st, lines, term, range, top) ==
  LET InRange(k) == k >= Greatest(1, range[1]) /\ k <= Greatest(1, range[2])
      acc[i \in 0..Len(lines)] ==
        IF i = 0 THEN [v |-> 0, hits |-> <<>>]
        ELSE LET a == acc[i - 1]
             IN  IF (top > 0 /\ Len(a.hits) >= top) \/ ~Matches(st, lines[i]) THEN a
                 ELSE [v |-> a.v + 1,
                       hits |-> IF InRange(a.v + 1) /\ lines[i] \in term
                                THEN Append(a.hits, [idx |-> a.v + 1, line |-> lines[i]])
                                ELSE a.hits]
  IN  acc[Len(lines)].hits

SearchAll(st, term, range, top) ==
  IF st.warm > 0 THEN Hits(st, Reversed(WarmBuffer(st)), term, range, top)
  ELSE IF ~st.open THEN <<>>
  ELSE Hits(st, Scanned(st, SearchWindow), term, range, top)

-----------------------------------------------------------------------------
(* The window a logs.jump handler reads around idx. *)
JumpRange(total, idx, mode) ==
  LET top == [s |-> Greatest(1, idx),
              e |-> Least(total, Greatest(1, idx) + PageSize - 1)]
      bottom == [s |-> Greatest(1, Least(total, idx) - PageSize + 1), e |-> Least(total, idx)]
      s0 == Greatest(1, idx - PageSize \div 2)
      e0 == Least(total, s0 + PageSize - 1)
      center == [s |-> IF e0 - s0 + 1 < PageSize THEN Greatest(1, e0 - PageSize + 1) ELSE s0,
                 e |-> e0]
  IN  IF mode = "top" THEN top ELSE IF mode = "bottom" THEN bottom ELSE center

(* The row the viewer keeps in sight over a refresh: the target of a jump  *)
(* it waits for (0: none), the last row when it follows, or the middle of  *)
(* its window.                                                             *)
RefreshAnchor(total, follow, jump, windowStart) ==
  IF jump > 0 THEN jump
  ELSE IF follow THEN Greatest(1, total)
  ELSE Greatest(1, Least(windowStart + WindowSize \div 2, Greatest(1, total)))

(* The window the viewer requests after logs.refresh. *)
RefreshRange(total, anchor) ==
  LET s0 == Greatest(1, anchor - WindowSize \div 2)
      e0 == Least(total, s0 + WindowSize - 1)
  IN  [s |-> IF e0 - s0 + 1 < WindowSize THEN Greatest(1, e0 - WindowSize + 1) ELSE s0, e |-> e0]

(* logs.page.request: a missing or zero index is replaced. *)
FirstIdx(startIdx) == IF startIdx = 0 THEN 1 ELSE startIdx
LastIdx(startIdx, endIdx) == IF endIdx = 0 THEN FirstIdx(startIdx) ELSE endIdx

PageRequest(st, startIdx, endIdx) ==
  ReadRangeByIdx(st, FirstIdx(startIdx), LastIdx(startIdx, endIdx))

-----------------------------------------------------------------------------
NoAnswer == [rows |-> <<>>, total |-> 0]

PagingInit == store \in Stores /\ request = [op |-> "none"] /\ answer = NoAnswer

Answered(req, ans) == request' = req /\ answer' = ans /\ UNCHANGED store

Page(s, e) ==
  Answered([op |-> "page", s |-> s, e |-> e], [rows |-> PageRequest(store, s, e), total |-> 0])

FilteredTotal ==
  Answered([op |-> "total"], [rows |-> <<>>, total |-> GetFilteredTotal(store)])

SearchQuery(term, range, top) ==
  Answered([op |-> "search", term |-> term, range |-> range, top |-> top],
           [rows |-> SearchAll(store, term, range, top), total |-> 0])

(* An index outside the total is an error, and nothing is read. *)
Jump(idx, mode) ==
  LET total == GetFilteredTotal(store)
      r == JumpRange(total, idx, mode)
  IN  /\ idx >= 1 /\ idx <= total
      /\ Answered([op |-> "jump", idx |-> idx, mode |-> mode],
                  [rows |-> ReadRangeByIdx(store, r.s, r.e), total |-> total])

Refresh(follow, jump, windowStart) ==
  LET total == GetFilteredTotal(store)
      anchor == RefreshAnchor(total, follow, jump, windowStart)
      r == RefreshRange(total, anchor)
  IN  Answered([op |-> "refresh", anchor |-> anchor],
               [rows |-> PageRequest(store, r.s, r.e), total |-> total])

(* The answer has been sent; the requests leave no trace in the store. *)
Sent ==
  /\ request.op # "none"
  /\ request' = [op |-> "none"] /\ answer' = NoAnswer /\ UNCHANGED store

Request ==
  /\ request.op = "none"
  /\ \/ \E s, e \in 0..MaxIndex : Page(s, e)
     \/ FilteredTotal
     \/ \E term \in Terms, lo, hi \in 1..MaxIndex, top \in 0..2 : SearchQuery(term, <<lo, hi>>, top)
     \/ \E idx \in 1..MaxIndex, mode \in {"top", "bottom", "center"} : Jump(idx, mode)
     \/ \E follow \in BOOLEAN, jump \in 0..MaxIndex, start \in 1..MaxIndex :
          Refresh(follow, jump, start)

PagingNext == Request \/ Sent

PagingSpec == PagingInit /\ [][PagingNext]_pagingVars

-----------------------------------------------------------------------------
(* What the answers should be.  Shown is the view the viewer scrolls in:   *)
(* the lines that match the filter, oldest first.                          *)
ShownOf(st, n) == Filtered(st, [i \in 1..n |-> n - i])

FileSize(st) == IF st.open THEN MergedLines(st) ELSE 0

Shown(st) == ShownOf(st, IF st.warm > 0 THEN st.warm ELSE FileSize(st))

(* Every chunk is there, or only matching lines are counted.               *)
Whole(st) == st.missing = {}
Countable(st) == Whole(st) \/ st.filtered

LabelledIn(rows, view) ==
  \A k \in DOMAIN rows : rows[k].idx \in DOMAIN view /\ view[rows[k].idx] = rows[k].line

(* An unfiltered warm read beyond the buffer is numbered as the file is.   *)
Beyond(st, s) == ~st.filtered /\ st.open /\ st.warm > 0 /\ s > st.warm

ViewAt(st, s) == IF Beyond(st, s) THEN ShownOf(st, FileSize(st)) ELSE Shown(st)

AskedView == IF request.op = "page" THEN ViewAt(store, FirstIdx(request.s)) ELSE Shown(store)

(* The row labelled i is the i-th line of the view (readRangeByIdx and     *)
(* searchAll number the rows they return by counting), and a page that     *)
(* starts within the view has every row of it that it asks for and no      *)
(* other: an off-by-one in the mirrored mapping, in a window or at a chunk *)
(* boundary would show a neighbour's text or leave a row out.              *)
PageExact ==
  LET s == FirstIdx(request.s)
      e == LastIdx(request.s, request.e)
      n == Len(Shown(store))
  IN  Whole(store) =>
        /\ LabelledIn(answer.rows, AskedView)
        /\ request.op = "page" /\ s <= n =>
             /\ {answer.rows[k].idx : k \in DOMAIN answer.rows} = s..Least(e, n)
             /\ Len(answer.rows) = Greatest(0, Least(e, n) - s + 1)

(* rows: the first `top' lines of the view that have the term and lie in   *)
(* the range lo..hi, in order; all of them when top is 0.                  *)
FirstHits(rows, view, term, lo, hi, top) ==
  LET Found(i) == i >= lo /\ i <= hi /\ view[i] \in term
      found == {rows[k].idx : k \in DOMAIN rows}
  IN  /\ \A k \in DOMAIN rows : /\ rows[k].idx \in DOMAIN view /\ Found(rows[k].idx)
                                /\ rows[k].line = view[rows[k].idx]
      /\ \A k, l \in DOMAIN rows : k < l => rows[k].idx < rows[l].idx
      /\ top > 0 => Len(rows) <= top
      /\ \A i \in DOMAIN view \ found :
           Found(i) => /\ top > 0 /\ Len(rows) = top
                       /\ \A j \in found : j < i

(* searchAll finds the first hits of the view, by warm buffer and by file  *)
(* alike.                                                                  *)
SearchExact ==
  request.op = "search" /\ Whole(store) =>
    FirstHits(answer.rows, Shown(store), request.term,
              request.range[1], request.range[2], request.top)

(* The total that is announced is the number of rows that can be read,     *)
(* although getFilteredTotal and readRangeFiltered scan with windows of    *)
(* their own from opposite ends; with a filter even if chunks are missing. *)
TotalIsReadable ==
  request.op = "total" /\ Countable(store) =>
    /\ answer.total = Len(ReadRangeByIdx(store, 1, Greatest(1, answer.total)))
    /\ answer.total < MaxIndex /\ store.filtered =>
         ReadRangeByIdx(store, answer.total + 1, MaxIndex) = <<>>

=============================================================================
