------------------------------- MODULE LogText -------------------------------
(***************************************************************************)
(* From the text of a log file to the entries of its lines: the line       *)
(* readers and the heap of src/core/logs/LogFileIntegration.ts, and the    *)
(* parser of src/core/logs/ParserEngine.ts.                                *)
(*                                                                         *)
(* A text is a sequence of NL, CR and bodies.  A body is what stands       *)
(* between two line ends: the form and the time of its header, the fields  *)
(* that the rule of its file finds in it, and whether a hard-skip pattern  *)
(* matches it.                                                             *)
(***************************************************************************)
EXTENDS TimeSeries, SequencesExt

CONSTANTS
  NL, CR,        \* line feed and carriage return
  NeededFields,  \* requirements.fields of the parser
  MinMatch,      \* min_match_ratio, in percent
  SampleLines    \* sample_lines of the preflight

(* The fields that extractFieldsByCompiledRule may find in a line. *)
Fields == {"time", "process", "pid", "message"}

ASSUME TextAssumption ==
  /\ NeededFields \subseteq Fields
  /\ NL # CR
  /\ SampleLines \in Nat \ {0}
  /\ MinMatch \in 0..100

(* A line with nothing in it that a header or a rule could match. *)
Blank == [form |-> "none", at |-> 0, fields |-> {}, skip |-> FALSE]

(* The body of a line, when it has one. *)
LineOf(chars) ==
  LET i == SelectInSeq(chars, LAMBDA c : c \notin {NL, CR})
  IN  IF i = 0 THEN Blank ELSE chars[i]

-----------------------------------------------------------------------------
(* What stands between the line feeds of a text. *)
Segments(text) ==
  LET ends == <<0>> \o SelectSeq([i \in 1..Len(text) |-> i],
                                 LAMBDA i : text[i] = NL) \o <<Len(text) + 1>>
  IN  [i \in 1..(Len(ends) - 1) |-> SubSeq(text, ends[i] + 1, ends[i + 1] - 1)]

LinesOf(segments) == [i \in 1..Len(segments) |-> LineOf(segments[i])]

(* ReverseLineReader.nextLine until it returns null, whatever chunks the   *)
(* file is read in.  An empty line is skipped, but not one of a CR, which  *)
(* becomes empty only when it is returned.                                 *)
ReverseLines(text) ==
  Reverse(LinesOf(SelectSeq(Segments(text), LAMBDA s : s # <<>>)))

(* ForwardLineReader: a CR belongs to the line end, and an empty line is   *)
(* filtered out; the rest of the file is the last line.                    *)
ForwardLines(text) ==
  LET all == Segments(text)
      ends == {i \in 1..(Len(all) - 1) : all[i] \in {<<>>, <<CR>>}}
               \cup {i \in {Len(all)} : all[i] = <<>>}
  IN  LinesOf(FlattenSeq([i \in 1..Len(all) |->
                IF i \in ends THEN <<>> ELSE <<all[i]>>]))

(* countLinesInFile *)
CountLines(text) ==
  LET ends == {i \in 1..Len(text) : text[i] = NL}
  IN  Cardinality(ends) + IF text # <<>> /\ Last(text) # NL THEN 1 ELSE 0

-----------------------------------------------------------------------------
(* isLineMatchByRequirements *)
IsLineMatch(line) ==
  IF NeededFields = {} THEN "message" \in line.fields
  ELSE NeededFields \subseteq line.fields

(* shouldUseParserForFile, for a file that has a rule. *)
ShouldUseParser(text) ==
  LET all == ForwardLines(text)
      sample == SubSeq(all, 1, IF Len(all) < SampleLines THEN Len(all)
                               ELSE SampleLines)
      matched == {i \in 1..Len(sample) : IsLineMatch(sample[i])}
  IN  /\ sample # <<>>
      /\ \A i \in 1..Len(sample) : ~sample[i].skip
      /\ 100 * Cardinality(matched) >= MinMatch * Len(sample)

(* isParsedHeaderAllMissing *)
HeaderMissing(line) == line.fields \cap {"time", "process", "pid"} = {}

(* The header that extractHeaderTimeToken finds in the text of the entry:  *)
(* the parser leaves the message, restoreFullTextIfNeeded puts the header  *)
(* back when it has a time and a process.                                  *)
HeaderForm(line, use) ==
  IF \/ ~use \/ "message" \notin line.fields
     \/ {"time", "process"} \subseteq line.fields
  THEN line.form ELSE "none"

(* lineToEntryWithParser and restoreFullTextIfNeeded. *)
LineToEntry(line, use, fallback) ==
  LET ts == ParseTs(line.form, line.at)
  IN  [ts |-> IF ts # NoTs THEN ts ELSE IF fallback # NoTs THEN fallback ELSE 0,
       yearless |-> IsYearlessTimeToken(HeaderForm(line, use))]

(* The lines of a file become entries, a line without a time taking the    *)
(* time of the last line kept before it.  A file that uses the parser      *)
(* loses the lines without a header.                                       *)
EntriesOf(lines, use) ==
  FoldLeftDomain(
    LAMBDA acc, i :
      LET e == LineToEntry(lines[i], use, acc.prev)
      IN  IF use /\ HeaderMissing(lines[i]) THEN acc
          ELSE [prev |-> IF e.ts > 0 THEN e.ts ELSE acc.prev,
                kept |-> Append(acc.kept,
                           [ts |-> e.ts, yearless |-> e.yearless, rev |-> i])],
    [prev |-> NoTs, kept |-> <<>>], lines).kept

-----------------------------------------------------------------------------
(* The MaxHeap of the merges, an array.  An item is ahead of another when  *)
(* its key is the lesser one, component by component.                      *)
LexLess(s, t) ==
  \E i \in 1..Len(s) : s[i] < t[i] /\ \A j \in 1..(i - 1) : s[j] = t[j]

Ahead(a, b) == LexLess(a.key, b.key)

Swap(h, i, j) == [h EXCEPT ![i] = h[j], ![j] = h[i]]

RECURSIVE Up(_, _)
Up(h, i) ==
  IF i > 1 /\ Ahead(h[i], h[i \div 2]) THEN Up(Swap(h, i, i \div 2), i \div 2)
  ELSE h

RECURSIVE Down(_, _)
Down(h, i) ==
  LET l == 2 * i
      m == IF l <= Len(h) /\ Ahead(h[l], h[i]) THEN l ELSE i
      n == IF l + 1 <= Len(h) /\ Ahead(h[l + 1], h[m]) THEN l + 1 ELSE m
  IN  IF n = i THEN h ELSE Down(Swap(h, i, n), n)

HeapPush(h, x) == Up(Append(h, x), Len(h) + 1)

HeapPushAll(h, items) == FoldLeft(HeapPush, h, items)

(* What is left when the top has been taken: the last item goes first. *)
HeapPop(h) ==
  IF Len(h) = 1 THEN <<>> ELSE Down([Front(h) EXCEPT ![1] = Last(h)], 1)

(* Array#sort with (a, b) => b.ts - a.ts, which is stable. *)
SortDesc(entries) ==
  LET before(i, j) == \/ entries[i].ts > entries[j].ts
                      \/ entries[i].ts = entries[j].ts /\ i < j
      places == SortSeq([i \in 1..Len(entries) |-> i], before)
  IN  [i \in 1..Len(entries) |-> entries[places[i]]]

=============================================================================
