------------------------------ MODULE TimeSeries ------------------------------
(***************************************************************************)
(* The times of one log type.  The lines of a type are read newest first.  *)
(* Times without a year are moved back by whole years (YearlessStitcher of *)
(* src/core/logs/LogFileIntegration.ts), then clock jumps are taken out    *)
(* (MonotonicCorrector of src/core/logs/time/TimezoneHeuristics.ts).       *)
(*                                                                         *)
(* A line has a time token, or none: its form, and its time, which counts  *)
(* from the start of the year when the form has no year.                   *)
(***************************************************************************)
EXTENDS Integers, Sequences

CONSTANTS
  NoTs,     \* undefined
  HostYear, \* the year of the host's clock
  Year,     \* the length of a year, a year being as long as any other
  Second,   \* 1000 ms
  Jitter    \* JITTER_TOLERANCE_MS and SMALL_DELTA_MS

ASSUME TimeAssumption ==
  /\ NoTs \notin Int
  /\ HostYear \in Nat
  /\ Year \in Nat \ {0} /\ Second \in Nat \ {0} /\ Jitter \in Nat

VARIABLES
  raw,       \* the times of the series as they were read, newest line first
  series,    \* the corrected times so far
  stitcher,  \* shiftYears and last of the YearlessStitcher
  corrector  \* lastCorrected and globalOffsetMs of the MonotonicCorrector

seriesVars == <<raw, series, stitcher, corrector>>

-----------------------------------------------------------------------------
YearlessForms == {"mon", "md"}

IsYearlessTimeToken(form) == form \in YearlessForms

(* A time without a year gets the year of the host, whatever year it is of. *)
ParseTs(form, at) ==
  CASE form \in {"abs", "ymd"} -> at
    [] form \in YearlessForms -> HostYear * Year + at
    [] OTHER -> NoTs

-----------------------------------------------------------------------------
NewStitcher == [shift |-> 0, last |-> NoTs]

ShiftByYears(ts, years) == ts + years * Year

(* The loop of apply: how often a year is taken off until ts fits. *)
YearsBack(ts, last) == (ts - last + Year - 1) \div Year

(* apply: the stitcher afterwards; the time it returns for a yearless line *)
(* is its last.                                                            *)
Stitch(st, ts, yearless) ==
  LET shifted == ShiftByYears(ts, st.shift)
      back == YearsBack(shifted, st.last)
  IN  IF ~yearless
      THEN IF ts <= 0 THEN st
           ELSE [st EXCEPT !.last = IF @ = NoTs \/ ts < @ THEN ts ELSE @]
      ELSE IF st.last = NoTs \/ shifted <= st.last
      THEN [st EXCEPT !.last = shifted]
      ELSE IF \/ shifted \div Second = st.last \div Second
              \/ shifted - st.last <= Jitter
      THEN [st EXCEPT !.last = @ - 1]
      ELSE [shift |-> st.shift - back, last |-> shifted - back * Year]

Stitched(st, ts, yearless) ==
  IF yearless THEN Stitch(st, ts, yearless).last ELSE ts

-----------------------------------------------------------------------------
NewCorrector == [last |-> NoTs, offset |-> 0]

(* Variant: a small inversion is let through. *)
AdjustLoose(c, ts) ==
  LET t == ts + c.offset
  IN  IF c.last = NoTs \/ t <= c.last + Jitter THEN [c EXCEPT !.last = t]
      ELSE [last |-> c.last, offset |-> c.offset - (t - c.last)]

(* adjust: the corrector afterwards; what it returns is its last. *)
Adjust(c, ts) ==
  LET t == ts + c.offset
  IN  IF c.last = NoTs \/ t <= c.last THEN [c EXCEPT !.last = t]
      ELSE IF t - c.last <= Jitter THEN [c EXCEPT !.last = @ - 1]
      ELSE [last |-> c.last, offset |-> c.offset - (t - c.last)]

-----------------------------------------------------------------------------
SeriesInit ==
  /\ raw = <<>> /\ series = <<>>
  /\ stitcher = NewStitcher /\ corrector = NewCorrector

(* A type has been read: a new stitcher and a new corrector. *)
StartSeries(lines) ==
  /\ raw' = lines /\ series' = <<>>
  /\ stitcher' = NewStitcher /\ corrector' = NewCorrector

(* The next line of the series goes through both. *)
Feed ==
  /\ Len(series) < Len(raw)
  /\ LET l == raw[Len(series) + 1]
         ts == Stitched(stitcher, l.ts, l.yearless)
     IN  /\ stitcher' = Stitch(stitcher, l.ts, l.yearless)
         /\ corrector' = Adjust(corrector, ts)
         /\ series' = Append(series, corrector'.last)
  /\ raw' = raw

SeriesOver == Len(series) = Len(raw)

Lines == [ts : Int, yearless : BOOLEAN]

(* Any series of lines, one after the other. *)
SeriesNext == Feed \/ \E lines \in Seq(Lines) : StartSeries(lines)
SeriesSpec == SeriesInit /\ [][SeriesNext]_seriesVars

-----------------------------------------------------------------------------
(* The corrected times of a type never increase from a line to an older    *)
(* one, whatever forms, jumps and missing times its lines have: the sort   *)
(* that follows leaves the lines in the order of the files (`logs.sort').  *)
SeriesDescends ==
  \A i, j \in 1..Len(series) : i < j => series[j] <= series[i]

=============================================================================
