------------------------------ MODULE MergedLog ------------------------------
(***************************************************************************)
(* What a merge session promises to whoever reads its output: the chunk    *)
(* list only ever grows at its end, each new chunk starting where the list *)
(* ended, and both manifest.json and the reader that serves pages hold an  *)
(* earlier version of the list.                                            *)
(***************************************************************************)
EXTENDS Integers, Sequences

CONSTANTS
  Loaded,   \* the chunks of a manifest.json found in the directory
  Torn,     \* manifest.json while it is overwritten in place
  NoReader  \* no reader has been opened

VARIABLES
  log,   \* the chunk list
  saved, \* the chunk list in manifest.json, or Torn
  view   \* the chunk list of the reader, or NoReader

logVars == <<log, saved, view>>

Total == IF log = <<>> THEN 0 ELSE log[Len(log)].start + log[Len(log)].lines

Versions == {SubSeq(log, 1, k) : k \in 0..Len(log)}

LogInit == log = Loaded /\ saved = Loaded /\ view = NoReader

(* A part file joins the list. *)
Extend ==
  /\ Len(log') = Len(log) + 1
  /\ \A i \in 1..Len(log) : log'[i] = log[i]
  /\ log'[Len(log) + 1].start = Total
  /\ log'[Len(log) + 1].lines > 0
  /\ UNCHANGED <<saved, view>>

(* manifest.json is replaced, or an overwrite of it begins. *)
Save ==
  /\ saved' \in Versions \cup {Torn}
  /\ UNCHANGED <<log, view>>

(* A reader is opened or reloaded. *)
Open ==
  /\ view' \in Versions
  /\ UNCHANGED <<log, saved>>

LogNext == Extend \/ Save \/ Open

LogSpec == LogInit /\ [][LogNext]_logVars

=============================================================================
