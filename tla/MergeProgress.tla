---------------------------- MODULE MergeProgress ----------------------------
(***************************************************************************)
(* How the progress of a file merge reaches the log viewer: the session    *)
(* (LogSessionManager.startFileMergeSession) reports through a throttle,   *)
(* LogViewerPanelManager relays to the bridge of the panel the merge was   *)
(* started on, HostWebviewBridge holds the latest report back for its      *)
(* 100 ms ticker, and the viewer (ipc.ts, store.ts) draws the bar.  Stages,*)
(* batches and refreshes take the same channel without the ticker, so they *)
(* overtake reports.  Panels are opened, closed and reopened while merges  *)
(* run; a running merge cannot be stopped (no caller passes a signal).     *)
(*                                                                         *)
(* What the session merges, and which messages change the rows, is the     *)
(* subject of FileMergeSession, LogMerge and LogPaging; stage texts, the   *)
(* memory sampler and the metrics are left out.  Reports to the bridge of a*)
(* closed panel reach nobody and are not kept.                             *)
(***************************************************************************)
EXTENDS Integers, Sequences

CONSTANTS
  MaxCalls,     \* calls of the manager
  MaxLines,     \* lines of a folder; a batch of the merge is one line
  MaxBlank,     \* lines the estimate counts and the merge does not emit
  MaxPanels,    \* panels opened
  MaxUpsets,    \* merges started after the first, panels closed, failures
  MaxWire       \* a step that sends finds fewer messages under way

ASSUME MergeProgressAssumption ==
  /\ MaxCalls \in Nat \ {0}
  /\ MaxLines \in Nat \ {0} /\ MaxBlank \in Nat /\ MaxPanels \in Nat \ {0}
  /\ MaxUpsets \in Nat /\ MaxWire \in Nat \ {0}

VARIABLES
  panel,        \* the open panel, 0 when there is none; panels are numbered
  opened,       \* panels created so far
  bridge,       \* the manager's bridge: the panel it serves, or 0
  listeners,    \* bridges listening on the open panel
  tick,         \* the progress fields of that bridge
  wire,         \* messages on their way to the viewer of the open panel
  view,         \* the viewer of the open panel
  call,         \* the calls of the manager
  initialSent,  \* the manager's guard of the first batch
  told,         \* total of the last file-index refresh sent, or None once a
                \* later message may change the rows
  upsets        \* further merges, closed panels and failures so far

progressVars == <<panel, opened, bridge, listeners, tick, wire, view, call, initialSent,
                  told, upsets>>

None == -1   \* an undefined number
Calls == 1..MaxCalls   \* in the order they are made

----------------------------------------------------------------------------
(* HostWebviewBridge: the ticker. *)

NewTick == [timer |-> FALSE, done |-> None, total |-> None, active |-> FALSE,
            inc |-> 0, reset |-> FALSE, sent |-> <<>>]

\* What the ticker compares with the last report it sent.
TickKey(t) == <<t.done, t.total, t.inc, t.reset, t.active>>

\* MergeReporter.onProgress: the latest values win, increments add up, and the
\* ticker runs.
Merged(t, p) ==
  [t EXCEPT !.timer = TRUE,
            !.inc = @ + (IF p.inc > 0 THEN p.inc ELSE 0),
            !.done = IF p.done = None THEN @ ELSE p.done,
            !.total = IF p.total = None THEN @ ELSE p.total,
            !.active = p.active,
            !.reset = @ \/ p.reset]

Report(inc, done, total, active, reset) ==
  [inc |-> inc, done |-> done, total |-> total, active |-> active, reset |-> reset]

\* The reporter a merge was started with serves the open panel.
Reaches(c) == call[c].rep # 0 /\ call[c].rep = panel

\* The manager's onProgress goes to that reporter.
OnProgress(c, p) == tick' = IF Reaches(c) THEN Merged(tick, p) ELSE tick

\* LogSessionManager.throttledOnProgress: a report of a running merge may be
\* dropped (less than 1% more and within 250 ms), a closing one never is.
Throttled(c, p) ==
  \/ OnProgress(c, p)
  \/ p.active /\ UNCHANGED tick

----------------------------------------------------------------------------
(* Messages to the viewer. *)

BatchMsg(total) == [type |-> "batch", total |-> total]
StageMsg(kind) == [type |-> kind, total |-> None]
SavedMsg(total) == [type |-> "saved", total |-> total]
TotalMsg(total, warm) == [type |-> "refresh", total |-> total, warm |-> warm]
ProgressMsg(t) ==
  [type |-> "progress", total |-> t.total, done |-> t.done, active |-> t.active,
   inc |-> t.inc, reset |-> t.reset]

\* LogViewerPanelManager._send: dropped while there is no bridge.
Sent(msgs) == IF bridge = 0 THEN <<>> ELSE msgs

\* MergeReporter.onStage: a send on a closed panel throws and is swallowed.
Staged(c, kinds) ==
  IF Reaches(c)
    THEN [i \in 1..Len(kinds) |-> StageMsg(kinds[i])] ELSE <<>>

\* Appends to the channel and notes the total of a refresh nothing supersedes.
Post(msgs) ==
  /\ msgs # <<>> => Len(wire) < MaxWire
  /\ wire' = wire \o msgs
  /\ told' = IF msgs = <<>> THEN told
             ELSE LET last == msgs[Len(msgs)]
                  IN  IF last.type = "refresh" /\ ~last.warm THEN last.total
                      ELSE IF last.type = "done" THEN told ELSE None

\* onBatch of a merge: only the first batch since a merge was last started.
FirstBatch(total) == IF initialSent THEN <<>> ELSE Sent(<<BatchMsg(total)>>)

----------------------------------------------------------------------------
(* LogViewerPanelManager: the panel. *)

NewView == [allow |-> TRUE, done |-> 0, total |-> 0,
            open |-> FALSE, rows |-> 0]

NoCall == [kind |-> "open", at |-> "idle", panel |-> 0, rep |-> 0, guess |-> None,
           left |-> 0, emitted |-> 0, done |-> 0, tasks |-> 0]

\* The calls are made in order.
Made(c, kind) ==
  /\ call[c].at = "idle" /\ \A d \in 1..(c - 1) : call[d].at # "idle"
  /\ upsets' = IF kind = "merge" /\ \E d \in 1..(c - 1) : call[d].kind = "merge"
                 THEN upsets + 1 ELSE upsets
  /\ upsets' <= MaxUpsets

\* A call that is over keeps what its batches under way still report with.
Ended(j) == IF j.tasks = 0 THEN [j EXCEPT !.rep = 0, !.done = 0] ELSE j

Step(c, at) ==
  call' = [call EXCEPT ![c] = [(IF at = "over" THEN Ended(@) ELSE @) EXCEPT !.at = at]]

\* What startRealtime and startFileMerge do once the viewer is open, up to
\* their next await; `reporter' is the bridge as the step leaves it.
Enter(c, kind, reporter) ==
  /\ call' = [call EXCEPT ![c].at = IF kind = "merge" THEN "root" ELSE "over",
                          ![c].kind = kind,
                          ![c].rep = IF kind = "merge" THEN reporter ELSE 0]
  /\ initialSent' = CASE kind = "open" -> initialSent
                      [] kind = "realtime" -> TRUE
                      [] kind = "merge" -> FALSE

\* A call with the viewer open goes on, also when another call still loads it.
EnterOpen(c, kind) ==
  /\ Made(c, kind) /\ panel # 0
  /\ Enter(c, kind, bridge)
  /\ UNCHANGED <<panel, opened, bridge, listeners, tick, wire, view, told>>

\* handleHomeyLoggingCommand: creates the panel, then awaits its page.
CreatePanel(c, kind) ==
  /\ Made(c, kind) /\ panel = 0 /\ opened < MaxPanels
  /\ opened' = opened + 1
  /\ panel' = opened'
  /\ listeners' = 0
  /\ view' = NewView
  /\ call' = [call EXCEPT ![c].at = "page", ![c].kind = kind, ![c].panel = opened']
  /\ UNCHANGED <<bridge, tick, wire, initialSent, told>>

\* Variant: the page is set on whatever panel is there after the await.
PageLoadedAnyPanel(c) ==
  /\ call[c].at = "page" /\ panel # 0
  /\ bridge' = panel
  /\ listeners' = listeners + 1
  /\ Enter(c, call[c].kind, bridge')
  /\ UNCHANGED <<panel, opened, tick, wire, view, told, upsets>>

\* The page is there: it is set on the panel created before the await.
PageLoaded(c) ==
  /\ call[c].at = "page" /\ panel = call[c].panel
  /\ bridge' = panel
  /\ listeners' = listeners + 1
  /\ Enter(c, call[c].kind, bridge')
  /\ UNCHANGED <<panel, opened, tick, wire, view, told, upsets>>

\* Setting the page of a panel closed meanwhile throws: the call rejects.
PageOfClosed(c) ==
  /\ call[c].at = "page" /\ panel # call[c].panel
  /\ Step(c, "over")
  /\ UNCHANGED <<panel, opened, bridge, listeners, tick, wire, view, initialSent,
                 told, upsets>>

\* onDidDispose: the bridge is disposed, with its ticker, and forgotten.
ClosePanel ==
  /\ panel # 0 /\ upsets < MaxUpsets
  /\ upsets' = upsets + 1
  /\ tick' = NewTick
  /\ bridge' = 0
  /\ panel' = 0
  /\ listeners' = 0
  /\ wire' = <<>>
  /\ view' = NewView
  /\ told' = None
  /\ UNCHANGED <<opened, call, initialSent>>

----------------------------------------------------------------------------
(* startFileMerge and the session it runs. *)

Keep == UNCHANGED <<panel, opened, bridge, listeners, view>>

\* The workspace root, then the parser configuration are read, and the session
\* counts the lines of the folder.
ReadConfig(c) ==
  /\ call[c].at = "root"
  /\ Step(c, "estimate")
  /\ Keep /\ UNCHANGED <<tick, wire, initialSent, told, upsets>>

\* Of all the folders together, MaxLines lines and MaxBlank blank ones.
Within(c, lines, guess) ==
  \A d \in Calls \ {c} :
    LET size == call[d].left + call[d].emitted
    IN  /\ lines + size <= MaxLines
        /\ call[d].guess > size => guess - lines + call[d].guess - size <= MaxBlank

\* The lines are counted, blank ones included, and the bar opens.
Announce(c, lines, guess) ==
  /\ call[c].at = "estimate" /\ Within(c, lines, guess)
  /\ OnProgress(c, Report(0, 0, guess, TRUE, TRUE))
  /\ call' = [call EXCEPT ![c].at = "warm", ![c].left = lines, ![c].guess = guess]
  /\ Keep /\ UNCHANGED <<wire, initialSent, told, upsets>>

\* Counting failed: the total is unknown.
AnnounceUnknown(c, lines) ==
  /\ call[c].at = "estimate" /\ Within(c, lines, lines) /\ upsets < MaxUpsets
  /\ upsets' = upsets + 1
  /\ OnProgress(c, Report(0, 0, None, TRUE, TRUE))
  /\ call' = [call EXCEPT ![c].at = "warm", ![c].left = lines]
  /\ Keep /\ UNCHANGED <<wire, initialSent, told>>

\* T0 delivers the last page of w lines and counts them as done.
WarmUp(c, w) ==
  /\ call[c].at = "warm" /\ w <= call[c].left
  /\ Post(FirstBatch(w))
  /\ initialSent' = TRUE
  /\ Throttled(c, Report(w, w, call[c].guess, TRUE, FALSE))
  /\ call' = [call EXCEPT ![c].at = "decide", ![c].done = w]
  /\ Keep /\ UNCHANGED upsets

NoWarmUp(c) ==
  /\ call[c].at = "warm"
  /\ Step(c, "decide")
  /\ Keep /\ UNCHANGED <<tick, wire, initialSent, told, upsets>>

\* A report of mergeDirectory, relayed with the increment over the last one.
Relay(c, done, active) ==
  Throttled(c, Report(done - call[c].done, done, call[c].guess, active, FALSE))

\* mergeDirectory reports the total it counted.
Decide(c) ==
  /\ call[c].at = "decide" /\ call[c].guess # None
  /\ IF call[c].guess > 0 THEN Relay(c, call[c].done, TRUE) ELSE UNCHANGED tick
  /\ Step(c, "merge")
  /\ Keep /\ UNCHANGED <<wire, initialSent, told, upsets>>

\* Without a total it warms up for its decision.
PreWarm(c) ==
  /\ call[c].at = "decide" /\ call[c].guess = None
  /\ Post(Staged(c, <<"start">>))
  /\ Step(c, "prewarm")
  /\ Keep /\ UNCHANGED <<tick, initialSent, upsets>>

PreWarmed(c) ==
  /\ call[c].at = "prewarm"
  /\ Post(Staged(c, <<"done">>))
  /\ Step(c, "merge")
  /\ Keep /\ UNCHANGED <<tick, initialSent, upsets>>

\* Memory mode: the report, the stage and its refresh (the warm total), then
\* onFinalize's report and refresh, in one turn.
SkipT1(c) ==
  LET j == call[c]
      total == IF j.guess = None THEN j.left ELSE j.guess
  IN  /\ j.at = "merge"
      /\ OnProgress(c, Report(total - j.done, total, total, FALSE, FALSE))
      /\ Post(Staged(c, <<"done">>) \o Sent(<<TotalMsg(j.done, TRUE), TotalMsg(total, TRUE)>>))
      /\ Step(c, "over")
      /\ Keep /\ UNCHANGED <<initialSent, upsets>>

\* No input file: mergeDirectory returns without a word.
NoFiles(c) ==
  /\ call[c].at = "merge" /\ call[c].left = 0
  /\ Step(c, "store")
  /\ Keep /\ UNCHANGED <<tick, wire, initialSent, told, upsets>>

\* The types are sorted; the k-way merge starts.
SortTypes(c) ==
  /\ call[c].at = "merge"
  /\ Post(Staged(c, <<"done", "start", "start">>))
  /\ Step(c, "emit")
  /\ Keep /\ UNCHANGED <<tick, initialSent, upsets>>

\* A batch: onBatch is called and not awaited, mergeDirectory reports its count.
\* `shown' is whether the batch fills the first window with no warm buffer.
EmitBatch(c, shown) ==
  LET j == call[c]
      emitted == j.emitted + 1
  IN  /\ j.at = "emit" /\ j.left > 0
      /\ shown => j.done = j.emitted
      /\ IF shown THEN Post(FirstBatch(j.guess)) ELSE UNCHANGED <<wire, told>>
      /\ initialSent' = (initialSent \/ shown)
      /\ Relay(c, emitted, TRUE)
      /\ call' = [call EXCEPT ![c].left = @ - 1, ![c].emitted = emitted, ![c].done = emitted,
                              ![c].tasks = @ + 1]
      /\ Keep /\ UNCHANGED upsets

\* One batch less is under way.
Left(j) ==
  LET k == [j EXCEPT !.tasks = @ - 1] IN IF j.at = "over" THEN Ended(k) ELSE k

\* The rest of onBatch: stored, it counts its line (again) and reports.
BatchStored(c) ==
  LET j == call[c]
  IN  /\ j.tasks > 0
      /\ Throttled(c, Report(1, j.done + 1, j.guess, TRUE, FALSE))
      /\ call' = [call EXCEPT ![c] = Left([j EXCEPT !.done = @ + 1])]
      /\ Keep /\ UNCHANGED <<wire, initialSent, told, upsets>>

\* A batch that could not be stored reports nothing.
BatchFails(c) ==
  /\ call[c].tasks > 0 /\ upsets < MaxUpsets
  /\ upsets' = upsets + 1
  /\ call' = [call EXCEPT ![c] = Left(@)]
  /\ Keep /\ UNCHANGED <<tick, wire, initialSent, told>>

\* mergeDirectory is through.
MergeThrough(c) ==
  LET j == call[c]
  IN  /\ j.at = "emit" /\ j.left = 0
      /\ Post(Staged(c, <<"done">>))
      /\ IF j.emitted > 0
           THEN OnProgress(c, Report(j.emitted - j.done, j.emitted, j.guess, FALSE, FALSE))
           ELSE UNCHANGED tick
      /\ call' = [call EXCEPT ![c].at = "store", ![c].done = j.emitted]
      /\ Keep /\ UNCHANGED <<initialSent, upsets>>

\* The end of the session: tail page, report, stage, saved and refresh.
SessionEnds(c, merged) ==
  LET j == call[c]
      total == IF j.guess = None THEN 0 ELSE j.guess
      tail == IF merged > 0 THEN FirstBatch(merged) ELSE <<>>
  IN  /\ j.at = "store"
      /\ merged \in (j.emitted - j.tasks)..j.emitted
      /\ Post(tail \o Staged(c, <<"done">>) \o Sent(<<SavedMsg(total), TotalMsg(merged, FALSE)>>))
      /\ initialSent' = (initialSent \/ merged > 0)
      /\ OnProgress(c, Report(0, merged, total, FALSE, FALSE))
      /\ Step(c, "over")
      /\ Keep /\ UNCHANGED upsets

\* An output directory, a manifest or an input that fails rejects the session.
SessionFails(c) ==
  /\ call[c].at \in {"decide", "merge", "emit", "store"} /\ upsets < MaxUpsets
  /\ upsets' = upsets + 1
  /\ Step(c, "over")
  /\ Keep /\ UNCHANGED <<tick, wire, initialSent, told>>

----------------------------------------------------------------------------
(* The ticker and the viewer. *)

Unsent == TickKey(tick) # tick.sent

\* Variant: the ticker stops on a closing report before it sends it.
TickQuits ==
  /\ tick.timer /\ Unsent /\ Len(wire) < MaxWire
  /\ wire' = IF tick.active THEN Append(wire, ProgressMsg(tick)) ELSE wire
  /\ tick' = [tick EXCEPT !.sent = TickKey(tick), !.inc = 0, !.reset = FALSE,
                          !.timer = tick.active]
  /\ UNCHANGED <<panel, opened, bridge, listeners, view, call, initialSent, told, upsets>>

\* The ticker sends when something changed, and stops after a closing report.
Tick ==
  /\ tick.timer /\ Unsent /\ Len(wire) < MaxWire
  /\ wire' = Append(wire, ProgressMsg(tick))
  /\ tick' = [tick EXCEPT !.sent = TickKey(tick), !.inc = 0, !.reset = FALSE,
                          !.timer = tick.active]
  /\ UNCHANGED <<panel, opened, bridge, listeners, view, call, initialSent, told, upsets>>

\* store.mergeProgress.
Bar(v, m) ==
  LET total == IF m.total = None THEN v.total ELSE m.total
      base  == IF m.reset THEN 0 ELSE v.done
      done  == IF m.done = None THEN base + m.inc ELSE m.done
  IN  [v EXCEPT !.total = total, !.done = done,
                !.open = m.active /\ ~(total > 0 /\ done >= total)]

BarFull(v, total) ==
  Bar(v, [total |-> total, done |-> total, inc |-> 0, reset |-> FALSE, active |-> FALSE])

Rows(v, total) == IF total = None THEN v ELSE [v EXCEPT !.rows = total]

\* Variant: a refresh does not seal the total.
SealLoose(v) == v

\* disallowEstimates.
Seal(v) == [v EXCEPT !.allow = FALSE]

\* An estimate may only raise the total of the rows, while estimates are allowed.
Estimate(v, total) ==
  IF v.allow /\ total # None /\ (v.rows = 0 \/ total > v.rows)
    THEN [v EXCEPT !.rows = total] ELSE v

\* A message arrives.  Every report carries its active flag, so the viewer's
\* gate on late reports (MERGE_ACTIVE) drops none.
Shown(v, m) ==
  CASE m.type = "batch"    -> Seal(Rows(v, m.total))
    [] m.type = "refresh"  -> BarFull(Rows(IF m.warm THEN v ELSE Seal(v), m.total), m.total)
    [] m.type = "saved"    -> BarFull(Rows(Seal(v), m.total), m.total)
    [] m.type = "start"    -> [v EXCEPT !.allow = TRUE]
    [] m.type = "done"     -> Seal(v)
    [] m.type = "progress" -> Estimate(Bar(v, m), m.total)

ViewerShows ==
  /\ wire # <<>>
  /\ view' = Shown(view, Head(wire))
  /\ wire' = Tail(wire)
  /\ UNCHANGED <<panel, opened, bridge, listeners, tick, call, initialSent, told, upsets>>

----------------------------------------------------------------------------
ProgressInit ==
  /\ panel = 0 /\ opened = 0 /\ bridge = 0 /\ listeners = 0
  /\ tick = NewTick
  /\ wire = <<>> /\ view = NewView
  /\ call = [c \in Calls |-> NoCall]
  /\ initialSent = FALSE /\ told = None /\ upsets = 0

Start(c) ==
  \E kind \in {"open", "realtime", "merge"} : EnterOpen(c, kind) \/ CreatePanel(c, kind)

PanelStep(c) == PageLoaded(c) \/ PageOfClosed(c) \/ ReadConfig(c)

MergeStep(c) ==
  \/ \E lines \in 0..MaxLines :
       \/ \E guess \in lines..(lines + MaxBlank) : Announce(c, lines, guess)
       \/ AnnounceUnknown(c, lines)
  \/ \E w \in 1..MaxLines : WarmUp(c, w)
  \/ NoWarmUp(c)
  \/ Decide(c) \/ PreWarm(c) \/ PreWarmed(c)
  \/ SkipT1(c) \/ NoFiles(c)
  \/ SortTypes(c)
  \/ \E shown \in BOOLEAN : EmitBatch(c, shown)
  \/ MergeThrough(c)
  \/ \E merged \in 0..MaxLines : SessionEnds(c, merged)

ProgressNext ==
  \/ \E c \in Calls : Start(c) \/ PanelStep(c) \/ MergeStep(c) \/ SessionFails(c)
                        \/ BatchStored(c) \/ BatchFails(c)
  \/ ClosePanel
  \/ Tick
  \/ ViewerShows

ProgressSpec == ProgressInit /\ [][ProgressNext]_progressVars

\* Intervals fire and messages arrive; awaited calls return.
ProgressFairness ==
  /\ \A c \in Calls : WF_progressVars(PanelStep(c)) /\ WF_progressVars(MergeStep(c))
                        /\ WF_progressVars(BatchStored(c) \/ BatchFails(c))
  /\ WF_progressVars(Tick) /\ WF_progressVars(ViewerShows)

FairProgressSpec == ProgressSpec /\ ProgressFairness

----------------------------------------------------------------------------
\* However opening, closing and reopening interleave with the loading of the
\* page, one bridge at most listens on a panel (two would answer every request
\* twice), and the manager never keeps the bridge of a panel that is gone.
OneBridgePerPanel == listeners <= 1 /\ bridge \in {0, panel}

\* Reports wait for the ticker while refreshes do not: a report held back
\* before a refresh and delivered after it leaves the refreshed total of the
\* rows alone (ALLOW_ESTIMATED_TOTAL), whatever its estimate says.
RefreshedTotalKept == told # None /\ wire = <<>> => view.rows = told

Over == \A c \in Calls : call[c].at \in {"idle", "over"} /\ call[c].tasks = 0

\* When everything is over and the last report of a panel's merges was a
\* closing one, the viewer closes the bar, or the panel is closed.
BarCloses == (bridge # 0 /\ Over /\ ~tick.active) ~> (~view.open \/ panel = 0)
=============================================================================
