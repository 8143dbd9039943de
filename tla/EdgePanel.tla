------------------------------ MODULE EdgePanel ------------------------------
(***************************************************************************)
(* The edge panel: the host side of the view (EdgePanelProvider), the      *)
(* explorer bridge with its watcher and its refresh coalescer, the         *)
(* extension logger that feeds the debug log, and the webview that shows   *)
(* the tree and the log.  Host and webview exchange messages through two   *)
(* queues.  The tree is one folder deep: the coalescer and the tree nodes  *)
(* treat every folder separately and alike.                                *)
(***************************************************************************)
EXTENDS Integers, Sequences, FiniteSets

CONSTANTS Names,      \* files that may be in a workspace folder
          Spaces,     \* workspace folders
          First,      \* the one configured at first
          LogMax,     \* DEBUG_LOG_MEMORY_MAX and LOG_MAX_BUFFER
          MaxEvents,  \* bound on what users and other programs do
          None

ASSUME PanelAssumption ==
  /\ First \in Spaces /\ None \notin Spaces
  /\ LogMax \in Nat \ {0} /\ MaxEvents \in Nat

VARIABLES disk,     \* the files of each workspace folder
          ws,       \* the configured workspace folder
          host,     \* the explorer bridge and the view's handlers
          fs,       \* a create or delete event on its way from the watcher
          logger,   \* extension-logger and the provider's ring buffer
          view,     \* the webview
          toView, toHost,
          lost,     \* history: an event died with a watcher
          events    \* how much has happened

vars == <<disk, ws, host, fs, logger, view, toView, toHost, lost, events>>

NoHost == [alive |-> FALSE, info |-> None, watch |-> None, timer |-> FALSE,
           inflight |-> FALSE, pending |-> FALSE, again |-> 0, reads |-> <<>>,
           resolving |-> 0, posting |-> 0, initing |-> 0, sent |-> FALSE]
NoView == [ready |-> FALSE, root |-> FALSE, items |-> None, explorer |-> TRUE,
           log |-> <<>>]
NoLog == [buffer |-> <<>>, sink |-> FALSE, bound |-> FALSE, next |-> 1,
          flush |-> <<>>,   \* pendingForWebview
          batch |-> <<>>,   \* pending of the sink
          ring |-> <<>>]

Init ==
  /\ disk = [s \in Spaces |-> {}] /\ ws = First
  /\ host = NoHost /\ view = NoView /\ logger = NoLog
  /\ fs = FALSE /\ lost = FALSE /\ events = 0
  /\ toView = <<>> /\ toHost = <<>>

Event == events < MaxEvents /\ events' = events + 1
Capped(s) == IF Len(s) > LogMax THEN SubSeq(s, Len(s) - LogMax + 1, Len(s)) ELSE s
Toggled(S, x) == IF x \in S THEN S \ {x} ELSE S \cup {x}
Post(m) == toView' = Append(toView, m)

(***************************************************************************)
(* The logger.                                                             *)
(***************************************************************************)
(* The sink of the panel: every line goes to the batch and to the ring.    *)
Sunk(l, lines) == [l EXCEPT !.batch = @ \o lines, !.ring = Capped(@ \o lines)]

(* _emit.                                                                  *)
Emit ==
  /\ Event
  /\ logger' = [logger EXCEPT !.buffer = Capped(Append(@, logger.next)),
                              !.next = @ + 1,
                              !.flush = IF logger.sink
                                        THEN Append(@, logger.next) ELSE @]
  /\ UNCHANGED <<disk, ws, host, fs, view, toView, toHost, lost>>

(* The timer of scheduleFlush.                                             *)
LoggerFlush ==
  /\ logger.flush # <<>>
  /\ logger' = [(IF logger.sink THEN Sunk(logger, logger.flush) ELSE logger)
                EXCEPT !.flush = <<>>]
  /\ UNCHANGED <<disk, ws, host, fs, view, toView, toHost, lost, events>>

(* The timer of the sink, 50 ms; a closed view receives nothing.           *)
SinkFlush ==
  /\ logger.batch # <<>>
  /\ logger' = [logger EXCEPT !.batch = <<>>]
  /\ toView' = IF host.alive
               THEN Append(toView, [type |-> "appendLog",
                                    lines |-> logger.batch])
               ELSE toView
  /\ UNCHANGED <<disk, ws, host, fs, view, toHost, lost, events>>

(***************************************************************************)
(* The view is created and closed.                                         *)
(***************************************************************************)
(* The sink is registered once; it is given what the logger has buffered.  *)
ResolveWebviewView ==
  /\ ~host.alive
  /\ host' = [NoHost EXCEPT !.alive = TRUE]
  /\ view' = NoView
  /\ logger' = IF logger.bound THEN logger
               ELSE [Sunk(logger, logger.buffer) EXCEPT !.sink = TRUE,
                                                        !.bound = TRUE]
  /\ toView' = <<>> /\ toHost' = <<>>
  /\ UNCHANGED <<disk, ws, fs, lost, events>>

OnDidDispose ==
  /\ host.alive /\ Event
  /\ host' = NoHost /\ view' = NoView
  /\ logger' = [logger EXCEPT !.sink = FALSE]
  /\ fs' = FALSE /\ toView' = <<>> /\ toHost' = <<>>
  /\ UNCHANGED <<disk, ws, lost>>

(***************************************************************************)
(* The explorer bridge.                                                    *)
(***************************************************************************)
(* ensureInfo: the folder is resolved and the watcher replaced; what the   *)
(* old one had still to say is gone.                                       *)
Ensured(h) == [h EXCEPT !.info = ws, !.watch = ws]

(* list begins; calls are answered in the order in which they are made.    *)
Listing(h, coalesced) ==
  LET g == IF h.info = None THEN Ensured(h) ELSE h
  IN [g EXCEPT !.reads = Append(@, [ws |-> g.info, items |-> None,
                                     coalesced |-> coalesced])]

(* RefreshCoalescer.execute.                                               *)
Execute(h) == IF h.inflight THEN [h EXCEPT !.pending = TRUE]
              ELSE [Listing(h, TRUE) EXCEPT !.inflight = TRUE]

(* RefreshCoalescer.schedule.                                              *)
Schedule(h) == IF h.inflight THEN [h EXCEPT !.pending = TRUE]
               ELSE [h EXCEPT !.timer = TRUE]

(* A file appears or disappears; the watcher of that folder sees it.       *)
Touch(s, n) ==
  /\ disk' = [disk EXCEPT ![s] = Toggled(@, n)]
  /\ fs' = (fs \/ host.watch = s)

DiskChange ==
  /\ Event
  /\ \E s \in Spaces, n \in Names : Touch(s, n)
  /\ UNCHANGED <<ws, host, logger, view, toView, toHost, lost>>

HandleFsEvent ==
  /\ fs
  /\ fs' = FALSE
  /\ host' = Schedule(IF host.info = None THEN Ensured(host) ELSE host)
  /\ UNCHANGED <<disk, ws, logger, view, toView, toHost, lost, events>>

CoalescerTimer ==
  /\ \/ host.timer /\ host' = Execute([host EXCEPT !.timer = FALSE])
     \/ host.again > 0 /\ host' = Execute([host EXCEPT !.again = @ - 1])
  /\ UNCHANGED <<disk, ws, fs, logger, view, toView, toHost, lost, events>>

(* Variant: what was asked for during a listing is not asked again.        *)
FinishedForgets(h) == [h EXCEPT !.inflight = FALSE, !.pending = FALSE]

(* The end of RefreshCoalescer.execute.                                    *)
Finished(h) == [h EXCEPT !.inflight = FALSE, !.pending = FALSE,
                         !.again = IF h.pending THEN @ + 1 ELSE @]

(* readDirectory looks at the folder; list goes on when it has returned.   *)
ListRead ==
  /\ \E i \in DOMAIN host.reads :
       /\ host.reads[i].items = None
       /\ \A j \in 1 .. i - 1 : host.reads[j].items # None
       /\ host' = [host EXCEPT !.reads[i].items = disk[host.reads[i].ws]]
  /\ UNCHANGED <<disk, ws, fs, logger, view, toView, toHost, lost, events>>

ListDone ==
  /\ host.reads # <<>> /\ Head(host.reads).items # None
  /\ LET r == Head(host.reads)
         h == [host EXCEPT !.reads = Tail(@)]
     IN /\ Post([type |-> "list.result", items |-> r.items])
        /\ host' = IF r.coalesced THEN Finished(h) ELSE h
  /\ UNCHANGED <<disk, ws, fs, logger, view, toHost, lost, events>>

(* refreshWorkspaceRoot: forget the folder, resolve it, tell the webview.  *)
RefreshBegin(h) == [h EXCEPT !.info = None, !.resolving = @ + 1]

RefreshResolved ==
  /\ host.resolving > 0
  /\ host' = [Ensured(host) EXCEPT !.resolving = @ - 1, !.posting = @ + 1]
  /\ fs' = FALSE
  /\ UNCHANGED <<disk, ws, logger, view, toView, toHost, lost, events>>

RefreshPost ==
  /\ host.posting > 0
  /\ host' = [host EXCEPT !.posting = @ - 1]
  /\ Post([type |-> "root.changed"])
  /\ UNCHANGED <<disk, ws, fs, logger, view, toHost, lost, events>>

(* cleanup, every five minutes: the watcher is replaced for no reason; an  *)
(* event it had not delivered is lost.                                     *)
Cleanup ==
  /\ Event
  /\ host.info # None
  /\ host' = [host EXCEPT !.watch = host.info]
  /\ fs' = FALSE /\ lost' = (lost \/ fs)
  /\ UNCHANGED <<disk, ws, logger, view, toView, toHost>>

(***************************************************************************)
(* Messages to the host.                                                   *)
(***************************************************************************)
(* sendInitIfNotRecent begins: it may be skipped soon after another.       *)
SendInit(h) == {[h EXCEPT !.initing = @ + 1, !.sent = TRUE]}
               \cup (IF h.sent THEN {h} ELSE {})

(* Variant: the state kept since the view was created is sent.             *)
InitSendOld ==
  /\ host.initing > 0
  /\ Post([type |-> "initState", lines |-> <<>>])
  /\ host' = RefreshBegin([host EXCEPT !.initing = @ - 1])
  /\ UNCHANGED <<disk, ws, fs, logger, view, toHost, lost, events>>

(* The settings are read: the log goes out and the root is refreshed.      *)
InitSend ==
  /\ host.initing > 0
  /\ Post([type |-> "initState", lines |-> logger.ring])
  /\ host' = RefreshBegin([host EXCEPT !.initing = @ - 1])
  /\ UNCHANGED <<disk, ws, fs, logger, view, toHost, lost, events>>

(* createFile, createFolder and remove; what is not there cannot be        *)
(* removed.                                                                *)
ExplorerChange(m) ==
  /\ m.type \in {"explorer.create", "explorer.delete"}
  /\ LET h == IF host.info = None THEN Ensured(host) ELSE host
         there == m.name \in disk[h.info]
     IN /\ host' = h
        /\ IF there = (m.type = "explorer.delete")
           THEN /\ disk' = [disk EXCEPT ![h.info] = Toggled(@, m.name)]
                /\ fs' = TRUE
           ELSE UNCHANGED <<disk, fs>>
        /\ Post([type |-> IF ~there /\ m.type = "explorer.delete"
                         THEN "explorer.error" ELSE "explorer.ok"])
  /\ UNCHANGED logger

(* onDidReceiveMessage.                                                    *)
HostReceives ==
  /\ toHost # <<>>
  /\ toHost' = Tail(toHost)
  /\ LET m == Head(toHost)
     IN \/ /\ m.type = "explorer.list"
           /\ host' = Listing(host, FALSE)
           /\ UNCHANGED <<disk, fs, logger, toView>>
        \/ ExplorerChange(m)
        \/ /\ m.type = "workspace.ensure"
           /\ host' = RefreshBegin(host)
           /\ UNCHANGED <<disk, fs, logger, toView>>
        \/ /\ m.type = "ui.ready"
           /\ host' \in SendInit(host)
           /\ UNCHANGED <<disk, fs, logger, toView>>
        \/ /\ m.type = "debuglog.clear"
           /\ logger' = [logger EXCEPT !.ring = <<>>]
           /\ Post([type |-> "cleared"])
           /\ UNCHANGED <<disk, fs, host>>
  /\ UNCHANGED <<ws, view, lost, events>>

(* The view becomes visible again.                                         *)
OnDidChangeVisibility ==
  /\ host.alive /\ Event
  /\ host' \in SendInit(host)
  /\ UNCHANGED <<disk, ws, fs, logger, view, toView, toHost, lost>>

(* changeWorkspaceQuick, as far as the panel is concerned: nobody is told. *)
WorkspaceChanged ==
  /\ Event
  /\ ws' \in Spaces \ {ws}
  /\ UNCHANGED <<disk, host, fs, logger, view, toView, toHost, lost>>

(***************************************************************************)
(* The webview.                                                            *)
(***************************************************************************)
Ask(m) == toHost' = Append(toHost, m)
AskList == Ask([type |-> "explorer.list"])

Bootstrap ==
  /\ host.alive /\ ~view.ready
  /\ view' = [view EXCEPT !.ready = TRUE]
  /\ Ask([type |-> "ui.ready"])
  /\ UNCHANGED <<disk, ws, host, fs, logger, toView, lost, events>>

FreshRoot == [view EXCEPT !.root = TRUE, !.items = None]

(* Variant: a changed root makes the webview ask for another change.       *)
OnRootChangedEnsures(m) ==
  /\ m.type = "root.changed"
  /\ view' = FreshRoot
  /\ Ask([type |-> "workspace.ensure"])

OnRootChanged(m) ==
  /\ m.type = "root.changed"
  /\ view' = FreshRoot
  /\ AskList

(* The lines and the children the page shows.                              *)
LogReset(v, lines) == [v EXCEPT !.log = lines]
LogAppend(v, lines) == [v EXCEPT !.log = @ \o lines]
RenderChildren(v, items) == [v EXCEPT !.items = items]

OnInitState(m) ==
  /\ m.type = "initState"
  /\ view' = LogReset(FreshRoot, m.lines)
  /\ AskList

OnLog(m) ==
  /\ \/ m.type = "appendLog" /\ view' = LogAppend(view, m.lines)
     \/ m.type = "cleared" /\ view' = LogReset(view, <<>>)
  /\ UNCHANGED toHost

OnListResult(m) ==
  /\ m.type = "list.result"
  /\ view' = IF view.root THEN RenderChildren(view, m.items) ELSE view
  /\ UNCHANGED toHost

OnExplorerOk(m) ==
  /\ \/ m.type = "explorer.ok" /\ AskList
     \/ m.type = "explorer.error" /\ UNCHANGED toHost
  /\ UNCHANGED view

(* Shown again, the explorer asks for the workspace and for its list.      *)
OnToggleExplorer(m) ==
  /\ m.type = "ui.toggleExplorer"
  /\ view' = [view EXCEPT !.explorer = ~@, !.root = @ \/ ~view.explorer]
  /\ toHost' = IF view.explorer THEN toHost
               ELSE toHost \o <<[type |-> "workspace.ensure"],
                                [type |-> "explorer.list"]>>

(* Messages wait until the page is loaded.                                 *)
ViewReceives ==
  /\ toView # <<>> /\ view.ready
  /\ toView' = Tail(toView)
  /\ LET m == Head(toView)
     IN \/ OnRootChanged(m) \/ OnInitState(m) \/ OnLog(m)
        \/ OnListResult(m) \/ OnExplorerOk(m) \/ OnToggleExplorer(m)
  /\ UNCHANGED <<disk, ws, host, fs, logger, lost, events>>

(* The user creates or deletes a file in the tree, clears the log, or      *)
(* presses the button that shows or hides the explorer.                    *)
UserActs ==
  /\ view.ready /\ Event
  /\ \/ /\ view.items # None
        /\ \E n \in Names :
             Ask([type |-> IF n \in view.items THEN "explorer.delete"
                           ELSE "explorer.create", name |-> n])
        /\ UNCHANGED toView
     \/ Ask([type |-> "debuglog.clear"]) /\ UNCHANGED toView
     \/ Post([type |-> "ui.toggleExplorer"]) /\ UNCHANGED toHost
  /\ UNCHANGED <<disk, ws, host, fs, logger, view, lost>>

System ==
  \/ LoggerFlush \/ SinkFlush \/ ResolveWebviewView \/ HandleFsEvent
  \/ CoalescerTimer \/ ListRead \/ ListDone \/ RefreshResolved \/ RefreshPost \/ InitSend
  \/ HostReceives \/ Bootstrap \/ ViewReceives
Environment ==
  \/ Emit \/ OnDidDispose \/ DiskChange \/ Cleanup \/ OnDidChangeVisibility
  \/ WorkspaceChanged \/ UserActs
Next == System \/ Environment

(* Timers fire, awaited calls return and messages arrive.                  *)
Quiet ==
  /\ host.alive /\ view.ready
  /\ ~fs /\ ~host.timer /\ host.again = 0 /\ host.reads = <<>>
  /\ host.resolving = 0 /\ host.posting = 0 /\ host.initing = 0
  /\ toView = <<>> /\ toHost = <<>>
  /\ logger.flush = <<>> /\ logger.batch = <<>>
Fairness == []<>Quiet \/ []<><<System>>_vars
Spec == Init /\ [][Next]_vars /\ Fairness

(***************************************************************************)
(* Properties.                                                             *)
(***************************************************************************)

(* When nothing is on its way any more, the tree shows the folder the      *)
(* bridge works on as it is on disk: no create or delete, by whomever and  *)
(* at whatever point of a refresh, is missed.  The exception is an event   *)
(* that the periodic replacement of the watcher has lost.                  *)
TreeShowsDisk ==
  Quiet /\ ~lost => host.info # None /\ view.items = disk[host.info]

(* When nothing is on its way any more, the debug log shows every line of  *)
(* the ring buffer, the newest last; as long as the sink is registered.    *)
LogShowsRing ==
  Quiet /\ logger.sink =>
    /\ \A i \in DOMAIN logger.ring : \E k \in DOMAIN view.log : view.log[k] = logger.ring[i]
    /\ logger.ring # <<>> => view.log[Len(view.log)] = logger.ring[Len(logger.ring)]

(* The panel comes to rest once nothing happens any more: refreshes,       *)
(* listings and messages do not set each other off for ever.               *)
PanelSettles == <>[]Quiet
=============================================================================
