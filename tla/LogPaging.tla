------------------------------ MODULE LogPaging ------------------------------
(***************************************************************************)
(* The pagination service, the host bridge and the log viewer while one    *)
(* file-merge session runs.  The handlers of the bridge are asynchronous   *)
(* and nobody awaits them: each runs from one await to the next, and       *)
(* between two awaits of a handler the session may replace the reader and  *)
(* another handler may set the filter.  The viewer tells answers of an     *)
(* older data set by the pagination version.                               *)
(*                                                                         *)
(* Rows and totals are abstracted to the views they were taken from; what  *)
(* a view contains is the matter of Paging.                                *)
(***************************************************************************)
EXTENDS Integers, Sequences

CONSTANTS
  Filters,     \* the filters the user may apply
  NoFilter,    \* null
  Handlers,    \* bound: how many bridge handlers are in flight at once
  Main,        \* the session's own read of the last page
  Windows,     \* bound: windows of a filtered scan
  MaxInputs,   \* bound: how often the user applies a filter or scrolls
  MaxOpens,    \* bound: how many batches open the manifest
  MaxFaults,   \* bound: how many opens of the manifest fail
  LateOpen     \* whether a batch may open it when the merge is over

ASSUME LogPagingAssumption ==
  /\ NoFilter \notin Filters /\ Main \notin Handlers
  /\ Windows \in Nat \ {0}
  /\ MaxInputs \in Nat /\ MaxOpens \in Nat /\ MaxFaults \in Nat
  /\ LateOpen \in BOOLEAN

VARIABLES
  svc,      \* PaginationService: version, dir, warm, reader, filter, cache
  session,  \* the session's main path, the opens its batches wait for,
            \* paginationOpened, initialSent
  job,      \* the handlers in flight
  kicked,   \* kickedOnce of the bridge
  toHost,   \* messages from the viewer
  toView,   \* messages to the viewer
  viewer,   \* CURRENT_SESSION_VERSION, rows, totalRows, and the filter gate
  budget,   \* what is left of the bounds
  named     \* history: named[v] is the view that version v stands for

vars == <<svc, session, job, kicked, toHost, toView, viewer, budget, named>>

-----------------------------------------------------------------------------
(* PaginationService *)

(* A reader is 0 (none), 1 (of a manifest saved during the merge) or 2 (of *)
(* the final one).  In warm mode the reader does not matter.               *)
View(warm, reader, filter) ==
  [warm |-> warm, reader |-> IF warm THEN 0 ELSE reader, filter |-> filter]

ViewOf(s) == View(s.warm, s.reader, s.filter)

(* Rows the session sends as it merges them, before any view exists. *)
Stream == [warm |-> FALSE, reader |-> -1, filter |-> NoFilter]

Key(s) == [filter |-> s.filter, version |-> s.version, warm |-> s.warm]

Bump(s) == [s EXCEPT !.version = @ + 1]
Invalidate(s) == [s EXCEPT !.cache = {}]

(* Variant: a new filter does not change the version. *)
SetFilterNoBump(s, f) ==
  IF f = s.filter THEN s ELSE Invalidate([s EXCEPT !.filter = f])

SetFilter(s, f) ==
  IF f = s.filter THEN s ELSE Bump(Invalidate([s EXCEPT !.filter = f]))

SeedWarmup(s) == Bump([s EXCEPT !.warm = TRUE])
ClearWarmup(s) == IF s.warm THEN Bump([s EXCEPT !.warm = FALSE]) ELSE s
Install(s, reader) == Bump(Invalidate([s EXCEPT !.reader = reader, !.dir = TRUE]))

(* Variant: the key is taken when the scan is over. *)
StoreLateKey(s, key, total) == [s EXCEPT !.cache = {[key |-> Key(s), total |-> total]}]

(* getFilteredTotal stores its result under the key taken at its start. *)
Store(s, key, total) == [s EXCEPT !.cache = {[key |-> key, total |-> total]}]

Cached(s) == {c \in s.cache : c.key = Key(s)}

SvcBecomes(s) ==
  /\ svc' = s
  /\ named' = IF s.version = svc.version THEN named ELSE Append(named, ViewOf(s))

-----------------------------------------------------------------------------
(* A handler in flight: what it is, the await it is in, the scan's         *)
(* remaining windows, the reader of the window being read, whether the     *)
(* filter is applied, the views the scan saw, and what it keeps.           *)
Idle == [kind |-> "idle"]

NewJob(kind, at, warm, key, total) ==
  [kind |-> kind, at |-> at, left |-> 0, reader |-> 0, match |-> FALSE,
   seen |-> {}, warm |-> warm, key |-> key, total |-> total]

(* readRangeByIdx: in memory, or from the reader over one or more awaits. *)
BeginRead(s, j) ==
  LET filtered == s.filter # NoFilter
  IN  IF s.warm \/ s.reader = 0
      THEN [j EXCEPT !.at = "read", !.left = 0, !.seen = {ViewOf(s)}]
      ELSE [j EXCEPT !.at = "read", !.left = IF filtered THEN Windows ELSE 1,
                     !.reader = s.reader, !.match = filtered, !.seen = {}]

(* getFilteredTotal, up to its first await. *)
BeginTotal(s, j) ==
  LET known == [j EXCEPT !.at = "total", !.left = 0, !.key = Key(s)]
  IN  IF s.filter # NoFilter /\ Cached(s) # {}
      THEN [known EXCEPT !.total = (CHOOSE c \in Cached(s) : TRUE).total]
      ELSE IF s.filter = NoFilter \/ s.warm \/ s.reader = 0
           THEN [known EXCEPT !.total = {ViewOf(s)}]
           ELSE [known EXCEPT !.left = Windows, !.reader = s.reader, !.match = TRUE, !.seen = {}]

(* What the first stretch of getFilteredTotal leaves in the cache. *)
CacheWarm(s) ==
  IF s.filter # NoFilter /\ s.warm /\ Cached(s) = {} THEN Store(s, Key(s), {ViewOf(s)}) ELSE s

(* An await of something that is there already lets no other event in: the *)
(* event loop runs the continuations first.  So a handler whose read is    *)
(* over, and the session where it waits for nothing, go on at once.        *)
Running ==
  \/ \E h \in DOMAIN job : job[h] # Idle /\ job[h].left = 0
  \/ session.main \in {"deliver", "reload", "tail"}

(* A window of the reader that was current when the read was issued is     *)
(* matched against the filter that is current now.                         *)
SeenNow(j) == View(FALSE, j.reader, IF j.match THEN svc.filter ELSE NoFilter)

ScanWindow(h) ==
  /\ ~Running
  /\ job[h].kind # "idle" /\ job[h].left > 0
  /\ \E rest \in {job[h].left - 1} \cup (IF job[h].at = "read" THEN {0} ELSE {}) :
       LET seen == job[h].seen \cup {SeenNow(job[h])}
           scanned == [job[h] EXCEPT !.left = rest, !.seen = seen, !.reader = svc.reader]
       IN  IF rest = 0 /\ job[h].at = "total"
           THEN /\ job' = [job EXCEPT ![h] = [scanned EXCEPT !.total = seen]]
                /\ SvcBecomes(Store(svc, job[h].key, seen))
           ELSE /\ job' = [job EXCEPT ![h] = scanned]
                /\ UNCHANGED <<svc, named>>
  /\ UNCHANGED <<session, kicked, toHost, toView, viewer, budget>>

-----------------------------------------------------------------------------
(* Messages to the viewer *)
Message(type, from, rows, total, version) ==
  [type |-> type, from |-> from, rows |-> rows, total |-> total, version |-> version]

Batch(from, rows, total) == Message("batch", from, rows, total, svc.version)

StateMsg(total) == Message("state", "bridge", {}, total, svc.version)
RefreshMsg(from, total, version) == Message("refresh", from, {}, total, version)
Response(rows) == Message("response", "bridge", rows, {}, svc.version)

Send(msgs) == toView' = toView \o msgs

(* Bridge: a message starts a handler, which runs up to its first await. *)
Receive(h) ==
  /\ ~Running
  /\ toHost # <<>> /\ job[h] = Idle
  /\ LET m == Head(toHost)
         blank(kind) == NewJob(kind, "read", svc.warm, Key(svc), {})
         set == SetFilter(svc, m.filter)
     IN  \/ /\ m.type = "page"
            /\ job' = [job EXCEPT ![h] = BeginRead(svc, blank("page"))]
            /\ UNCHANGED <<svc, named>>
         \/ /\ m.type = "filter"
            /\ job' = [job EXCEPT ![h] = BeginTotal(set, blank("filter"))]
            /\ SvcBecomes(CacheWarm(set))
         \/ /\ m.type = "ready"
            /\ job' = [job EXCEPT ![h] = BeginTotal(svc, blank("kick"))]
            /\ SvcBecomes(CacheWarm(svc))
  /\ toHost' = Tail(toHost)
  /\ UNCHANGED <<session, kicked, toView, viewer, budget>>

(* logs.page.request, after its await. *)
AnswerPage(h) ==
  /\ job[h].kind = "page" /\ job[h].left = 0
  /\ Send(<<Response(job[h].seen)>>)
  /\ job' = [job EXCEPT ![h] = Idle]
  /\ UNCHANGED <<svc, session, kicked, toHost, viewer, budget, named>>

(* logs.filter.set reads the last page once it has the total, ... *)
FilterHead(h) ==
  /\ job[h].kind = "filter" /\ job[h].at = "total" /\ job[h].left = 0
  /\ job' = [job EXCEPT ![h] = BeginRead(svc, @)]
  /\ UNCHANGED <<svc, session, kicked, toHost, toView, viewer, budget, named>>

(* ... and announces both, or, when nothing matches, an empty page. *)
AnswerFilter(h) ==
  LET j == job[h]
      Announce(rows) == Send(<<Batch("bridge", rows, j.total), StateMsg(j.total),
                               RefreshMsg("bridge", j.total, svc.version)>>)
  IN  /\ j.kind = "filter" /\ j.left = 0
      /\ \/ j.at = "read" /\ Announce(j.seen)
         \/ j.at = "total" /\ Announce({})
      /\ job' = [job EXCEPT ![h] = Idle]
      /\ UNCHANGED <<svc, session, kicked, toHost, viewer, budget, named>>

(* kickIfReady, after its await: one refresh per bridge. *)
AnswerKick(h) ==
  LET j == job[h]
      start == ~kicked /\ (j.warm \/ svc.dir)
  IN  /\ j.kind = "kick" /\ j.left = 0
      /\ Send(<<StateMsg(j.total)>>
                \o (IF start THEN <<RefreshMsg("bridge", j.total, svc.version)>> ELSE <<>>))
      /\ kicked' = (kicked \/ start)
      /\ job' = [job EXCEPT ![h] = Idle]
      /\ UNCHANGED <<svc, session, toHost, viewer, budget, named>>

-----------------------------------------------------------------------------
(* The file-merge session, as far as the service and the viewer see it.    *)
(* The steps that start without an await before them are DeliverWarm,      *)
(* Reload, ReadTail and Finish.                                            *)
Goto(at) == session' = [session EXCEPT !.main = at]
Quiet == UNCHANGED <<job, kicked, toHost, viewer, budget>>

WarmView == View(TRUE, 0, NoFilter)

(* T0 finds lines, seeds the warm buffer and reads its last page, ... *)
SeedWarm ==
  /\ ~Running
  /\ session.main = "warmup"
  /\ SvcBecomes(SeedWarmup(svc))
  /\ session' = [session EXCEPT !.main = "deliver", !.page = {ViewOf(SeedWarmup(svc))}]
  /\ Quiet /\ UNCHANGED toView

(* ... or finds none, or fails. *)
NoWarmup ==
  /\ ~Running
  /\ session.main = "warmup"
  /\ Goto("decide")
  /\ Quiet /\ UNCHANGED <<toView, svc, named>>

(* The page is sent unless a filter leaves it empty. *)
DeliverWarm ==
  /\ session.main = "deliver"
  /\ \/ /\ Send(<<Batch("session", session.page, {WarmView})>>)
        /\ session' = [session EXCEPT !.main = "decide", !.initialSent = TRUE, !.page = {}]
     \/ /\ \E view \in session.page : view.filter # NoFilter
        /\ session' = [session EXCEPT !.main = "decide", !.page = {}]
        /\ UNCHANGED toView
  /\ Quiet /\ UNCHANGED <<svc, named>>

(* mergeDirectory skips the merge: the stage text sends a refresh, the     *)
(* buffer is seeded if it is not yet, and onFinalize sends a refresh.      *)
FinishInMemory ==
  /\ ~Running
  /\ session.main = "decide"
  /\ \E s \in {svc} \cup (IF svc.warm THEN {} ELSE {SeedWarmup(svc)}) :
       /\ SvcBecomes(s)
       /\ Send(<<RefreshMsg("session", {WarmView}, svc.version),
                 RefreshMsg("session", {WarmView}, s.version)>>)
  /\ Goto("done")
  /\ Quiet

MergeFiles ==
  /\ ~Running
  /\ session.main = "decide"
  /\ Goto("merge")
  /\ Quiet /\ UNCHANGED <<toView, svc, named>>

(* Without a warm buffer the first merged lines are sent as they are. *)
StreamInitial ==
  /\ ~Running
  /\ session.main = "merge" /\ ~svc.warm /\ ~session.initialSent
  /\ Send(<<Batch("session", {Stream}, {Stream})>>)
  /\ session' = [session EXCEPT !.initialSent = TRUE]
  /\ Quiet /\ UNCHANGED <<svc, named>>

(* A batch has saved the first part and opens the manifest.  Nobody awaits *)
(* it, and the guard is set only afterwards, so another batch may pass it. *)
OpenEarly ==
  /\ ~Running
  /\ session.main \in {"merge"} \cup (IF LateOpen THEN {"merged", "open"} ELSE {})
  /\ ~session.opened /\ budget.opens > 0
  /\ session' = [session EXCEPT !.opening = @ + 1]
  /\ budget' = [budget EXCEPT !.opens = @ - 1]
  /\ UNCHANGED <<job, kicked, toHost, viewer, toView, svc, named>>

OpenedEarly ==
  /\ ~Running
  /\ session.opening > 0
  /\ \E reader \in {1} \cup (IF session.main = "merge" THEN {} ELSE {2}) :
       SvcBecomes(Install(svc, reader))
  /\ session' = [session EXCEPT !.opening = @ - 1, !.opened = TRUE]
  /\ Quiet /\ UNCHANGED toView

Fault ==
  /\ budget.faults > 0
  /\ budget' = [budget EXCEPT !.faults = @ - 1]
  /\ UNCHANGED <<job, kicked, toHost, toView, viewer, svc, named>>

OpenEarlyFails ==
  /\ ~Running
  /\ session.opening > 0
  /\ session' = [session EXCEPT !.opening = @ - 1, !.opened = TRUE]
  /\ Fault

MergeOver ==
  /\ ~Running
  /\ session.main = "merge"
  /\ LateOpen \/ session.opening = 0
  /\ Goto("merged")
  /\ Quiet /\ UNCHANGED <<toView, svc, named>>

(* The manifest is opened if no batch has done so. *)
FinalOpen ==
  /\ ~Running
  /\ session.main = "merged"
  /\ Goto(IF session.opened THEN "reload" ELSE "open")
  /\ Quiet /\ UNCHANGED <<toView, svc, named>>

FinalOpened ==
  /\ ~Running
  /\ session.main = "open"
  /\ SvcBecomes(Install(svc, 2))
  /\ session' = [session EXCEPT !.main = "reload", !.opened = TRUE]
  /\ Quiet /\ UNCHANGED toView

(* reload leaves warm mode before it opens the manifest; it does nothing   *)
(* when no directory is set.                                               *)
Reload ==
  /\ session.main = "reload"
  /\ SvcBecomes(IF svc.dir THEN ClearWarmup(svc) ELSE svc)
  /\ Goto(IF svc.dir THEN "reloading" ELSE "tail")
  /\ Quiet /\ UNCHANGED toView

Reloaded ==
  /\ ~Running
  /\ session.main = "reloading"
  /\ SvcBecomes(Install(svc, 2))
  /\ Goto("tail")
  /\ Quiet /\ UNCHANGED toView

FinalOpenFails ==
  /\ ~Running
  /\ session.main \in {"open", "reloading"}
  /\ Goto("tail")
  /\ Fault

ReadTail ==
  /\ session.main = "tail"
  /\ job' = [job EXCEPT ![Main] = BeginRead(svc, NewJob("tail", "read", svc.warm, Key(svc), {}))]
  /\ Goto("finish")
  /\ UNCHANGED <<kicked, toHost, toView, viewer, budget, svc, named>>

(* Variant: the session ends without the hard refresh. *)
FinishNoRefresh ==
  /\ session.main = "finish" /\ job[Main].left = 0
  /\ job' = [job EXCEPT ![Main] = Idle]
  /\ Goto("done")
  /\ UNCHANGED <<kicked, toHost, toView, viewer, budget, svc, named>>

(* The last page is sent if no page was, then the saved notice with the    *)
(* estimated total, then the refresh with the merged total.                *)
Finish ==
  LET merged == {View(FALSE, 2, NoFilter)}
  IN  /\ session.main = "finish" /\ job[Main].left = 0
      /\ \E sent \in {<<>>} \cup
                     (IF session.initialSent THEN {}
                      ELSE {<<Batch("session", job[Main].seen, merged)>>}) :
           Send(sent \o <<Message("saved", "session", {}, {Stream}, svc.version),
                          RefreshMsg("session", merged, svc.version)>>)
      /\ job' = [job EXCEPT ![Main] = Idle]
      /\ Goto("done")
      /\ UNCHANGED <<kicked, toHost, viewer, budget, svc, named>>

-----------------------------------------------------------------------------
(* The viewer *)
PageMsg == [type |-> "page", filter |-> NoFilter]
FilterMsg(f) == [type |-> "filter", filter |-> f]
ReadyMsg == [type |-> "ready", filter |-> NoFilter]

(* Variant: the filter that waited is forgotten. *)
HeldBackForgotten(v) == <<>>

(* setReadyForFilter sends the filter that was held back. *)
HeldBack(v) ==
  IF v.ready \/ v.pending = {} THEN <<>>
  ELSE <<FilterMsg(CHOOSE f \in v.pending : TRUE)>>

Readied(v) == [v EXCEPT !.ready = TRUE, !.pending = {}]

ViewerReceive ==
  /\ toView # <<>>
  /\ LET m == Head(toView)
         known == [Readied(viewer) EXCEPT !.cur = m.version, !.total = m.total]
         stale == viewer.cur # -1 /\ m.version # viewer.cur
     IN  \/ /\ m.type = "state"
            /\ viewer' = known
            /\ toHost' = toHost \o HeldBack(viewer)
         \/ /\ m.type = "batch"
            /\ viewer' = [known EXCEPT !.rows = m.rows]
            /\ toHost' = toHost \o HeldBack(viewer)
         \/ /\ m.type = "refresh"
            /\ viewer' = [known EXCEPT !.rows = {}]
            /\ toHost' = toHost \o HeldBack(viewer) \o <<PageMsg>>
         \/ /\ m.type = "saved"
            /\ viewer' = [viewer EXCEPT !.total = m.total]
            /\ UNCHANGED toHost
         \/ /\ m.type = "response" /\ ~stale
            /\ viewer' = [viewer EXCEPT !.cur = m.version, !.rows = m.rows]
            /\ UNCHANGED toHost
         \/ /\ m.type = "response" /\ stale
            /\ UNCHANGED <<viewer, toHost>>
  /\ toView' = Tail(toView)
  /\ UNCHANGED <<svc, session, job, kicked, budget, named>>

(* applyFilter and resetFilters *)
ApplyFilter(f) ==
  /\ budget.inputs > 0
  /\ budget' = [budget EXCEPT !.inputs = @ - 1]
  /\ viewer' = [viewer EXCEPT !.want = f, !.pending = IF viewer.ready THEN {} ELSE {f}]
  /\ toHost' = IF viewer.ready THEN Append(toHost, FilterMsg(f)) ELSE toHost
  /\ UNCHANGED <<svc, session, job, kicked, toView, named>>

Scroll ==
  /\ budget.inputs > 0
  /\ budget' = [budget EXCEPT !.inputs = @ - 1]
  /\ toHost' = Append(toHost, PageMsg)
  /\ UNCHANGED <<svc, session, job, kicked, toView, viewer, named>>

-----------------------------------------------------------------------------
(* The panel is new.  The kick of the bridge's first tick is over, as the  *)
(* session reads its configuration before it does anything here; the one   *)
(* for the viewer's ready message is to come.                              *)
Init ==
  /\ svc = [version |-> 0, dir |-> FALSE, warm |-> FALSE, reader |-> 0,
            filter |-> NoFilter, cache |-> {}]
  /\ named = <<ViewOf(svc)>>
  /\ session = [main |-> "warmup", opening |-> 0, opened |-> FALSE,
                initialSent |-> FALSE, page |-> {}]
  /\ job = [h \in Handlers \cup {Main} |-> Idle]
  /\ kicked = FALSE
  /\ toHost = <<ReadyMsg>>
  /\ toView = <<StateMsg({ViewOf(svc)})>>
  /\ viewer = [cur |-> -1, rows |-> {}, total |-> {}, ready |-> FALSE, pending |-> {},
               want |-> NoFilter]
  /\ budget = [inputs |-> MaxInputs, opens |-> MaxOpens, faults |-> MaxFaults]

SessionStep ==
  \/ SeedWarm \/ NoWarmup \/ DeliverWarm \/ FinishInMemory \/ MergeFiles \/ StreamInitial
  \/ OpenEarly \/ OpenedEarly \/ OpenEarlyFails \/ MergeOver
  \/ FinalOpen \/ FinalOpened \/ Reload \/ Reloaded \/ FinalOpenFails \/ ReadTail \/ Finish

BridgeStep(h) ==
  Receive(h) \/ AnswerPage(h) \/ FilterHead(h) \/ AnswerFilter(h) \/ AnswerKick(h)

UserStep == Scroll \/ \E f \in Filters \cup {NoFilter} : ApplyFilter(f)

Settled ==
  /\ session.main = "done" /\ session.opening = 0
  /\ \A h \in DOMAIN job : job[h] = Idle
  /\ toHost = <<>> /\ toView = <<>>

Rest == Settled /\ UNCHANGED vars

Next ==
  \/ SessionStep
  \/ \E h \in Handlers : BridgeStep(h)
  \/ \E h \in DOMAIN job : ScanWindow(h)
  \/ ViewerReceive \/ UserStep \/ Rest

(* The session, the reads and both message loops go on; the user need do   *)
(* nothing.                                                                *)
Fairness ==
  /\ WF_vars(SessionStep)
  /\ WF_vars(\E h \in Handlers : BridgeStep(h))
  /\ WF_vars(\E h \in DOMAIN job : ScanWindow(h))
  /\ WF_vars(ViewerReceive)

Spec == Init /\ [][Next]_vars
FairSpec == Spec /\ Fairness

-----------------------------------------------------------------------------
(* A version stands for one view: whatever the session and the handlers    *)
(* change of the warm mode, the reader or the filter, the version changes  *)
(* with it (bump of PaginationService), so equal versions mean equal rows. *)
VersionNamesView ==
  /\ Len(named) = svc.version + 1
  /\ named[Len(named)] = ViewOf(svc)

(* A total that getFilteredTotal may take from its cache was counted in    *)
(* the view that is current, although a scan that was overtaken by a new   *)
(* filter or a reload stores its mixed count when it ends.                 *)
CacheFresh == \A c \in Cached(svc) : c.total = {ViewOf(svc)}

(* When all is quiet the service has the filter the user chose last, also  *)
(* if it was chosen before the viewer might send one.                      *)
FilterNotLost == Settled => svc.filter = viewer.want

(* The viewer's version agrees with the service's in the end, for good. *)
ViewerCatchesUp == <>[](viewer.cur = svc.version)

=============================================================================
