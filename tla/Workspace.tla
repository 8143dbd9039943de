------------------------------ MODULE Workspace ------------------------------
(***************************************************************************)
(* What the extension keeps on disk outside the logs: config.json of the   *)
(* extension with the chosen workspace folder, and in each workspace       *)
(* folder .config with the user's parser rules, the service configuration  *)
(* and the saved connections.  Activation, the buttons that change or      *)
(* initialise the workspace, the explorer, the panel's saves and the       *)
(* connect dialog all read and write these files, none under a lock; every *)
(* stretch between two awaits is a step, and the window may be closed at   *)
(* any point.                                                              *)
(***************************************************************************)
EXTENDS Integers, Sequences

CONSTANTS Folders, Default,   \* workspace folders; the one used at first
          Ids,                \* connections
          MaxConnections,     \* MAX_CONNECTIONS
          MaxOps,             \* bound on what the user starts
          MaxFaults,          \* bound on failing file operations
          None

ASSUME WorkspaceAssumption ==
  /\ Default \in Folders /\ None \notin Folders
  /\ None \notin Ids /\ "broken" \notin Ids /\ None # "broken"
  /\ MaxConnections \in Nat \ {0}
  /\ MaxOps \in Nat /\ MaxFaults \in Nat

VARIABLES config,   \* config.json: workspace_dir and the saved settings
          dir,      \* .config and raw of each workspace folder
          conn,     \* connection_config.json of each workspace folder
          cache,    \* CommandHandlersWorkspace.workspaceInfoCache
          active,   \* ConnectionManager.active
          proc,     \* the operations in progress
          ops, faults

vars == <<config, dir, conn, cache, active, proc, ops, faults>>

(* A configuration file is absent ("none"), the template of the extension  *)
(* ("template"), or the template as the user has changed it ("custom").    *)
NoConn == [list |-> <<>>, recent |-> None]
Broken == [NoConn EXCEPT !.recent = "broken"]   \* a file half written
Bare == [exists |-> FALSE, parser |-> "none", user |-> "none", raw |-> FALSE]

Saves == {"panel", "prefs"}
Procs == {"activate", "change", "init", "scaffold", "connect", "recent"}
         \cup Saves
Idle == [at |-> "idle", ws |-> None, to |-> None, copy |-> None,
         seen |-> FALSE, old |-> FALSE,
         dirty |-> FALSE, fresh |-> FALSE, own |-> FALSE]  \* history
Active(p) == proc[p].at # "idle"
At(p, step) == proc[p].at = step

(* What earlier sessions may have left: a full list of connections.        *)
Connections ==
  {NoConn} \cup
  {[list |-> [i \in DOMAIN s |-> [id |-> s[i], used |-> Len(s) + 1 - i]],
    recent |-> s[1]] :
     s \in {t \in [1 .. MaxConnections -> Ids] :
              \A i, j \in DOMAIN t : i # j => t[i] # t[j]}}

Init ==
  /\ config = [ws |-> Default, panel |-> 0, prefs |-> 0]
  /\ \E u \in {"none", "custom"}, c \in Connections :
       /\ dir = [f \in Folders |->
                  IF f = Default
                  THEN [exists |-> u # "none" \/ c # NoConn, parser |-> u,
                        user |-> u, raw |-> TRUE]
                  ELSE Bare]
       /\ conn = [f \in Folders |-> IF f = Default THEN c ELSE NoConn]
  /\ cache = None /\ active = None
  /\ proc = [p \in Procs |-> IF p = "activate" THEN [Idle EXCEPT !.at = "raw"]
                             ELSE Idle]
  /\ ops = 0 /\ faults = 0

(* resolveWorkspaceInfo, and the copy of its answer that the handlers of   *)
(* the workspace buttons keep for 30 seconds.                              *)
Resolve == config.ws
CachedFolder == IF cache = None THEN Resolve ELSE cache

(* A step of p that moves it to r.                                         *)
Move(p, r) == proc' = [proc EXCEPT ![p] = r]
To(p, step) == [proc[p] EXCEPT !.at = step]
Begin(p, r) ==
  /\ ~Active(p) /\ ~Active("activate") /\ ops < MaxOps
  /\ ops' = ops + 1
  /\ Move(p, r)

(* writeFile, after createDirectory.                                       *)
Written(f, name, content) ==
  dir' = [dir EXCEPT ![f][name] = content, ![f].exists = TRUE]
Fails == faults < MaxFaults /\ faults' = faults + 1
Works == UNCHANGED faults

(* writeJson on config.json, by p; a copy of it that another operation     *)
(* holds is out of date from then on.                                      *)
WriteConfig(p, c) ==
  /\ config' = c
  /\ proc' = [q \in Procs |->
                IF q = p THEN To(p, IF p = "change" THEN "next" ELSE "idle")
                ELSE IF At(q, "write") THEN [proc[q] EXCEPT !.dirty = TRUE]
                ELSE proc[q]]

(***************************************************************************)
(* activate: the raw folder goes, missing files are seeded.  The panel is  *)
(* only registered afterwards.                                             *)
(***************************************************************************)
ActivateRaw ==
  /\ At("activate", "raw")
  /\ dir' = [dir EXCEPT ![Resolve].raw = FALSE]
  /\ Move("activate", To("activate", "parser"))
  /\ UNCHANGED <<config, conn, cache, active, ops, faults>>

(* A file that is missing is written from its template.                    *)
SeedFile(name) ==
  /\ IF dir[Resolve][name] = "none" THEN Written(Resolve, name, "template")
     ELSE UNCHANGED dir
  /\ UNCHANGED <<config, conn, cache, active, ops, faults>>
ensureParserConfigExists(p, next) == SeedFile("parser") /\ Move(p, next)
ensureUserConfigExists(p, next) == SeedFile("user") /\ Move(p, next)

ActivateSeed ==
  \/ /\ At("activate", "parser")
     /\ ensureParserConfigExists("activate", To("activate", "user"))
  \/ /\ At("activate", "user")
     /\ ensureUserConfigExists("activate", Idle)

(***************************************************************************)
(* changeWorkspaceQuick.                                                   *)
(***************************************************************************)
(* The folder before the change, possibly from the cache, and the folder   *)
(* the user picks.                                                         *)
ChangePick(f) ==
  /\ Begin("change", [Idle EXCEPT !.at = "read", !.to = f,
                        !.fresh = ~dir[f].exists,
                        !.ws = CachedFolder])
  /\ cache' = CachedFolder
  /\ UNCHANGED <<config, dir, conn, active, faults>>

(* changeWorkspaceBaseDir: read, then write the whole file.                *)
ReadConfig(p) ==
  /\ At(p, "read")
  /\ Move(p, [To(p, "write") EXCEPT !.copy = config])
  /\ UNCHANGED <<config, dir, conn, cache, active, ops, faults>>

ChangeWrite ==
  /\ At("change", "write")
  /\ LET r == proc["change"]
     IN WriteConfig("change", [r.copy EXCEPT !.ws = r.to])
  /\ UNCHANGED <<dir, conn, cache, active, ops, faults>>

(* The cache is dropped, the folder is resolved again and its raw removed. *)
ChangeNext ==
  /\ At("change", "next")
  /\ cache' = Resolve
  /\ dir' = [dir EXCEPT ![Resolve].raw = FALSE]
  /\ Move("change", [To("change", "userStat") EXCEPT !.to = Resolve])
  /\ UNCHANGED <<config, conn, active, ops, faults>>

(* migrateUserConfigIfNeeded: an existing file stays.                      *)
ChangeUserStat ==
  /\ At("change", "userStat")
  /\ LET f == proc["change"].to
     IN Move("change", [To("change", IF dir[f].user = "none" THEN "userCopy"
                                     ELSE "parserStat") EXCEPT
                          !.own = dir[f].user # "none"])
  /\ UNCHANGED <<config, dir, conn, cache, active, ops, faults>>

(* Variant: the service configuration starts from the template.            *)
ChangeUserCopyTemplate ==
  /\ At("change", "userCopy") /\ Works
  /\ Written(proc["change"].to, "user", "template")
  /\ Move("change", To("change", "parserStat"))
  /\ UNCHANGED <<config, conn, cache, active, ops>>

(* The old file is copied; the template takes its place when there is none *)
(* or when copying failed.                                                 *)
ChangeUserCopy ==
  /\ At("change", "userCopy")
  /\ LET from == dir[proc["change"].ws].user
     IN \/ /\ Works
           /\ Written(proc["change"].to, "user",
                      IF from = "none" THEN "template" ELSE from)
        \/ Fails /\ Written(proc["change"].to, "user", "template")
        \/ Fails /\ UNCHANGED dir
  /\ Move("change", To("change", "parserStat"))
  /\ UNCHANGED <<config, conn, cache, active, ops>>

(* migrateParserConfigIfNeeded: whether the two .config folders exist; the *)
(* new one is created.                                                     *)
ChangeParserStat ==
  /\ At("change", "parserStat")
  /\ LET r == proc["change"]
     IN /\ Move("change", [To("change", "copy") EXCEPT
                             !.seen = dir[r.to].exists,
                             !.old = dir[r.ws].exists])
        /\ dir' = [dir EXCEPT ![r.to].exists = TRUE]
  /\ UNCHANGED <<config, conn, cache, active, ops, faults>>

copyDir(from, to) ==
  /\ dir' = [dir EXCEPT ![to].parser = dir[from].parser,
                        ![to].user = dir[from].user]
  /\ conn' = [conn EXCEPT ![to] = conn[from]]

(* The folder is copied, or the template written, only if .config was not  *)
(* there; an error ends the migration before anything is removed.          *)
ChangeCopy ==
  /\ At("change", "copy")
  /\ LET r == proc["change"]
     IN \/ /\ Works
           /\ IF r.seen THEN UNCHANGED <<dir, conn>>
              ELSE IF r.old
              THEN copyDir(r.ws, r.to)
              ELSE Written(r.to, "parser", "template") /\ UNCHANGED conn
           /\ Move("change", To("change", "remove"))
        \/ ~r.seen /\ Fails /\ Move("change", Idle) /\ UNCHANGED <<dir, conn>>
  /\ UNCHANGED <<config, cache, active, ops>>

(* The old .config is removed with everything in it.                       *)
ChangeRemove ==
  /\ At("change", "remove")
  /\ LET r == proc["change"]
     IN \/ /\ Works /\ r.old /\ r.ws # r.to
           /\ dir' = [dir EXCEPT ![r.ws] = [Bare EXCEPT !.raw = dir[r.ws].raw]]
           /\ conn' = [conn EXCEPT ![r.ws] = NoConn]
        \/ /\ (Works /\ ~(r.old /\ r.ws # r.to)) \/ Fails
           /\ UNCHANGED <<dir, conn>>
  /\ Move("change", Idle)
  /\ UNCHANGED <<config, cache, active, ops>>

(* The cached folder is used for 30 seconds.                               *)
CacheExpires ==
  /\ cache # None /\ cache' = None
  /\ UNCHANGED <<config, dir, conn, active, proc, ops, faults>>

Change ==
  \/ CacheExpires
  \/ \E f \in Folders : ChangePick(f)
  \/ ChangeWrite \/ ChangeNext \/ ChangeUserStat \/ ChangeUserCopy
  \/ ChangeParserStat \/ ChangeCopy \/ ChangeRemove

(***************************************************************************)
(* initWorkspace writes the parser template in any case and the service    *)
(* configuration if it is missing.                                         *)
(***************************************************************************)
InitWorkspace ==
  \/ /\ Begin("init", [Idle EXCEPT !.at = "user"])
     /\ Written(Resolve, "parser", "template")
     /\ UNCHANGED <<config, conn, cache, active, faults>>
  \/ At("init", "user") /\ ensureUserConfigExists("init", Idle)

(***************************************************************************)
(* The explorer's scaffold: looks for the parser file, then writes the     *)
(* template if it was not there.                                           *)
(***************************************************************************)
ScaffoldLook ==
  /\ Begin("scaffold", [Idle EXCEPT !.at = "fill", !.ws = Resolve,
                          !.seen = dir[Resolve].parser # "none"])
  /\ UNCHANGED <<config, dir, conn, cache, active, faults>>

writeFromTemplate ==
  /\ At("scaffold", "fill")
  /\ IF proc["scaffold"].seen THEN UNCHANGED dir
     ELSE Written(proc["scaffold"].ws, "parser", "template")
  /\ Move("scaffold", Idle)
  /\ UNCHANGED <<config, conn, cache, active, ops, faults>>

(***************************************************************************)
(* writeEdgePanelState and writeLogViewerPrefs.                            *)
(***************************************************************************)
Save(p) ==
  /\ Begin(p, [Idle EXCEPT !.at = "read"])
  /\ UNCHANGED <<config, dir, conn, cache, active, faults>>

(* Variant: only the setting itself is written.                            *)
SaveWriteAlone(p) ==
  /\ At(p, "write")
  /\ WriteConfig(p, [x \in {"ws", "panel", "prefs"} |->
                       IF x = "ws" THEN Default
                       ELSE IF x = p THEN 1 - proc[p].copy[p] ELSE 0])
  /\ UNCHANGED <<dir, conn, cache, active, ops, faults>>

SaveWrite(p) ==
  /\ At(p, "write")
  /\ WriteConfig(p, [proc[p].copy EXCEPT ![p] = 1 - @])
  /\ UNCHANGED <<dir, conn, cache, active, ops, faults>>

(***************************************************************************)
(* The connect dialog: the saved connections are read when it opens, and   *)
(* written back, to the folder of that time, when a device answers.        *)
(***************************************************************************)
Latest(list) ==
  CHOOSE n \in {0} \cup {list[i].used : i \in DOMAIN list} :
    \A i \in DOMAIN list : n >= list[i].used

(* The stable sort by lastUsed, latest first.                              *)
ByRecency(list) ==
  LET Before(i, j) == \/ list[i].used > list[j].used
                      \/ list[i].used = list[j].used /\ i < j
      order == CHOOSE p \in [DOMAIN list -> DOMAIN list] :
                 \A i, j \in DOMAIN list : i < j => Before(p[i], p[j])
  IN [i \in DOMAIN list |-> list[order[i]]]

(* The first entry with the id, which findIndex finds, is used now.        *)
Has(list, id) == \E i \in DOMAIN list : list[i].id = id
Touch(list, id) ==
  LET k == CHOOSE i \in DOMAIN list :
             /\ list[i].id = id
             /\ \A j \in DOMAIN list : list[j].id = id => i <= j
  IN [list EXCEPT ![k].used = Latest(list) + 1]

(* markRecent.                                                             *)
MarkRecent(c, id) == [list |-> ByRecency(Touch(c.list, id)), recent |-> id]

(* The list with the entry: in its old place if it has one, else in front. *)
WithEntry(list, id) ==
  IF Has(list, id) THEN Touch(list, id)
  ELSE <<[id |-> id, used |-> Latest(list) + 1]>> \o list
CutTo(list) ==
  SubSeq(list, 1, IF Len(list) < MaxConnections THEN Len(list) ELSE MaxConnections)

(* Variant: an entry that is used again keeps its place.                   *)
UpsertUnsorted(c, id) ==
  [list |-> CutTo(WithEntry(c.list, id)), recent |-> id]

(* upsertConnection: the list is sorted, then cut.                         *)
Upsert(c, id) ==
  [list |-> CutTo(ByRecency(WithEntry(c.list, id))), recent |-> id]

(* What the dialog may save: a saved connection or a new one, which        *)
(* answers.                                                                *)
PickExisting(c) == {MarkRecent(c, c.list[i].id) : i \in DOMAIN c.list}
PickNew(c) == {Upsert(c, id) : id \in Ids}

(* readConnectionConfig: .config is created; a file that is missing or     *)
(* cannot be parsed is replaced by an empty one.                           *)
Readable(c) == IF c = Broken THEN NoConn ELSE c
ReadConnections(f) ==
  /\ dir' = [dir EXCEPT ![f].exists = TRUE]
  /\ conn' = [conn EXCEPT ![f] = Readable(@)]

ConnectOpen ==
  /\ Begin("connect", [Idle EXCEPT !.at = "pick", !.ws = Resolve,
                         !.copy = Readable(conn[Resolve])])
  /\ ReadConnections(Resolve)
  /\ UNCHANGED <<config, cache, active, faults>>

(* A device is picked and answers; the file is then being written.         *)
ConnectPick ==
  /\ At("connect", "pick")
  /\ LET r == proc["connect"]
     IN \E c \in PickExisting(r.copy) \cup PickNew(r.copy) :
          /\ Move("connect", [To("connect", "save") EXCEPT !.copy = c])
          /\ conn' = [conn EXCEPT ![r.ws] = Broken]
          /\ dir' = [dir EXCEPT ![r.ws].exists = TRUE]
  /\ UNCHANGED <<config, cache, active, ops, faults>>

(* The dialog is left, or the device does not answer.                      *)
ConnectCancel ==
  /\ At("connect", "pick")
  /\ Move("connect", Idle)
  /\ UNCHANGED <<config, dir, conn, cache, active, ops, faults>>

ConnectSaved ==
  /\ At("connect", "save")
  /\ LET r == proc["connect"]
     IN /\ conn' = [conn EXCEPT ![r.ws] = r.copy]
        /\ dir' = [dir EXCEPT ![r.ws].exists = TRUE]
        /\ active' = r.copy.recent
  /\ Move("connect", Idle)
  /\ UNCHANGED <<config, cache, ops, faults>>

(* ConnectionManager.connect without an active connection: the recent one  *)
(* is read, and made active when it has been read.                         *)
LoadRecent ==
  /\ active = None /\ ~Active("recent") /\ ~Active("activate")
  /\ ReadConnections(Resolve)
  /\ Move("recent", [Idle EXCEPT !.at = "set",
                       !.to = Readable(conn[Resolve]).recent])
  /\ UNCHANGED <<config, cache, active, ops, faults>>

SetRecent ==
  /\ At("recent", "set")
  /\ active' = IF proc["recent"].to = None THEN active ELSE proc["recent"].to
  /\ Move("recent", Idle)
  /\ UNCHANGED <<config, dir, conn, cache, ops, faults>>

(***************************************************************************)
(* The user edits a file, which takes a person's time: not between two     *)
(* file operations of a handler.  The window is closed and opened again.   *)
(***************************************************************************)
Edit ==
  /\ \A p \in Procs \ {"connect"} : ~Active(p)
  /\ ops < MaxOps /\ ops' = ops + 1
  /\ \E f \in Folders, n \in {"parser", "user"} :
       /\ dir[f][n] = "template"
       /\ dir' = [dir EXCEPT ![f][n] = "custom"]
  /\ UNCHANGED <<config, conn, cache, active, proc, faults>>

Reload ==
  /\ ops < MaxOps /\ ops' = ops + 1
  /\ proc' = [p \in Procs |-> IF p = "activate" THEN [Idle EXCEPT !.at = "raw"]
                              ELSE Idle]
  /\ cache' = None /\ active' = None
  /\ UNCHANGED <<config, dir, conn, faults>>

Next ==
  \/ ActivateRaw \/ ActivateSeed \/ Change \/ InitWorkspace
  \/ ScaffoldLook \/ writeFromTemplate
  \/ \E p \in Saves : Save(p) \/ SaveWrite(p)
  \/ \E p \in Saves \cup {"change"} : ReadConfig(p)
  \/ ConnectOpen \/ ConnectPick \/ ConnectCancel \/ ConnectSaved
  \/ LoadRecent \/ SetRecent \/ Edit \/ Reload

Spec == Init /\ [][Next]_vars

(***************************************************************************)
(* Properties.                                                             *)
(***************************************************************************)

(* The saved connections: one entry per device, most recent first, never   *)
(* more than the limit, and the recent one is among them, so that the next *)
(* session can take it up; however dialogs, migrations and reloads mix.    *)
ConnectionsSane ==
  \A f \in {g \in Folders : conn[g] # Broken} :
    LET l == conn[f].list
    IN /\ Len(l) <= MaxConnections
       /\ \A i, j \in DOMAIN l : i < j => l[i].used > l[j].used
                                          /\ l[i].id # l[j].id
       /\ conn[f].recent # None => l # <<>> /\ l[1].id = conn[f].recent

(* A service configuration the user has changed is not lost by a change of *)
(* workspace, even if the window closes half way: as long as no file       *)
(* operation fails, the last such file only disappears from a folder when  *)
(* the target had one already.                                             *)
UserConfigKept ==
  [][(/\ faults' = 0
      /\ \E f \in Folders : dir[f].user = "custom"
      /\ \A f \in Folders : dir'[f].user # "custom")
     => proc["change"].own]_vars

(* A write of config.json changes its own setting only, unless another     *)
(* write came between its reading and its writing: these are the only      *)
(* interleavings in which a setting is lost.                               *)
OtherSettingsKept ==
  [][\A p \in Saves \cup {"change"} :
       At(p, "write") /\ ~proc[p].dirty /\ proc'[p].at \in {"next", "idle"}
       /\ ~Active("activate")'
       => \A x \in DOMAIN config \ {IF p = "change" THEN "ws" ELSE p} :
            config'[x] = config[x]]_vars

(* The comment of migrateParserConfigIfNeeded: the .config of the previous *)
(* workspace is copied to a new one that has none.  Stated of the step in  *)
(* which the old one is removed: parser rules the user has changed are in  *)
(* the new workspace by then.                                              *)
ParserConfigMigrated ==
  [][LET r == proc["change"]
     IN r.at = "remove" /\ r.fresh /\ faults = 0
        /\ dir[r.ws].parser = "custom" /\ dir'[r.ws].parser = "none"
        => dir'[r.to].parser = "custom"]_vars
=============================================================================
