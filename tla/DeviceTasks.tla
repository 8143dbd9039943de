----------------------------- MODULE DeviceTasks -----------------------------
(***************************************************************************)
(* The buttons of the edge panel that change a device: the router with its *)
(* busy lock, the command handlers, HomeyController, the task runners with *)
(* their workflow engine, the service file patcher and the host guards.    *)
(*                                                                         *)
(* Several tasks may be in progress: the lock covers the toggles of one    *)
(* router, a restart is never locked out, and a view that is created again *)
(* brings a router of its own.  Every remote command goes to the           *)
(* connection that is active when it is sent.                              *)
(***************************************************************************)
EXTENDS Integers, Sequences, FiniteSets

CONSTANTS Devices,    \* the devices that can be connected
          MaxTasks,   \* bound on the clicks on buttons
          MaxFaults,  \* bound on remote commands that go wrong
          MaxUpsets,  \* bound on new connections and new views
          NoDevice, NoFile

Tasks == 1 .. MaxTasks  \* in the order of the clicks

ASSUME DeviceAssumption ==
  /\ MaxTasks \in Nat /\ MaxFaults \in Nat /\ MaxUpsets \in Nat
  /\ NoDevice \notin Devices

VARIABLES dev,     \* the devices
          active,  \* ConnectionManager.active
          task,    \* the tasks
          lock,    \* EdgePanelActionRouter._busyLock of the current router
          router,  \* which router is the current one
          faults, upsets

vars == <<dev, active, task, lock, router, faults, upsets>>

(***************************************************************************)
(* The unit file of the service, abstracted to how many of its lines hold  *)
(* each token the runners look for.                                        *)
(***************************************************************************)
Volumes == {"app", "node"}
Lines == Volumes \cup {"log"}
MaxCopies == 2
File == [Lines -> 0 .. MaxCopies]

ASSUME FileAssumption ==
  /\ NoFile \notin File
  /\ NoFile \notin [on : Devices, file : File]

Contains(f, l) == f # NoFile /\ f[l] > 0

(* insertAfterExecStart.  The duplicate check of the source looks for the  *)
(* line with two backslashes or none behind it, while the lines it inserts *)
(* end in one: it never finds them.                                        *)
InsertLine(f, l) == [f EXCEPT ![l] = IF @ < MaxCopies THEN @ + 1 ELSE @]

DeleteLines(f, ls) ==
  IF f = NoFile THEN NoFile ELSE [l \in Lines |-> IF l \in ls THEN 0 ELSE f[l]]

(* systemctl restart: the containers start from the unit that is loaded    *)
(* and docker creates the volumes its lines name.                          *)
Restarted(D) ==
  [D EXCEPT !.up = TRUE, !.runs = D.loaded,
            !.vols = @ \cup {v \in Volumes : Contains(D.loaded, v)}]

(* getMountState and getEnvToggleEnabled of a device that answers.         *)
Mounted(D) == D.vols # {}
ToggleOn(D) == Contains(D.file, "log")

(***************************************************************************)
(* The tasks.  Plan gives the steps of a runner as WorkflowEngine runs     *)
(* them, after what the command handler and HomeyController do first.      *)
(***************************************************************************)
Buttons == {"volume", "log", "restart"}
LockTargets == {"volume", "log"}

Opening == <<"PROBE", "CONNECT", "UNIT", "READ", "HASH", "BACKUP">>
Closing == <<"RESTART", "VERIFY", "CLEANUP", "ok">>

MountPlan ==
  Opening \o <<"REMOUNT", "EDIT", "REPLACE", "WAIT", "RELOAD">> \o Closing
UnmountPlan ==
  Opening \o <<"STOP", "REMOUNT", "EDIT", "REPLACE", "WAIT", "REMOVE",
               "RELOAD">>
    \o Closing
TogglePlan ==
  Opening \o <<"EDIT", "REMOUNT", "REPLACE", "WAIT", "RELOAD">> \o Closing
RestartPlan == <<"CONNECT", "UNIT", "RESTART", "ok">>

(* Variant: mounting reloads the unit before the file is in place.         *)
PlanReloadsEarly(op) ==
  CASE op = "mount" -> Opening \o <<"REMOUNT", "EDIT", "RELOAD", "REPLACE",
                                    "WAIT">> \o Closing
    [] op = "unmount" -> UnmountPlan
    [] op = "restart" -> RestartPlan
    [] OTHER -> TogglePlan

Plan(op) ==
  CASE op = "mount" -> MountPlan
    [] op = "unmount" -> UnmountPlan
    [] op = "restart" -> RestartPlan
    [] OTHER -> TogglePlan

Follow(op, step) ==
  LET p == Plan(op) IN p[1 + CHOOSE i \in 1 .. Len(p) : p[i] = step]

(* How often the engine runs a step that answers "retry".                  *)
MaxIterations(op, step) ==
  CASE step \in {"STOP", "REMOVE"} -> 2
    [] op = "restart" /\ step = "RESTART" -> 3
    [] OTHER -> 1

Targets(op) == IF op \in {"mount", "unmount"} THEN Volumes ELSE {"log"}
Wants(op, f) ==
  \A l \in Targets(op) : Contains(f, l) <=> op \in {"mount", "enable"}

Idle == [button |-> "none", op |-> "none", at |-> "idle", iter |-> 1,
         work |-> NoFile, on |-> NoDevice, todo |-> <<>>, before |-> NoFile,
         backup |-> NoFile, faults |-> 0, disturbed |-> FALSE, router |-> 0]

Over(r) == r.at \in {"idle", "ok", "failed"}
Running == {t \in Tasks : ~Over(task[t])}

Init ==
  /\ \E f \in [Lines -> 0 .. 1] :
       /\ f["app"] = f["node"]
       /\ dev = [d \in Devices |->
                   [file |-> f, loaded |-> f, runs |-> f, up |-> TRUE,
                    vols |-> {v \in Volumes : Contains(f, v)}, rw |-> FALSE]]
  /\ active \in Devices \cup {NoDevice}
  /\ task = [t \in Tasks |-> Idle]
  /\ lock = FALSE /\ router = 0
  /\ faults = 0 /\ upsets = 0

(***************************************************************************)
(* Remote commands (ConnectionManager.run).  A command may take effect or  *)
(* not and may be answered or not: no answer is an exception, no effect    *)
(* with an answer an exit code that the caller does not look at.           *)
(***************************************************************************)
Outcomes == [done : BOOLEAN, answered : BOOLEAN]
Clean == [done |-> TRUE, answered |-> TRUE]
Cost(o) == IF o = Clean THEN 0 ELSE 1

(* The engine goes on, and the work copy and the notes of a task that is   *)
(* over are of no further use.                                             *)
Settled(r) ==
  IF r.at \in {"ok", "failed"}
  THEN [r EXCEPT !.work = NoFile, !.on = NoDevice, !.todo = <<>>,
                 !.before = NoFile, !.backup = NoFile, !.iter = 1]
  ELSE r

Goto(r) == [r EXCEPT !.at = Follow(r.op, @), !.iter = 1]
Throw(r) == [r EXCEPT !.at = "failed"]
Retry(r) == IF r.iter >= MaxIterations(r.op, r.at) THEN Throw(r)
            ELSE [r EXCEPT !.iter = @ + 1]

(* Variant: the lock is given back by a task that succeeds.                *)
ReleaseOnSuccess(r, lk) ==
  lk /\ ~(r.at = "ok" /\ r.button \in LockTargets /\ r.router = router)

(* The handler logs the error of a task; dispatchButton releases the lock  *)
(* of its own router in any case.                                          *)
Release(r, lk) ==
  lk /\ ~(Over(r) /\ r.button \in LockTargets /\ r.router = router)

(* Task t runs a command with outcome o that leaves the device as D and    *)
(* the task as r.                                                          *)
Run(t, o, D, r) ==
  /\ faults + Cost(o) <= MaxFaults
  /\ faults' = faults + Cost(o)
  /\ dev' = [dev EXCEPT ![active] = D]
  /\ LET s == [r EXCEPT !.faults = @ + Cost(o)]
     IN /\ task' = [task EXCEPT ![t] = Settled(s)]
        /\ lock' = Release(s, lock)
  /\ UNCHANGED <<active, router, upsets>>

Here == dev[active]
At(t, step) == task[t].at = step
OrThrow(o, r) == IF o.answered THEN Goto(r) ELSE Throw(r)

(***************************************************************************)
(* dispatchButton: a lock target is dropped while the router is busy.      *)
(***************************************************************************)
Start(t, b) ==
  LET first == IF b = "restart" THEN "CONNECT" ELSE "PROBE"
      busy == Running # {}
  IN /\ task[t] = Idle /\ \A u \in 1 .. t - 1 : task[u] # Idle
     /\ task' = [u \in Tasks |->
          IF u = t THEN [Idle EXCEPT !.button = b, !.at = first,
                          !.op = IF b = "restart" THEN b ELSE "none",
                          !.router = router, !.disturbed = busy]
          ELSE IF u \in Running THEN [task[u] EXCEPT !.disturbed = TRUE]
          ELSE task[u]]

(* Variant: the lock is not looked at.                                     *)
DispatchUnlocked(t, b) ==
  /\ Start(t, b)
  /\ lock' = (lock \/ b \in LockTargets)
  /\ UNCHANGED <<dev, active, router, faults, upsets>>

Dispatch(t, b) ==
  /\ ~(b \in LockTargets /\ lock)
  /\ Start(t, b)
  /\ lock' = (lock \/ b \in LockTargets)
  /\ UNCHANGED <<dev, active, router, faults, upsets>>

(* The toggles first read the state they invert.  Without a connection, or *)
(* when the reading fails, the mount state is unknown, which mounts, and   *)
(* an environment toggle counts as off.                                    *)
Probe(t) ==
  /\ At(t, "PROBE")
  /\ \E o \in Outcomes :
       LET r == task[t]
           known == active # NoDevice /\ o = Clean
           op == IF r.button = "volume"
                 THEN IF known /\ Mounted(Here) THEN "unmount" ELSE "mount"
                 ELSE IF known /\ ToggleOn(Here) THEN "disable" ELSE "enable"
       IN /\ faults + Cost(o) <= MaxFaults
          /\ faults' = faults + Cost(o)
          /\ task' = [task EXCEPT ![t] =
                        [r EXCEPT !.op = op, !.at = "CONNECT",
                                  !.faults = @ + Cost(o),
                                  !.disturbed = @ \/ active = NoDevice]]
  /\ UNCHANGED <<dev, active, lock, router, upsets>>

(* ConnectionManager.connect takes up the most recent connection when none *)
(* is active; a failed health check is not an error.                       *)
Connected == IF active = NoDevice THEN Devices \cup {NoDevice} ELSE {active}

EnsureConnected(t) ==
  /\ At(t, "CONNECT")
  /\ \E d \in Connected :
       LET r == IF d = NoDevice THEN [Throw(task[t]) EXCEPT !.disturbed = TRUE]
                ELSE Goto(task[t])
       IN /\ active' = d
          /\ task' = [task EXCEPT ![t] = Settled(r)]
          /\ lock' = Release(r, lock)
  /\ UNCHANGED <<dev, router, faults, upsets>>

(* resolveHomeyUnit: the stored name when the device knows it, else the    *)
(* first unit found; no unit is an error.                                  *)
ResolveUnit(t) ==
  /\ At(t, "UNIT")
  /\ \E o \in Outcomes, found \in BOOLEAN :
       /\ o = Clean => found
       /\ Run(t, o, Here, IF found THEN Goto(task[t]) ELSE Throw(task[t]))

(* READ_SERVICE_FILE: the work copy, and which lines are to be inserted.   *)
(* A check that is not answered properly counts as "not there".            *)
Missing(l, seen) == IF l \in seen THEN <<>> ELSE <<l>>
Insertions(op, seen) ==
  CASE op = "mount" -> Missing("app", seen) \o Missing("node", seen)
    [] op = "enable" -> Missing("log", seen)
    [] OTHER -> <<>>

ReadServiceFile(t) ==
  /\ At(t, "READ")
  /\ \E o \in Outcomes, copied \in BOOLEAN :
       LET w == IF copied THEN Here.file ELSE NoFile
           seen == {l \in Lines : o.done /\ Contains(w, l)}
       IN /\ o = Clean => copied
          /\ Run(t, o, Here,
                 OrThrow(o, [task[t] EXCEPT !.work = w, !.on = active,
                               !.todo = Insertions(task[t].op, seen)]))

HashBefore(t) ==
  /\ At(t, "HASH")
  /\ \E o \in Outcomes :
       Run(t, o, Here,
           OrThrow(o, [task[t] EXCEPT
                         !.before = IF o.done THEN Here.file ELSE NoFile]))

(* BACKUP: the root is remounted, which may fail unnoticed, then the file  *)
(* is copied next to itself, on the device connected now.                  *)
Backup(t) ==
  /\ At(t, "BACKUP")
  /\ \E o \in Outcomes :
       Run(t, o, [Here EXCEPT !.rw = @ \/ o.done],
           OrThrow(o, [task[t] EXCEPT
                         !.backup = IF o.done
                                    THEN [on |-> active, file |-> Here.file]
                                    ELSE NoFile]))

(* APPLY_PATCH on the work copy: one line at a time, or one deletion.  An  *)
(* insertion into a work copy that is not on the device is an error, a     *)
(* deletion is not.                                                        *)
WorkHere(r) == r.work # NoFile /\ r.on = active

Insert(t) ==
  /\ At(t, "EDIT") /\ task[t].todo # <<>>
  /\ LET r == task[t]
         next == [r EXCEPT !.todo = Tail(@)]
     IN IF WorkHere(r)
        THEN \E o \in Outcomes :
               Run(t, o, Here,
                   LET w == IF o.done
                            THEN [next EXCEPT !.work =
                                              InsertLine(@, Head(r.todo))]
                            ELSE next
                   IN IF o.answered THEN w ELSE Throw(w))
        ELSE Run(t, Clean, Here, Throw(r))

DeleteLinesStep(t) ==
  /\ At(t, "EDIT") /\ task[t].todo = <<>>
  /\ \E o \in Outcomes :
       LET r == task[t]
           ls == IF r.op \in {"unmount", "disable"} THEN Targets(r.op) ELSE {}
       IN /\ ls = {} => o = Clean
          /\ Run(t, o, Here,
                 OrThrow(o, IF o.done /\ WorkHere(r)
                            THEN [r EXCEPT !.work = DeleteLines(@, ls)]
                            ELSE r))

(* ensureFsRemountRW: all errors are swallowed.                            *)
Remount(t) ==
  /\ At(t, "REMOUNT")
  /\ \E o \in Outcomes :
       Run(t, o, [Here EXCEPT !.rw = @ \/ o.done], Goto(task[t]))

(* replaceOriginalWith: mv, tried once more after an exception; its exit   *)
(* code is not looked at.                                                  *)
Replace(t) ==
  /\ At(t, "REPLACE")
  /\ \E o \in Outcomes, again \in BOOLEAN :
       LET r == task[t]
           moves == WorkHere(r) /\ Here.rw /\ (o.done \/ (again /\ ~o.answered))
       IN Run(t, o,
              IF moves THEN [Here EXCEPT !.file = r.work] ELSE Here,
              LET s == IF moves THEN [r EXCEPT !.work = NoFile] ELSE r
              IN IF o.answered \/ again THEN Goto(s) ELSE Throw(s))

(* Variant: an unchanged file is an error for every runner.                *)
WaitForChangeAll(t) ==
  /\ At(t, "WAIT")
  /\ \E o \in Outcomes :
       LET r == task[t]
           changed == o.done /\ r.before # NoFile /\ Here.file # r.before
       IN Run(t, o, Here,
              IF o.answered /\ changed THEN Goto(r) ELSE Throw(r))

(* waitForServiceFileChange: only an environment toggle insists.           *)
WaitForChange(t) ==
  /\ At(t, "WAIT")
  /\ \E o \in Outcomes :
       LET r == task[t]
           changed == o.done /\ r.before # NoFile /\ Here.file # r.before
       IN Run(t, o, Here,
              IF ~o.answered \/ (r.op \in {"enable", "disable"} /\ ~changed)
              THEN Throw(r) ELSE Goto(r))

(* STOP_AND_REMOVE_CONTAINERS and REMOVE_VOLUMES: done until nothing is    *)
(* left; a volume that a container uses cannot be removed.                 *)
StopContainers(t) ==
  /\ At(t, "STOP")
  /\ \E o \in Outcomes :
       LET D == IF o.done THEN [Here EXCEPT !.up = FALSE] ELSE Here
       IN Run(t, o, D, IF ~o.answered THEN Throw(task[t])
                       ELSE IF D.up THEN Retry(task[t]) ELSE Goto(task[t]))

RemoveVolumes(t) ==
  /\ At(t, "REMOVE")
  /\ \E o \in Outcomes :
       LET D == IF o.done /\ ~Here.up THEN [Here EXCEPT !.vols = {}] ELSE Here
       IN Run(t, o, D, IF ~o.answered THEN Throw(task[t])
                       ELSE IF D.vols # {} THEN Retry(task[t])
                       ELSE Goto(task[t]))

DaemonReload(t) ==
  /\ At(t, "RELOAD")
  /\ \E o \in Outcomes :
       Run(t, o, IF o.done THEN [Here EXCEPT !.loaded = Here.file] ELSE Here,
           OrThrow(o, task[t]))

(* RESTART_SERVICE: what counts is whether the unit is active in the end.  *)
RestartService(t) ==
  /\ At(t, "RESTART")
  /\ \E o \in Outcomes, isActive \in BOOLEAN :
       /\ o = Clean => isActive
       /\ Run(t, o, IF o.done THEN Restarted(Here) ELSE Here,
              LET r == task[t]
              IN IF ~o.answered THEN Throw(r)
                 ELSE IF isActive THEN Goto(r)
                 ELSE IF r.op = "restart" THEN Retry(r) ELSE Throw(r))

(* POST_VERIFY: the tokens are looked up in the file itself.               *)
PostVerify(t) ==
  /\ At(t, "VERIFY")
  /\ \E o \in Outcomes :
       LET f == IF o.done THEN Here.file ELSE NoFile
       IN Run(t, o, Here, IF o.answered /\ Wants(task[t].op, f)
                          THEN Goto(task[t]) ELSE Throw(task[t]))

Cleanup(t) ==
  /\ At(t, "CLEANUP")
  /\ \E o \in Outcomes : Run(t, o, Here, OrThrow(o, task[t]))

TaskStep(t) ==
  \/ Probe(t) \/ EnsureConnected(t) \/ ResolveUnit(t) \/ ReadServiceFile(t)
  \/ HashBefore(t) \/ Backup(t) \/ Insert(t) \/ DeleteLinesStep(t) \/ Remount(t)
  \/ Replace(t) \/ WaitForChange(t) \/ StopContainers(t) \/ RemoveVolumes(t)
  \/ DaemonReload(t) \/ RestartService(t) \/ PostVerify(t) \/ Cleanup(t)

(***************************************************************************)
(* A device is connected, which is no lock target, or the view of the      *)
(* panel is created again, with a router of its own.                       *)
(***************************************************************************)
Disturb == [t \in Tasks |-> IF t \in Running
                               THEN [task[t] EXCEPT !.disturbed = TRUE]
                               ELSE task[t]]

SetActive(d) ==
  /\ upsets < MaxUpsets /\ d # active
  /\ upsets' = upsets + 1
  /\ active' = d
  /\ task' = Disturb
  /\ UNCHANGED <<dev, lock, router, faults>>

ResolveView ==
  /\ upsets < MaxUpsets
  /\ upsets' = upsets + 1
  /\ router' = router + 1
  /\ lock' = FALSE
  /\ UNCHANGED <<dev, active, task, faults>>

Next ==
  \/ \E t \in Tasks : TaskStep(t)
  \/ \E t \in Tasks, b \in Buttons : Dispatch(t, b)
  \/ \E d \in Devices : SetActive(d)
  \/ ResolveView

(* Every command answers or runs into its timeout, so some task goes on as *)
(* long as there is one (weak fairness: one of its steps is then enabled). *)
AnyTaskStep == \E t \in Tasks : TaskStep(t)
Fairness == []<>(Running = {}) \/ []<><<AnyTaskStep>>_vars
Spec == Init /\ [][Next]_vars /\ Fairness

(***************************************************************************)
(* Properties.                                                             *)
(***************************************************************************)

(* A toggle that nothing else disturbed and that is reported as done is    *)
(* done.  After at most one bad command the service file is as the button  *)
(* asked: whatever single command silently failed, a later check of the    *)
(* runner notices.  After none the service runs from the new file, and the *)
(* state the next click reads is the one it set: two clicks in a row undo  *)
(* each other.  Stated of the step that ends the task.                     *)
DoneMeansDone ==
  [][\A t \in Tasks :
       task[t].at = "CLEANUP" /\ task'[t].at = "ok" /\ ~task'[t].disturbed =>
         LET D == dev'[active']
             op == task[t].op
         IN /\ task'[t].faults <= 1 => Wants(op, D.file)
            /\ task'[t].faults = 0 =>
                 /\ D.runs = D.file /\ D.up
                 /\ op \in {"mount", "unmount"} => (Mounted(D) <=> op = "mount")
                 /\ op \in {"enable", "disable"} =>
                      (ToggleOn(D) <=> op = "enable")]_vars

(* A task fails only when a command of its own went wrong, another task or *)
(* another connection came in between, or there is no device: whatever     *)
(* earlier failures left behind, a new click gets through.                 *)
FailureHasCause ==
  \A t \in Tasks :
    task[t].at = "failed" => task[t].faults > 0 \/ task[t].disturbed

(* As long as there is one router, a task that replaces the service file   *)
(* leaves the lines of the other buttons as they are, and the content it   *)
(* replaces is the one it backed up, unless the backup itself went wrong   *)
(* or another device was connected then: the busy lock keeps two patches   *)
(* of one file apart, however often the connection changes.                *)
ReplaceKeepsOthers ==
  [][\A t \in Tasks, d \in Devices :
       /\ task[t].at = "REPLACE" /\ task'[t].at # "REPLACE"
       /\ router = 0 /\ dev'[d].file # dev[d].file
       => /\ \A l \in Lines \ Targets(task[t].op) :
               dev'[d].file[l] = dev[d].file[l]
          /\ task[t].backup # NoFile /\ task[t].backup.on = d
             => task[t].backup.file = dev[d].file]_vars

(* The lock is always given back, whatever fails.                          *)
LockReleased == lock ~> ~lock

=============================================================================
