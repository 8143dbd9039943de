------------------------------ MODULE HostSync ------------------------------
(***************************************************************************)
(* The pull and push of the "Git" button: CommandHandlersGit.gitFlow,      *)
(* GitController, HostController, FileTransferService and, for the tar it  *)
(* starts on this machine, ExecRunner.runCommandLine.                      *)
(*                                                                         *)
(* A file of the workspace is [root, sub, name], a file of a device is     *)
(* [at, base, sub, name], and name = "" stands for the directory itself.   *)
(* "at" tells the docker root the device answers from the default one that *)
(* is used when it answers nothing.  Trees are functions from the files    *)
(* that exist to their contents, and a content is the number of the edit   *)
(* that wrote it, or Torn.  One step is what runs between two awaits.      *)
(***************************************************************************)
EXTENDS Integers, Sequences, FiniteSets
LOCAL INSTANCE SequencesExt

CONSTANTS
  Devices,    \* the devices there are connections for
  AdbDevices, \* those of them that are reached over ADB
  Subs,       \* the directories below a root, "" for the root itself
  Names,      \* the file names
  Workspaces, \* [commits, touched]: what earlier sessions left
  Disks,      \* the trees a device may start with
  Volumes,    \* the tree that mounting the homey volumes brings
  Args,       \* the paths that may be given to a push
  HostPaths,  \* the device paths that may be given to a push or a pull
  Picks,      \* the lists of volumes that may be picked for a pull
  Chunks,     \* how many pieces an archive is sent in
  MaxFlows,   \* bound on the flows started
  MaxEdits,   \* bound on the edits and commits of the user
  MaxFaults,  \* bound on failing commands and connection switches
  MaxEvents,  \* bound on all of these together
  Torn,       \* a content that was cut off
  None

Kinds == <<"host", "pro", "core", "sdk", "bridge">>

Marker ==
  [host |-> "host_sync", pro |-> "homey_pro", core |-> "homey_core",
   sdk |-> "homey_sdk", bridge |-> "homey_bridge"]

(* A directory outside the workspace, for a pull with a local path. *)
Elsewhere == "elsewhere"

VARIABLES
  local,    \* the files of the workspace, and what was pulled elsewhere
  index,    \* the tree that git add -A staged
  commits,  \* [tree, skip]: skip for "[Do not push] download ..."
  disk,     \* the files of each device
  spool,    \* what an upload prepared on each device: [dir, pieces]
  active,   \* the active connection
  flow,     \* the flow in progress, or how the last one ended
  proc,     \* the child process of runCommandLine
  tmp,      \* the temporary directories on this machine
  touched,  \* history: the files the user has edited
  loose,    \* history: downloaded files were left to a commit of the user
  count     \* [flows, edits, faults] so far

vars == <<local, index, commits, disk, spool, active, flow, proc, tmp,
          touched, loose, count>>
git == <<index, commits>>
history == <<touched, loose>>

----------------------------------------------------------------------------
(* Trees *)

Overlay(f, g) ==
  [x \in DOMAIN f \cup DOMAIN g |-> IF x \in DOMAIN g THEN g[x] ELSE f[x]]

Nothing == [x \in {} |-> 0]

(* The names that git diff --name-only prints for two trees. *)
Changed(f, g) ==
  {x \in DOMAIN f \cup DOMAIN g :
     ~(x \in DOMAIN f /\ x \in DOMAIN g /\ f[x] = g[x])}

InRepo(f) == [x \in {y \in DOMAIN f : y.root # Elsewhere} |-> f[x]]

HeadTree == Last(commits).tree

(* Whether file x is p, or below p when p is a directory. *)
Below(x, p) ==
  /\ \A k \in (DOMAIN p) \ {"sub", "name"} : x[k] = p[k]
  /\ p.name = "" => p.sub \in {"", x.sub}
  /\ p.name # "" => x = p

----------------------------------------------------------------------------
(* Paths *)

(* The bucket of a path.  The test is on "/homey_pro/", so a root by itself *)
(* is in none.                                                              *)
Bucket(p) ==
  CASE p.sub = "" /\ p.name = ""                      -> None
    [] p.root = "homey_pro"                           -> "pro"
    [] p.root = "homey_core"                          -> "core"
    [] p.root \in {"homey-apps-sdk-v3", "homey_sdk"}  -> "sdk"
    [] p.root \in {"homey-bridge", "homey_bridge"}    -> "bridge"
    [] p.root = "host_sync"                           -> "host"
    [] OTHER                                          -> None

(* _relUnder: the path below the marker, or the base name without one. *)
RelUnder(p, kind) ==
  IF p.root = Marker[kind] \/ p.name = ""
  THEN [sub |-> p.sub, name |-> p.name]
  ELSE [sub |-> "", name |-> p.name]

(* Where a push sends p: below the resolved base, or, for host_sync, to the *)
(* path given or to the path that toHostFromLocalHostSync finds.            *)
Target(p, kind, at, hostPath) ==
  IF kind = "host" /\ hostPath # None THEN hostPath
  ELSE LET rel == RelUnder(p, kind)
       IN  [at |-> at, base |-> kind, sub |-> rel.sub, name |-> rel.name]

(* The local files that pushFile(p, t) hands to tar: the entry of p's       *)
(* directory that has t's base name.                                        *)
Entries(p, t) ==
  LET dir == IF p.name = "" THEN "" ELSE p.sub
  IN  {x \in DOMAIN local :
         /\ x.root = p.root
         /\ t.name # "" => x.sub = dir /\ x.name = t.name
         /\ t.name = "" => dir = "" /\ x.sub = t.sub}

(* uploadViaTarBase64: an entry arrives under the name it has in the tar. *)
TarJobs(p, t) == {[src |-> x, dst |-> [t EXCEPT !.name = x.name]] :
                    x \in Entries(p, t)}

(* uploadViaAdb: the files of a directory are named relative to that       *)
(* directory and then looked up, and stored, relative to its parent.       *)
AdbJobs(p, t) ==
  IF t.name # "" THEN TarJobs(p, t)
  ELSE {[src |-> [x EXCEPT !.sub = ""],
         dst |-> [t EXCEPT !.sub = "", !.name = x.name]] : x \in Entries(p, t)}

(* Where a pull of r puts the file x: below toLocalFromHost(r) or homey_*,  *)
(* or below the local path that was given.                                  *)
Destination(x, r, aside) ==
  [root |-> IF aside THEN Elsewhere ELSE Marker[x.base],
   sub  |-> IF aside /\ r.sub = x.sub THEN "" ELSE x.sub, name |-> x.name]

(* What is read of device d for r, by the place it is stored in. *)
Found(d, r, aside) ==
  LET xs == {x \in DOMAIN disk[d] : Below(x, r)}
  IN  [y \in {Destination(x, r, aside) : x \in xs} |->
         disk[d][CHOOSE x \in xs : Destination(x, r, aside) = y]]

(* statType *)
StatType(d, r) ==
  CASE r \in DOMAIN disk[d]                               -> "FILE"
    [] r.name = "" /\ \E x \in DOMAIN disk[d] : Below(x, r) -> "DIR"
    [] OTHER                                              -> "NONE"

----------------------------------------------------------------------------
NoProc == [state |-> "none", timeout |-> FALSE, grace |-> FALSE]

(* The remote directory was made; the pieces in /tmp/edge-upload-*.b64. *)
NoSpool == [dir |-> FALSE, pieces |-> <<>>]

NoFlow ==
  [pc |-> "idle", op |-> "none", result |-> "none", asked |-> {}, arg |-> None,
   path |-> None, aside |-> FALSE, todo |-> {}, picks |-> <<>>, kind |-> None,
   at |-> "", src |-> None, dst |-> None, dev |-> None, jobs |-> {},
   pay |-> Nothing, torn |-> FALSE, left |-> 0, clean |-> TRUE]

Init ==
  /\ \E w \in Workspaces : commits = w.commits /\ touched = w.touched
  /\ local = HeadTree
  /\ index = HeadTree
  /\ \E t \in Disks : disk = [d \in Devices |-> t]
  /\ spool = [d \in Devices |-> NoSpool]
  /\ active \in Devices
  /\ flow = NoFlow
  /\ proc = NoProc
  /\ tmp = {}
  /\ loose = FALSE
  /\ count = [flows |-> 0, edits |-> 0, faults |-> 0]

Idle == flow.pc = "idle"

Budget == count.flows + count.edits + count.faults < MaxEvents

Fault ==
  /\ Budget /\ count.faults < MaxFaults
  /\ count' = [count EXCEPT !.faults = @ + 1]

(* The flow ends; the finally blocks have removed what it put in tmp. *)
End(result) ==
  /\ flow' = [flow EXCEPT !.pc = "idle", !.result = result]
  /\ proc' = NoProc
  /\ tmp' = {}

(* An exception leaves the flow; what a pull has written stays, uncommitted. *)
Fail ==
  /\ End("failed")
  /\ loose' = (loose \/ flow.op = "pull")
  /\ UNCHANGED <<git, spool, active, touched>>

Throw == Fault /\ Fail /\ UNCHANGED <<local, disk>>

(* A command whose failure is told by its exit code only: nobody reads it. *)
Unnoticed == Fault

At(pc) == [flow EXCEPT !.pc = pc]

Goto(pc) == flow' = At(pc)

(* Only the flow changes; only the flow, by a fault it does not notice. *)
Becomes(f) ==
  /\ flow' = f
  /\ UNCHANGED <<local, git, disk, spool, active, proc, tmp, history, count>>

BecomesUnnoticed(f) ==
  /\ Unnoticed /\ flow' = [f EXCEPT !.clean = FALSE]
  /\ UNCHANGED <<local, git, disk, spool, active, proc, tmp, history>>

(* The flow fails without a fault. *)
Refuses == Fail /\ UNCHANGED <<local, disk, count>>

----------------------------------------------------------------------------
(* runCommandLine: the tar of an upload or a download on this machine *)

Spawn == proc' = [state |-> "running", timeout |-> TRUE, grace |-> FALSE]

(* settle and cleanup *)
Settle(state) == proc' = [state |-> state, timeout |-> FALSE, grace |-> FALSE]

rest == <<local, git, disk, spool, active, flow, tmp, history>>

ChildFinishes ==
  /\ proc.state = "running"
  /\ Settle("closed")
  /\ UNCHANGED <<rest, count>>

(* The 'error' event: the shell cannot be started. *)
ChildError ==
  /\ proc.state = "running"
  /\ Settle("error")
  /\ Fault
  /\ UNCHANGED rest

ChildHangs ==
  /\ proc.state = "running"
  /\ proc' = [proc EXCEPT !.state = "stuck"]
  /\ Fault
  /\ UNCHANGED rest

(* Variant: SIGTERM without the fallback. *)
TerminateOnly == proc' = [proc EXCEPT !.timeout = FALSE]

(* terminateWithFallback: SIGTERM, and SIGKILL when the grace is over. *)
Terminate == proc' = [proc EXCEPT !.timeout = FALSE, !.grace = TRUE]

TimeoutFires ==
  /\ proc.timeout /\ proc.state = "stuck"
  /\ Terminate
  /\ UNCHANGED <<rest, count>>

(* The child obeys SIGTERM, or it is killed. *)
ChildKilled ==
  /\ proc.grace
  /\ Settle("killed")
  /\ UNCHANGED <<rest, count>>

----------------------------------------------------------------------------
(* push *)

Starts(f) ==
  /\ Idle
  /\ Budget /\ count.flows < MaxFlows
  /\ count' = [count EXCEPT !.flows = @ + 1]
  /\ flow' = f
  /\ UNCHANGED <<local, git, disk, spool, active, proc, tmp, history>>

(* Variant: the commits that hold downloads are not left out. *)
AllCommitFilesAny ==
  UNION {Changed(commits[i - 1].tree, commits[i].tree) : i \in 2 .. Len(commits)}

(* getAllCommitFiles: what the commits other than downloads name. *)
AllCommitFiles ==
  UNION {Changed(commits[i - 1].tree, commits[i].tree) :
           i \in {j \in 2 .. Len(commits) : ~commits[j].skip}}

(* getFilesSince *)
FilesSince(i) == Changed(commits[i].tree, HeadTree)

(* A push of the given files, by the bucket each of them is in. *)
Push(files, arg, hostPath) ==
  [NoFlow EXCEPT !.op = "push", !.arg = arg, !.asked = files,
     !.todo = {p \in files : Bucket(p) # None}, !.path = hostPath, !.dev = active,
     !.pc = IF files = {} THEN "idle" ELSE "next",
     !.result = IF files = {} THEN "empty" ELSE "none"]

(* Variant: an argument that is not there counts as the empty one. *)
PushCancelledPushesAll == Starts(Push(AllCommitFiles, "none", None))

(* The input box was left with ESC: undefined, which is not the empty string. *)
PushCancelled ==
  Starts([NoFlow EXCEPT !.op = "push", !.arg = "none", !.dev = active,
                         !.result = "cancelled"])

PushAll(hostPath) == Starts(Push(AllCommitFiles, "all", hostPath))

PushSince(i, hostPath) == Starts(Push(FilesSince(i), "since", hostPath))

PushPath(p, hostPath) ==
  Starts(Push(IF \E x \in DOMAIN local : Below(x, p) THEN {p} ELSE {},
              "path", hostPath))

(* The buckets are sent host first, then in the order of Kinds. *)
NextKind == CHOOSE k \in Range(Kinds) :
  /\ \E p \in flow.todo : Bucket(p) = k
  /\ \A p \in flow.todo :
       \A i, j \in 1 .. Len(Kinds) : Kinds[i] = k /\ Kinds[j] = Bucket(p) => i <= j

PushEnds ==
  /\ flow.pc = "next" /\ flow.todo = {}
  /\ End("ok")
  /\ UNCHANGED <<local, git, disk, spool, active, history, count>>

(* resolveHomeyPath: an answer that is empty leaves the default root. *)
ResolveFor(pc, kind) ==
  \/ Becomes([flow EXCEPT !.pc = pc, !.kind = kind, !.at = "docker"])
  \/ BecomesUnnoticed([flow EXCEPT !.pc = pc, !.kind = kind, !.at = "default"])
  \/ Throw

PushResolve ==
  /\ flow.pc = "next" /\ flow.todo # {}
  /\ NextKind \notin {"host", flow.kind}
  /\ ResolveFor("next", NextKind)

(* pushFile to the target, over the connection that is active now. *)
PushFile ==
  /\ flow.pc = "next" /\ flow.todo # {}
  /\ NextKind \in {"host", flow.kind}
  /\ \E p \in {q \in flow.todo : Bucket(q) = NextKind} :
       LET t == Target(p, NextKind, IF NextKind = "host" THEN "" ELSE flow.at,
                       flow.path)
           f == [flow EXCEPT !.todo = @ \ {p}, !.src = p, !.dst = t]
       IN  \/ /\ active \in AdbDevices /\ AdbJobs(p, t) # {}
              /\ Becomes([f EXCEPT !.pc = "adbMkdir", !.jobs = AdbJobs(p, t),
                                   !.dev = active])
           \/ /\ active \in AdbDevices /\ AdbJobs(p, t) = {}  \* fsp.stat throws
              /\ Refuses
           \/ /\ active \notin AdbDevices
              /\ flow' = [f EXCEPT !.pc = "tar"]
              /\ tmp' = tmp \cup {"edge-up"}
              /\ spool' = [d \in Devices |-> NoSpool]
              /\ Spawn
              /\ UNCHANGED <<local, git, disk, active, history, count>>

(* The archive, by the place each of its files is extracted to. *)
Archive ==
  LET jobs == TarJobs(flow.src, flow.dst)
  IN  [y \in {j.dst : j \in jobs} |->
         local[(CHOOSE j \in jobs : j.dst = y).src]]

(* Whatever the exit code, the archive is sent when there is a file. *)
TarEnds ==
  /\ flow.pc = "tar" /\ proc.state \in {"closed", "killed", "error"}
  /\ \/ /\ proc.state # "error"
        /\ flow' = [flow EXCEPT !.pc = "mkdir", !.pay = Archive, !.left = Chunks,
                                !.torn = proc.state = "killed",
                                !.clean = @ /\ proc.state = "closed"]
        /\ proc' = NoProc
        /\ UNCHANGED <<local, git, disk, spool, active, tmp, history, count>>
     \/ /\ proc.state # "closed"
        /\ Refuses

(* remoteRun: the command works, fails by its exit code, or throws. *)
RemoteRun(f, works, fails) ==
  \/ /\ works /\ flow' = f
     /\ UNCHANGED <<local, git, active, proc, tmp, history, count>>
  \/ /\ Unnoticed
     /\ fails /\ flow' = [f EXCEPT !.clean = FALSE]
     /\ UNCHANGED <<local, git, active, proc, tmp, history>>
  \/ Throw

same == UNCHANGED <<disk, spool>>

EnsureRemoteDir ==
  /\ flow.pc = "mkdir"
  /\ RemoteRun(At("truncate"), UNCHANGED disk
                 /\ spool' = [spool EXCEPT ![active].dir = TRUE], same)

Truncate ==
  /\ flow.pc = "truncate"
  /\ RemoteRun(At("append"), UNCHANGED disk
                 /\ spool' = [spool EXCEPT ![active].pieces = <<>>], same)

AppendNext(last) ==
  /\ flow.pc = "append"
  /\ LET n == Chunks + 1 - flow.left
     IN  RemoteRun([flow EXCEPT !.left = @ - 1,
                               !.pc = IF flow.left = last THEN "extract" ELSE @],
                   UNCHANGED disk
                     /\ spool' = [spool EXCEPT ![active].pieces = Append(@, n)],
                   same)

(* Variant: the last piece is not sent. *)
AppendPieceShort == AppendNext(2)

(* printf >> of one piece after the other *)
AppendPiece == AppendNext(1)

RemoteDir(t) ==
  [t EXCEPT !.name = "", !.sub = IF t.name = "" THEN "" ELSE @]

(* The archive is whole where it is extracted, and there is a directory. *)
Extractable ==
  /\ spool[active].pieces = [i \in 1 .. Chunks |-> i] /\ ~flow.torn
  /\ \/ spool[active].dir
     \/ \E x \in DOMAIN disk[active] : Below(x, RemoteDir(flow.dst))

(* What a failed extraction leaves: some of the files, some of them cut off. *)
Partial(pay) ==
  UNION {{[x \in s |-> IF x \in t THEN Torn ELSE pay[x]] : t \in SUBSET s} :
           s \in SUBSET DOMAIN pay}

(* base64 -d | tar -x && rm: the exit code is not read. *)
Extract ==
  /\ flow.pc = "extract"
  /\ RemoteRun(At("rm"),
       \/ /\ Extractable
          /\ disk' = [disk EXCEPT ![active] = Overlay(@, flow.pay)]
          /\ spool' = [spool EXCEPT ![active].pieces = <<>>]
       \/ /\ ~Extractable
          /\ \E g \in Partial(flow.pay) :
               disk' = [disk EXCEPT ![active] = Overlay(@, g)]
          /\ UNCHANGED spool,
       /\ \E g \in Partial(flow.pay) :
            disk' = [disk EXCEPT ![active] = Overlay(@, g)]
       /\ UNCHANGED spool)

(* fsp.rm of the temporary directory; the next file, or git add. *)
RemoveTmp ==
  /\ flow.pc = "rm"
  /\ Goto(IF flow.op = "push" THEN "next" ELSE "add")
  /\ tmp' = {}
  /\ UNCHANGED <<local, git, disk, spool, active, proc, history, count>>

(* uploadViaAdb: the directory, over the connection that is active now... *)
AdbMkdir ==
  /\ flow.pc = "adbMkdir"
  /\ RemoteRun(At("adbPush"), same, same)

(* ...and the files, to the device whose serial was read at the start. *)
AdbPush ==
  /\ flow.pc = "adbPush"
  /\ \/ flow.jobs = {} /\ Becomes(At("next"))
     \/ \E j \in flow.jobs :
          \/ /\ j.src \in DOMAIN local
             /\ disk' = [disk EXCEPT ![flow.dev] =
                           Overlay(@, [x \in {j.dst} |-> local[j.src]])]
             /\ flow' = [flow EXCEPT !.jobs = @ \ {j}]
             /\ UNCHANGED <<local, git, spool, active, proc, tmp, history, count>>
          \/ j.src \notin DOMAIN local /\ Refuses
          \/ /\ Fault /\ Fail
             /\ \E g \in Partial([x \in {j.dst} |-> 0]) :
                  disk' = [disk EXCEPT ![flow.dev] = Overlay(@, g)]
             /\ UNCHANGED local

----------------------------------------------------------------------------
(* pull *)

(* Pull: Host, of a path, into host_sync or to a local path that was given. *)
PullHost(r, aside) ==
  Starts([NoFlow EXCEPT !.op = "pull", !.pc = "stat", !.kind = "host",
            !.src = r, !.aside = aside, !.dev = active])

(* Pull: Homey; the mounts are looked at before the volumes are picked. *)
PullHomey(picks) ==
  Starts([NoFlow EXCEPT !.op = "pull", !.pc = "mounts", !.picks = picks,
            !.dev = active])

Volume(kind, at) == [at |-> at, base |-> kind, sub |-> "", name |-> ""]

AnyMounted ==
  \E k \in Range(Kinds) \ {"host"} :
    StatType(active, Volume(k, "docker")) = "DIR"

(* isAnyMounted; without one the user mounts the volumes or cancels. *)
MountCheck ==
  /\ flow.pc = "mounts"
  /\ \/ /\ AnyMounted
        /\ Goto("pick")
        /\ UNCHANGED <<disk, proc, tmp, count>>
     \/ /\ ~AnyMounted
        /\ Goto("pick")
        /\ disk' = [disk EXCEPT ![active] = Overlay(@, Volumes)]
        /\ UNCHANGED <<proc, tmp, count>>
     \/ /\ ~AnyMounted
        /\ End("cancelled")
        /\ UNCHANGED <<disk, count>>
  /\ UNCHANGED <<local, git, spool, active, history>>

PullEnds ==
  /\ flow.pc = "pick" /\ flow.picks = <<>>
  /\ End("ok")
  /\ UNCHANGED <<local, git, disk, spool, active, history, count>>

PullResolve ==
  /\ flow.pc = "pick" /\ flow.picks # <<>>
  /\ ResolveFor("stat", Head(flow.picks))

(* What is pulled now. *)
Source == IF flow.kind = "host" THEN flow.src ELSE Volume(flow.kind, flow.at)

(* statType: no answer is NONE, and then there is nothing to pull. *)
PullStat ==
  /\ flow.pc = "stat"
  /\ \/ /\ StatType(active, Source) # "NONE"
        /\ flow' = [flow EXCEPT !.picks = IF @ = <<>> THEN @ ELSE Tail(@),
                     !.asked = @ \cup {Source}, !.pay = Nothing,
                     !.pc = IF active \in AdbDevices THEN "adbList" ELSE "stream",
                     !.dev = active]
        /\ tmp' = IF Source.name = "" THEN tmp ELSE tmp \cup {"edge-pull"}
        /\ UNCHANGED <<local, git, disk, spool, active, proc, history, count>>
     \/ /\ StatType(active, Source) = "NONE"
        /\ Refuses
     \/ Throw

PullsFile == Source.name # ""

(* tar | base64 on the device, and the tar that unpacks it here. *)
Unpack(pay, torn) ==
  /\ flow' = [flow EXCEPT !.pc = "untar", !.pay = pay, !.torn = torn,
                          !.clean = @ /\ ~torn]
  /\ tmp' = tmp \cup {"edge-down"}
  /\ Spawn

(* downloadViaTarBase64: the stream may be cut, or empty, without an error. *)
Download ==
  /\ flow.pc = "stream"
  /\ \/ /\ Unpack(Found(active, Source, flow.aside), FALSE)
        /\ UNCHANGED <<local, git, disk, spool, active, history, count>>
     \/ /\ Unnoticed
        /\ Unpack(Found(active, Source, flow.aside), TRUE)
        /\ UNCHANGED <<local, git, disk, spool, active, history>>
     \/ ~PullsFile /\ BecomesUnnoticed(At("rm"))
     \/ Throw

(* The exit code is not read; pullFile then misses a file that is not there. *)
UntarEnds ==
  /\ flow.pc = "untar" /\ proc.state \in {"closed", "killed", "error"}
  /\ \/ \E g \in IF proc.state = "closed" /\ ~flow.torn THEN {flow.pay}
                 ELSE Partial(flow.pay) :
          /\ proc.state # "error"
          /\ PullsFile => g # Nothing
          /\ local' = Overlay(local, g)
          /\ flow' = [flow EXCEPT !.pc = "rm", !.clean = @ /\ proc.state = "closed"]
          /\ proc' = NoProc
          /\ UNCHANGED <<git, disk, spool, active, tmp, history, count>>
     \/ /\ \/ proc.state = "error"
           \/ PullsFile /\ (proc.state = "killed" \/ flow.torn \/ flow.pay = Nothing)
        /\ Refuses

(* downloadViaAdb: the files that the device lists, or lists none of... *)
AdbList ==
  /\ flow.pc = "adbList"
  /\ LET listed == IF PullsFile
                   THEN {x \in {Source} : StatType(active, x) = "FILE"}
                   ELSE {x \in DOMAIN disk[flow.dev] : Below(x, Source)}
     IN  \/ Becomes([flow EXCEPT !.pc = "adbPull", !.jobs = listed])
         \/ BecomesUnnoticed(At("adbPull"))
         \/ Throw

(* ...one by one, from the device whose serial was read at the start. *)
AdbPull ==
  /\ flow.pc = "adbPull"
  /\ \/ flow.jobs = {} /\ (PullsFile => flow.pay # Nothing) /\ Becomes(At("rm"))
     \/ /\ \/ flow.jobs = {} /\ PullsFile /\ flow.pay = Nothing
           \/ flow.jobs \ DOMAIN disk[flow.dev] # {}
        /\ Refuses
     \/ \E x \in flow.jobs \cap DOMAIN disk[flow.dev] :
          LET g == [y \in {Destination(x, Source, flow.aside)} |-> disk[flow.dev][x]]
          IN  \/ /\ local' = Overlay(local, g)
                 /\ flow' = [flow EXCEPT !.jobs = @ \ {x}, !.pay = Overlay(@, g)]
                 /\ UNCHANGED <<git, disk, spool, active, proc, tmp, history, count>>
              \/ /\ Fault /\ Fail
                 /\ \E h \in IF PullsFile THEN {Nothing} ELSE Partial(g) :
                      local' = Overlay(local, h)
                 /\ UNCHANGED disk

(* Variant: what was downloaded is not staged. *)
GitAddNothing == flow.pc = "add" /\ Becomes(At("commit"))

(* commitAsync: git add -A takes in whatever else has changed... *)
GitAdd ==
  /\ flow.pc = "add"
  /\ \/ /\ index' = InRepo(local)
        /\ Goto("commit")
        /\ UNCHANGED <<local, commits, disk, spool, active, proc, tmp, history, count>>
     \/ Throw

(* ...and a git commit that fails is taken for one with nothing to commit. *)
GitCommit ==
  /\ flow.pc = "commit"
  /\ \/ /\ commits' = IF index = HeadTree THEN commits
                       ELSE Append(commits, [tree |-> index, skip |-> TRUE])
        /\ Goto("pick")
        /\ UNCHANGED <<loose, count>>
     \/ /\ Unnoticed
        /\ flow' = [flow EXCEPT !.pc = "pick", !.clean = FALSE]
        /\ loose' = TRUE
        /\ UNCHANGED commits
  /\ UNCHANGED <<local, index, disk, spool, active, proc, tmp, touched>>

----------------------------------------------------------------------------
(* The user and the connection *)

UserStep ==
  /\ Budget /\ count.edits < MaxEdits
  /\ count' = [count EXCEPT !.edits = @ + 1]
  /\ UNCHANGED <<disk, spool, active, proc, tmp>>

Edit(p) ==
  /\ UserStep
  /\ p \in DOMAIN InRepo(local)
  /\ local' = [local EXCEPT ![p] = count.edits + 1]
  /\ touched' = touched \cup {p}
  /\ flow' = [flow EXCEPT !.clean = FALSE]
  /\ UNCHANGED <<git, loose>>

Delete(p) ==
  /\ UserStep
  /\ p \in DOMAIN InRepo(local)
  /\ local' = [x \in DOMAIN local \ {p} |-> local[x]]
  /\ touched' = touched \cup {p}
  /\ flow' = [flow EXCEPT !.clean = FALSE]
  /\ UNCHANGED <<git, loose>>

(* The user commits all there is; downloads in progress are among it. *)
UserCommit ==
  /\ UserStep
  /\ InRepo(local) # HeadTree
  /\ index' = InRepo(local)
  /\ commits' = Append(commits, [tree |-> index', skip |-> FALSE])
  /\ loose' = (loose \/ (flow.op = "pull" /\ ~Idle))
  /\ UNCHANGED <<local, flow, touched>>

(* Another device is connected. *)
Switch(d) ==
  /\ d # active
  /\ Fault
  /\ active' = d
  /\ flow' = [flow EXCEPT !.clean = @ /\ Idle]
  /\ UNCHANGED <<local, git, disk, spool, proc, tmp, history>>

----------------------------------------------------------------------------
Start ==
  \/ PushCancelled
  \/ \E h \in HostPaths \cup {None} :
       \/ PushAll(h)
       \/ \E i \in 1 .. Len(commits) : PushSince(i, h)
       \/ \E p \in Args : PushPath(p, h)
  \/ \E r \in HostPaths, aside \in BOOLEAN : PullHost(r, aside)
  \/ \E picks \in Picks : PullHomey(picks)

Transfer ==
  \/ PushEnds \/ PushResolve \/ PushFile \/ TarEnds \/ EnsureRemoteDir
  \/ Truncate \/ AppendPiece \/ Extract \/ RemoveTmp \/ AdbMkdir \/ AdbPush
  \/ MountCheck \/ PullEnds \/ PullResolve \/ PullStat \/ Download \/ UntarEnds
  \/ AdbList \/ AdbPull \/ GitAdd \/ GitCommit

Child == ChildFinishes \/ ChildError \/ ChildHangs \/ TimeoutFires \/ ChildKilled

User ==
  \/ \E p \in DOMAIN local : Edit(p) \/ Delete(p)
  \/ UserCommit
  \/ \E d \in Devices : Switch(d)

Next == Start \/ Transfer \/ Child \/ User

Spec == Init /\ [][Next]_vars

(* Nothing of the flow can happen: there is none, or it waits for a child   *)
(* that will not end and no timer is set.                                   *)
Waiting == Idle \/ proc = [state |-> "stuck", timeout |-> FALSE, grace |-> FALSE]

(* Every await returns, with its result or by throwing, timers fire, and a  *)
(* signal that cannot be ignored ends the child: weak fairness of the steps *)
(* of the flow and its child, of which one is enabled unless Waiting.       *)
FairSpec == Spec /\ ([]<>Waiting \/ []<><<Transfer \/ Child>>_vars)

PlaceOf(p) == Target(p, Bucket(p), IF Bucket(p) = "host" THEN "" ELSE "docker",
                     flow.path)

(* The files a push was asked for and the place each of them belongs to. *)
Wanted ==
  {[src |-> x, dst |-> [PlaceOf(p) EXCEPT !.name = IF p.name = "" THEN x.name ELSE @]] :
     <<p, x>> \in {q \in flow.asked \X DOMAIN local :
                     Bucket(q[1]) # None /\ Below(q[2], q[1])}}

Delivered ==
  \A w \in Wanted : \E v \in Wanted :
    /\ v.dst = w.dst /\ v.dst \in DOMAIN disk[flow.dev]
    /\ disk[flow.dev][v.dst] = local[v.src]

Completed(op) == Idle /\ flow.op = op /\ flow.result = "ok" /\ flow.clean

(* A path given for host_sync files that renames one, and a directory that *)
(* goes over ADB: pushFile and uploadViaAdb then look for another file.    *)
Renames == flow.path # None /\ \E p \in flow.asked : p.name # flow.path.name
DirectoryOverAdb ==
  /\ flow.dev \in AdbDevices
  /\ \E p \in flow.asked \cup ({flow.path} \ {None}) : p.name = ""

(* A push that reports completion (pushFilesByCategory), in which no        *)
(* command failed and the connection and the files stayed as they were, has *)
(* put every file it was asked for at its place; of files that share a      *)
(* place, one of them.                                                      *)
PushDelivers ==
  Completed("push") /\ ~Renames /\ ~DirectoryOverAdb => Delivered

(* After a pull that reports no error, under the same conditions, HEAD is   *)
(* the working tree and holds what the device holds of all that was pulled  *)
(* (pull, commitAsync): the baseline later pushes are measured against.     *)
PullMirrors ==
  Completed("pull") =>
    /\ HeadTree = InRepo(local)
    /\ \A r \in flow.asked : \A x \in DOMAIN disk[flow.dev] :
         Below(x, r) => LET y == Destination(x, r, flow.aside)
                        IN  y \in DOMAIN local /\ local[y] = disk[flow.dev][x]

(* A push of everything sends a file only if the user has changed it: the   *)
(* downloads are in commits of their own and those are left out             *)
(* (getAllCommitFiles).  A commit the user makes while a pull is on its     *)
(* way, or after one that failed, may hold downloads and is not covered.    *)
DownloadsNotPushed ==
  flow.op = "push" /\ flow.arg = "all" /\ ~loose => flow.asked \subseteq touched

(* A flow writes only where it was asked to.  A device changes by mounting, *)
(* or by a push that was not cancelled and only where a file that was asked *)
(* for belongs (push, _inferFilesFromArg, pushFile); with an empty answer   *)
(* for the docker root it is the same place below the default one.  A pull  *)
(* writes below its own directory, or where it was told to and not into the *)
(* workspace, and a push into neither (pullFile, pullDir, toLocalFromHost). *)
WritesInPlace ==
  [][/\ \A d \in Devices : \A x \in Changed(disk[d], disk'[d]) :
          \/ flow.pc = "mounts"
          \/ /\ flow.op = "push" /\ flow.arg # "none"
             /\ DirectoryOverAdb \/ \E p \in flow.asked :
                  LET y == PlaceOf(p)
                  IN  /\ x.base = y.base /\ x.sub = y.sub
                      /\ y.name \in {x.name, ""}
     /\ count'.edits = count.edits =>
          \A p \in Changed(local, local') :
            /\ flow.op = "pull"
            /\ p.root = IF flow.aside THEN Elsewhere ELSE Marker[flow.kind]]_vars

(* Every flow ends, and leaves neither a temporary directory nor a child    *)
(* process: a tar that hangs is terminated and, if it ignores that, killed  *)
(* (runCommandLine, settle, the finally blocks).                            *)
FlowEnds == ~Idle ~> (Idle /\ tmp = {} /\ proc = NoProc)

=============================================================================
