-------------------------- MODULE DeviceTasksProofs --------------------------
(***************************************************************************)
(* Proofs about the tasks that change a device, for any number of clicks,  *)
(* devices, failing commands, new connections and new views.               *)
(***************************************************************************)
EXTENDS DeviceTasks, TLAPS

USE SMTT(30), Zenon   \* of every step that names no prover: SMT with 30 s, then Zenon

Device == [file : File, loaded : File, runs : File, up : BOOLEAN,
           vols : SUBSET Volumes, rw : BOOLEAN]

Ops == {"mount", "unmount", "enable", "disable", "restart"}
Steps == {"CONNECT", "UNIT", "READ", "HASH", "BACKUP", "STOP", "REMOUNT", "EDIT",
          "REPLACE", "WAIT", "REMOVE", "RELOAD", "RESTART", "VERIFY", "CLEANUP"}

Task == [button : Buttons \cup {"none"}, op : Ops \cup {"none"},
         at : Steps \cup {"PROBE", "idle", "ok", "failed"}, iter : Nat,
         work : File \cup {NoFile}, on : Devices \cup {NoDevice}, todo : Seq(Lines),
         before : File \cup {NoFile},
         backup : [on : Devices, file : File] \cup {NoFile},
         faults : Nat, disturbed : BOOLEAN, router : Nat]

TypeOK ==
  /\ dev \in [Devices -> Device]
  /\ active \in Devices \cup {NoDevice}
  /\ task \in [Tasks -> Task]
  /\ lock \in BOOLEAN
  /\ router \in Nat /\ faults \in Nat /\ upsets \in Nat

Mounting == {"mount", "unmount"}
Toggling == {"enable", "disable"}

(* The steps at which a task of an operation may be, and what it holds of  *)
(* the service file then.                                                  *)
Belongs(r) ==
  /\ r.at = "PROBE" => /\ r.button \in LockTargets
                       /\ r.work = NoFile /\ r.backup = NoFile /\ r.todo = <<>>
  /\ r.at \in Steps =>
       /\ r.op \in Ops /\ r.todo \in Seq(Targets(r.op))
       /\ r.op \in Mounting => r.button = "volume"
       /\ r.op \in Toggling => r.button = "log"
       /\ r.op = "restart" => /\ r.button = "restart" /\ r.at \in {"CONNECT", "UNIT", "RESTART"}
                              /\ r.work = NoFile /\ r.backup = NoFile
       /\ r.at \in {"STOP", "REMOVE"} => r.op = "unmount"

(* What lies between PROBE and the replacement of the file, between READ   *)
(* and it, and after it.                                                   *)
UpToReplace == {"CONNECT", "UNIT", "READ", "HASH", "BACKUP", "STOP", "REMOUNT", "EDIT", "REPLACE"}
HasWork == {"HASH", "BACKUP", "STOP", "REMOUNT", "EDIT", "REPLACE"}
Replaced == {"WAIT", "REMOVE", "RELOAD", "RESTART", "VERIFY", "CLEANUP"}

(* The work copy is as the operation wants it: the toggles remount the     *)
(* root after they edit, the others before.                                *)
Edited(r) == r.at = "REPLACE" \/ (r.at = "REMOUNT" /\ r.op \in Toggling)

(* What a toggle has in its hands until it has replaced the file, when     *)
(* nothing came between and no command went wrong: a is the connection and *)
(* D the device.                                                           *)
SaneCopy(r, D, a) ==
  /\ r.op = "enable" => D.file["log"] = 0
  /\ r.op = "disable" => D.file["log"] > 0
  /\ r.at \in HasWork => /\ r.work \in File /\ r.on = a
                         /\ r.op \in {"unmount", "disable"} => r.todo = <<>>
  /\ r.at \in HasWork /\ ~Edited(r) /\ r.op \in {"mount", "enable"} =>
       \A l \in Targets(r.op) : r.work[l] > 0 \/ \E i \in DOMAIN r.todo : r.todo[i] = l
  /\ r.at \in HasWork \ {"HASH"} => r.before = D.file
  /\ r.at \in HasWork \ {"HASH", "BACKUP"} => D.rw = TRUE
  /\ Edited(r) => Wants(r.op, r.work)
  /\ r.op = "unmount" /\ r.at \in {"REMOUNT", "EDIT", "REPLACE"} => D.up = FALSE

(* The same from there on. *)
SaneDevice(r, D) ==
  /\ Wants(r.op, D.file)
  /\ r.at = "WAIT" => /\ r.op = "enable" => r.before \in File /\ r.before["log"] = 0
                      /\ r.op = "disable" => r.before \in File /\ r.before["log"] > 0
  /\ r.op = "unmount" /\ r.at \in {"WAIT", "REMOVE"} => D.up = FALSE
  /\ r.op = "unmount" /\ r.at \notin {"WAIT", "REMOVE"} => D.vols = {}
  /\ r.at = "RESTART" => D.loaded = D.file
  /\ r.at \in {"VERIFY", "CLEANUP"} => /\ D.runs = D.file /\ D.up = TRUE
                                       /\ r.op = "mount" => D.vols # {}

Sane(r, D, a) ==
  r.at \in Steps /\ r.op # "restart" =>
    /\ a \in Devices
    /\ r.at \in UpToReplace => SaneCopy(r, D, a)
    /\ r.at \in Replaced => SaneDevice(r, D)

(* What is known of one task: what it is alone with, what it found, and    *)
(* what the last check of its runner told it.                              *)
TaskInv(t) ==
  LET r == task[t]
  IN  /\ Belongs(r)
      /\ r.at \in Steps \ {"CONNECT"} => active \in Devices
      /\ t \in Running /\ ~r.disturbed => Running = {t}
      /\ t \in Running /\ ~r.disturbed /\ r.faults = 0 => Sane(r, Here, active)
      /\ ~r.disturbed /\ r.faults <= 1 /\ r.at = "CLEANUP" => Wants(r.op, Here.file)
      /\ r.at = "failed" => r.faults > 0 \/ r.disturbed

(* With one router the lock is held as long as a toggle runs, so there is  *)
(* one at most, and only it changes files.                                 *)
LockInv ==
  router = 0 =>
    /\ \A t \in Tasks : task[t].router = 0
    /\ \A t \in Running : task[t].button \in LockTargets =>
         /\ lock = TRUE
         /\ \A u \in Running : task[u].button \in LockTargets => u = t

(* The work copy and the backup of task r are of the files in dv. *)
Copies(r, dv) ==
  /\ r.work # NoFile => /\ r.on \in Devices
                        /\ \A l \in Lines \ Targets(r.op) : r.work[l] = dv[r.on].file[l]
  /\ r.backup # NoFile => r.backup.file = dv[r.backup.on].file

CopyInv ==
  router = 0 => \A t \in Tasks : task[t].at \in UpToReplace => Copies(task[t], dev)

DeviceInv == TypeOK /\ (\A t \in Tasks : TaskInv(t)) /\ LockInv /\ CopyInv

-----------------------------------------------------------------------------
(* The engine's order of the steps of each operation. *)
Succ(op, s) ==
  CASE s = "CONNECT" -> "UNIT"
    [] s = "UNIT" -> IF op = "restart" THEN "RESTART" ELSE "READ"
    [] s = "READ" -> "HASH"
    [] s = "HASH" -> "BACKUP"
    [] s = "BACKUP" -> IF op = "mount" THEN "REMOUNT" ELSE IF op = "unmount" THEN "STOP" ELSE "EDIT"
    [] s = "STOP" -> "REMOUNT"
    [] s = "REMOUNT" -> IF op \in Toggling THEN "REPLACE" ELSE "EDIT"
    [] s = "EDIT" -> IF op \in Toggling THEN "REMOUNT" ELSE "REPLACE"
    [] s = "REPLACE" -> "WAIT"
    [] s = "WAIT" -> IF op = "unmount" THEN "REMOVE" ELSE "RELOAD"
    [] s = "REMOVE" -> "RELOAD"
    [] s = "RELOAD" -> "RESTART"
    [] s = "RESTART" -> IF op = "restart" THEN "ok" ELSE "VERIFY"
    [] s = "VERIFY" -> "CLEANUP"
    [] s = "CLEANUP" -> "ok"

(* What \o gives, and when two sequences are equal. *)
LEMMA ConcatFacts ==
  ASSUME NEW S, NEW s \in Seq(S), NEW t \in Seq(S)
  PROVE  /\ s \o t \in Seq(S) /\ Len(s \o t) = Len(s) + Len(t)
         /\ \A i \in 1..Len(s) + Len(t) :
              (s \o t)[i] = IF i <= Len(s) THEN s[i] ELSE t[i - Len(s)]
OBVIOUS

LEMMA SameElements ==
  ASSUME NEW S, NEW s \in Seq(S), NEW t \in Seq(S), Len(s) = Len(t),
         \A i \in 1..Len(s) : s[i] = t[i]
  PROVE  s = t
OBVIOUS

(* Three tuples of steps in a row are the tuple that has them all. *)
LEMMA Joined ==
  ASSUME NEW S, NEW a \in Seq(S), NEW b \in Seq(S), NEW c \in Seq(S), NEW p \in Seq(S),
         Len(p) = Len(a) + Len(b) + Len(c),
         \A i \in 1..Len(a) : p[i] = a[i],
         \A i \in 1..Len(b) : p[i + Len(a)] = b[i],
         \A i \in 1..Len(c) : p[i + Len(a) + Len(b)] = c[i]
  PROVE  a \o b \o c = p
<1> DEFINE q == a \o b
<1>0. Len(a) \in Nat /\ Len(b) \in Nat /\ Len(c) \in Nat /\ Len(p) \in Nat
  OBVIOUS
<1>1. /\ q \in Seq(S) /\ Len(q) = Len(a) + Len(b)
      /\ \A i \in 1..Len(a) + Len(b) : q[i] = IF i <= Len(a) THEN a[i] ELSE b[i - Len(a)]
  BY ConcatFacts
<1> HIDE DEF q
<1>2. /\ q \o c \in Seq(S) /\ Len(q \o c) = Len(q) + Len(c)
      /\ \A i \in 1..Len(q) + Len(c) : (q \o c)[i] = IF i <= Len(q) THEN q[i] ELSE c[i - Len(q)]
  BY <1>1, ConcatFacts, Zenon
<1>3. ASSUME NEW i \in 1..Len(p) PROVE (q \o c)[i] = p[i]
  <2>0. i \in Nat /\ i >= 1 /\ i <= Len(a) + Len(b) + Len(c)
    BY <1>0
  <2>1. CASE i <= Len(a)
    <3>1. (q \o c)[i] = q[i]
      BY <1>0, <1>1, <1>2, <2>0, <2>1
    <3>2. q[i] = a[i]
      BY <1>0, <1>1, <2>0, <2>1
    <3> QED BY <1>0, <2>0, <2>1, <3>1, <3>2
  <2>2. CASE i > Len(a) /\ i <= Len(a) + Len(b)
    <3>1. (q \o c)[i] = b[i - Len(a)] /\ i - Len(a) \in 1..Len(b)
      BY <1>0, <1>1, <1>2, <2>2
    <3>2. p[(i - Len(a)) + Len(a)] = b[i - Len(a)]
      BY <3>1, Zenon
    <3> QED BY <1>0, <3>1, <3>2
  <2>3. CASE i > Len(a) + Len(b)
    <3>1. (q \o c)[i] = c[i - Len(q)] /\ i - Len(q) \in 1..Len(c)
      BY <1>0, <1>1, <1>2, <2>3
    <3>2. p[(i - Len(q)) + Len(a) + Len(b)] = c[i - Len(q)]
      BY <3>1, Zenon
    <3>3. (i - Len(q)) + Len(a) + Len(b) = i
      BY <1>0, <1>1, <2>0
    <3> QED BY <3>1, <3>2, <3>3, Zenon
  <2>4. i <= Len(a) \/ (i > Len(a) /\ i <= Len(a) + Len(b)) \/ i > Len(a) + Len(b)
    BY <1>0, <2>0
  <2> QED BY <2>1, <2>2, <2>3, <2>4, Zenon
<1>4. q \o c = p
  BY <1>0, <1>1, <1>2, <1>3, SameElements, Zenon
<1> QED BY <1>4 DEF q

(* A step that occurs once in a plan is followed by the one behind it. *)
LEMMA NextInPlan ==
  ASSUME NEW S, NEW p \in Seq(S), NEW op, Plan(op) = p, NEW k \in 1..Len(p),
         \A i \in 1..Len(p) : p[i] = p[k] => i = k
  PROVE  Follow(op, p[k]) = p[k + 1]
<1>1. (CHOOSE i \in 1..Len(p) : p[i] = p[k]) = k
  OBVIOUS
<1>2. Follow(op, p[k]) = p[1 + CHOOSE i \in 1..Len(p) : p[i] = p[k]]
  BY DEF Follow
<1>3. 1 + k = k + 1
  BY Z3
<1> QED BY <1>1, <1>2, <1>3

Names == Steps \cup {"PROBE", "ok"}

LEMMA FollowMount == \A s \in Steps \ {"STOP", "REMOVE"} : Follow("mount", s) = Succ("mount", s)
<1> DEFINE p == <<"PROBE", "CONNECT", "UNIT", "READ", "HASH", "BACKUP", "REMOUNT",
                   "EDIT", "REPLACE", "WAIT", "RELOAD", "RESTART", "VERIFY", "CLEANUP",
                   "ok">>
<1>0. p \in Seq(Names) /\ Len(p) = 15
  BY DEF Names, Steps
<1>1. Plan("mount") = p
  <2> DEFINE m == <<"REMOUNT", "EDIT", "REPLACE", "WAIT", "RELOAD">>
  <2>1. /\ Opening \in Seq(Names) /\ Len(Opening) = 6
        /\ Closing \in Seq(Names) /\ Len(Closing) = 4
        /\ m \in Seq(Names) /\ Len(m) = 5
    BY DEF Opening, Closing, Names, Steps
  <2>2. /\ \A i \in 1..6 : p[i] = Opening[i]
        /\ \A i \in 1..5 : p[i + 6] = m[i]
        /\ \A i \in 1..4 : p[i + 6 + 5] = Closing[i]
    BY DEF Opening, Closing
  <2>3. Plan("mount") = Opening \o m \o Closing
    BY DEF Plan, MountPlan
  <2> HIDE DEF m, p
  <2>4. /\ Len(p) = Len(Opening) + Len(m) + Len(Closing)
        /\ \A i \in 1..Len(Opening) : p[i] = Opening[i]
        /\ \A i \in 1..Len(m) : p[i + Len(Opening)] = m[i]
        /\ \A i \in 1..Len(Closing) : p[i + Len(Opening) + Len(m)] = Closing[i]
    BY <1>0, <2>1, <2>2
  <2>5. Opening \o m \o Closing = p
    BY <1>0, <2>1, <2>4, Joined, ZenonT(30)
  <2> QED BY <2>3, <2>5
<1>2. ASSUME NEW k \in 1..14 PROVE \A i \in 1..15 : p[i] = p[k] => i = k
  OBVIOUS
<1>3. ASSUME NEW k \in 2..14 PROVE Succ("mount", p[k]) = p[k + 1]
  BY DEF Succ, Toggling
<1>4. ASSUME NEW s \in Steps \ {"STOP", "REMOVE"} PROVE \E k \in 2..14 : p[k] = s
  BY DEF Steps
<1> HIDE DEF p
<1>5. ASSUME NEW k \in 2..14 PROVE Follow("mount", p[k]) = p[k + 1]
  <2>1. k \in 1..Len(p) /\ \A i \in 1..Len(p) : p[i] = p[k] => i = k
    BY <1>0, <1>2
  <2> QED BY <1>0, <1>1, <2>1, NextInPlan, Zenon
<1> QED BY <1>3, <1>4, <1>5

LEMMA FollowUnmount == \A s \in Steps : Follow("unmount", s) = Succ("unmount", s)
<1> DEFINE p == <<"PROBE", "CONNECT", "UNIT", "READ", "HASH", "BACKUP", "STOP",
                   "REMOUNT", "EDIT", "REPLACE", "WAIT", "REMOVE", "RELOAD", "RESTART",
                   "VERIFY", "CLEANUP", "ok">>
<1>0. p \in Seq(Names) /\ Len(p) = 17
  BY DEF Names, Steps
<1>1. Plan("unmount") = p
  <2> DEFINE m == <<"STOP", "REMOUNT", "EDIT", "REPLACE", "WAIT", "REMOVE", "RELOAD">>
  <2>1. /\ Opening \in Seq(Names) /\ Len(Opening) = 6
        /\ Closing \in Seq(Names) /\ Len(Closing) = 4
        /\ m \in Seq(Names) /\ Len(m) = 7
    BY DEF Opening, Closing, Names, Steps
  <2>2. /\ \A i \in 1..6 : p[i] = Opening[i]
        /\ \A i \in 1..7 : p[i + 6] = m[i]
        /\ \A i \in 1..4 : p[i + 6 + 7] = Closing[i]
    BY DEF Opening, Closing
  <2>3. Plan("unmount") = Opening \o m \o Closing
    BY DEF Plan, UnmountPlan
  <2> HIDE DEF m, p
  <2>4. /\ Len(p) = Len(Opening) + Len(m) + Len(Closing)
        /\ \A i \in 1..Len(Opening) : p[i] = Opening[i]
        /\ \A i \in 1..Len(m) : p[i + Len(Opening)] = m[i]
        /\ \A i \in 1..Len(Closing) : p[i + Len(Opening) + Len(m)] = Closing[i]
    BY <1>0, <2>1, <2>2
  <2>5. Opening \o m \o Closing = p
    BY <1>0, <2>1, <2>4, Joined, ZenonT(30)
  <2> QED BY <2>3, <2>5
<1>2. ASSUME NEW k \in 1..16 PROVE \A i \in 1..17 : p[i] = p[k] => i = k
  OBVIOUS
<1>3. ASSUME NEW k \in 2..16 PROVE Succ("unmount", p[k]) = p[k + 1]
  BY DEF Succ, Toggling
<1>4. ASSUME NEW s \in Steps PROVE \E k \in 2..16 : p[k] = s
  BY DEF Steps
<1> HIDE DEF p
<1>5. ASSUME NEW k \in 2..16 PROVE Follow("unmount", p[k]) = p[k + 1]
  <2>1. k \in 1..Len(p) /\ \A i \in 1..Len(p) : p[i] = p[k] => i = k
    BY <1>0, <1>2
  <2> QED BY <1>0, <1>1, <2>1, NextInPlan, Zenon
<1> QED BY <1>3, <1>4, <1>5

LEMMA FollowToggle ==
  \A op \in Toggling, s \in Steps \ {"STOP", "REMOVE"} : Follow(op, s) = Succ(op, s)
<1> SUFFICES ASSUME NEW op \in Toggling
             PROVE  \A s \in Steps \ {"STOP", "REMOVE"} : Follow(op, s) = Succ(op, s)
  OBVIOUS
<1> DEFINE p == <<"PROBE", "CONNECT", "UNIT", "READ", "HASH", "BACKUP", "EDIT",
                   "REMOUNT", "REPLACE", "WAIT", "RELOAD", "RESTART", "VERIFY",
                   "CLEANUP", "ok">>
<1>0. p \in Seq(Names) /\ Len(p) = 15
  BY DEF Names, Steps
<1>1. Plan(op) = p
  <2> DEFINE m == <<"EDIT", "REMOUNT", "REPLACE", "WAIT", "RELOAD">>
  <2>1. /\ Opening \in Seq(Names) /\ Len(Opening) = 6
        /\ Closing \in Seq(Names) /\ Len(Closing) = 4
        /\ m \in Seq(Names) /\ Len(m) = 5
    BY DEF Opening, Closing, Names, Steps
  <2>2. /\ \A i \in 1..6 : p[i] = Opening[i]
        /\ \A i \in 1..5 : p[i + 6] = m[i]
        /\ \A i \in 1..4 : p[i + 6 + 5] = Closing[i]
    BY DEF Opening, Closing
  <2>3. Plan(op) = Opening \o m \o Closing
    BY DEF Toggling, Plan, TogglePlan
  <2> HIDE DEF m, p
  <2>4. /\ Len(p) = Len(Opening) + Len(m) + Len(Closing)
        /\ \A i \in 1..Len(Opening) : p[i] = Opening[i]
        /\ \A i \in 1..Len(m) : p[i + Len(Opening)] = m[i]
        /\ \A i \in 1..Len(Closing) : p[i + Len(Opening) + Len(m)] = Closing[i]
    BY <1>0, <2>1, <2>2
  <2>5. Opening \o m \o Closing = p
    BY <1>0, <2>1, <2>4, Joined, ZenonT(30)
  <2> QED BY <2>3, <2>5
<1>2. ASSUME NEW k \in 1..14 PROVE \A i \in 1..15 : p[i] = p[k] => i = k
  OBVIOUS
<1>3. ASSUME NEW k \in 2..14 PROVE Succ(op, p[k]) = p[k + 1]
  BY DEF Succ, Toggling
<1>4. ASSUME NEW s \in Steps \ {"STOP", "REMOVE"} PROVE \E k \in 2..14 : p[k] = s
  BY DEF Steps
<1> HIDE DEF p
<1>5. ASSUME NEW k \in 2..14 PROVE Follow(op, p[k]) = p[k + 1]
  <2>1. k \in 1..Len(p) /\ \A i \in 1..Len(p) : p[i] = p[k] => i = k
    BY <1>0, <1>2
  <2> QED BY <1>0, <1>1, <2>1, NextInPlan, Zenon
<1> QED BY <1>3, <1>4, <1>5

LEMMA FollowRestart ==
  \A s \in {"CONNECT", "UNIT", "RESTART"} : Follow("restart", s) = Succ("restart", s)
<1> DEFINE p == <<"CONNECT", "UNIT", "RESTART", "ok">>
<1>1. p \in Seq(Names) /\ Len(p) = 4 /\ Plan("restart") = p
  BY DEF Names, Steps, Plan, RestartPlan
<1>2. ASSUME NEW k \in 1..3 PROVE \A i \in 1..4 : p[i] = p[k] => i = k
  OBVIOUS
<1>3. ASSUME NEW k \in 1..3 PROVE Succ("restart", p[k]) = p[k + 1]
  BY DEF Succ
<1>4. ASSUME NEW s \in {"CONNECT", "UNIT", "RESTART"} PROVE \E k \in 1..3 : p[k] = s
  OBVIOUS
<1> HIDE DEF p
<1>5. ASSUME NEW k \in 1..3 PROVE Follow("restart", p[k]) = p[k + 1]
  <2>1. k \in 1..Len(p) /\ \A i \in 1..Len(p) : p[i] = p[k] => i = k
    BY <1>1, <1>2
  <2> QED BY <1>1, <2>1, NextInPlan, Zenon
<1> QED BY <1>3, <1>4, <1>5

LEMMA FollowSucc ==
  ASSUME NEW r, Belongs(r), r.at \in Steps
  PROVE  Follow(r.op, r.at) = Succ(r.op, r.at)
<1>1. r.op \in Ops /\ (r.op = "restart" => r.at \in {"CONNECT", "UNIT", "RESTART"})
      /\ (r.at \in {"STOP", "REMOVE"} => r.op = "unmount")
  BY DEF Belongs
<1> QED BY <1>1, FollowMount, FollowUnmount, FollowToggle, FollowRestart DEF Ops, Toggling

(* What of a task its own steps leave as it is, the count of its bad       *)
(* commands apart; and what it holds of the service file.                  *)
Same(r, q) ==
  /\ r.button = q.button /\ r.op = q.op /\ r.router = q.router
  /\ r.disturbed = q.disturbed /\ r.faults = q.faults
SameCopy(r, q) ==
  r.work = q.work /\ r.on = q.on /\ r.todo = q.todo /\ r.before = q.before /\ r.backup = q.backup

LEMMA GotoFields ==
  ASSUME NEW q \in Task, Belongs(q), q.at \in Steps
  PROVE  /\ Goto(q) \in Task /\ Goto(q).at = Succ(q.op, q.at)
         /\ Same(Goto(q), q) /\ SameCopy(Goto(q), q) /\ Belongs(Goto(q))
<1>1. Follow(q.op, q.at) = Succ(q.op, q.at)
  BY FollowSucc
<1>2. Succ(q.op, q.at) \in Steps \cup {"ok"}
  BY DEF Succ, Steps
<1>3. Goto(q) = [q EXCEPT !.at = Succ(q.op, q.at), !.iter = 1]
  BY <1>1 DEF Goto
<1> DEFINE r == Goto(q)
<1>4. r \in Task /\ r.at = Succ(q.op, q.at)
  <2> DEFINE x == Succ(q.op, q.at)
  <2>1. x \in Steps \cup {"PROBE", "idle", "ok", "failed"}
    BY <1>2
  <2>2. r = [q EXCEPT !.at = x, !.iter = 1] /\ 1 \in Nat
    BY <1>3
  <2> HIDE DEF x, r
  <2> QED BY <2>1, <2>2, Zenon DEF x, Task
<1>5. Same(r, q) /\ SameCopy(r, q)
  BY <1>3 DEF Task, Same, SameCopy
<1>6. Belongs(r)
  <2> HIDE DEF r
  <2> QED BY <1>4, <1>5, <1>2, ZenonT(40) DEF Belongs, Same, SameCopy, Succ, Steps, Ops, Mounting, Toggling
<1> QED BY <1>4, <1>5, <1>6

LEMMA ThrowFields ==
  ASSUME NEW q \in Task, q.at \in Steps
  PROVE  /\ Throw(q) \in Task /\ Throw(q).at = "failed"
         /\ Same(Throw(q), q) /\ Belongs(Throw(q))
<1>1. Throw(q) \in Task /\ Throw(q).at = "failed" /\ Same(Throw(q), q)
  BY DEF Throw, Task, Same
<1> QED BY <1>1 DEF Belongs, Steps

LEMMA RetryFields ==
  ASSUME NEW q \in Task, Belongs(q), q.at \in Steps
  PROVE  /\ Retry(q) \in Task /\ Retry(q).at \in {q.at, "failed"}
         /\ Same(Retry(q), q) /\ Belongs(Retry(q))
         /\ Retry(q).at = q.at => SameCopy(Retry(q), q)
<1>1. CASE q.iter >= MaxIterations(q.op, q.at)
  <2>1. Retry(q) = Throw(q)
    BY <1>1 DEF Retry
  <2> QED BY <2>1, ThrowFields DEF Steps
<1>2. CASE ~(q.iter >= MaxIterations(q.op, q.at))
  <2> DEFINE r == [q EXCEPT !.iter = @ + 1]
  <2>1. Retry(q) = r
    BY <1>2 DEF Retry
  <2>2. r \in Task /\ r.at = q.at /\ Same(r, q) /\ SameCopy(r, q)
    BY DEF Task, Same, SameCopy
  <2> HIDE DEF r
  <2>3. Belongs(r)
    BY <2>2 DEF Belongs, Same, SameCopy
  <2> QED BY <2>1, <2>2, <2>3
<1> QED BY <1>1, <1>2

-----------------------------------------------------------------------------
(* A task q about to send a command, the device H and the connection a.    *)
Found(q, H, a) ==
  /\ q \in Task /\ Belongs(q) /\ q.at \in Steps
  /\ H \in Device /\ a \in Devices
  /\ ~q.disturbed /\ q.faults = 0 => Sane(q, H, a)

(* The copies of r are those of q, taken from the device, or an edit of    *)
(* the work copy that leaves the other buttons' lines alone.               *)
Derived(r, q, H, a) ==
  /\ \/ r.work = NoFile
     \/ r.work = q.work /\ r.on = q.on
     \/ r.work = H.file /\ r.on = a
     \/ /\ q.work # NoFile /\ r.on = q.on
        /\ \A l \in Lines \ Targets(q.op) : r.work[l] = q.work[l]
  /\ r.backup \in {NoFile, q.backup, [on |-> a, file |-> H.file]}

(* The command of outcome o leaves the device as D and the task as r, and  *)
(* that fits the invariant.                                                *)
Fits(q, o, H, D, r, a) ==
  /\ D \in Device /\ r \in Task /\ Same(r, q) /\ Belongs(r)
  /\ r.at \in Steps \cup {"ok", "failed"}
  /\ r.at = "failed" => o # Clean \/ q.disturbed \/ q.faults > 0
  /\ ~q.disturbed /\ q.faults = 0 /\ o = Clean => Sane(r, D, a)
  /\ ~q.disturbed /\ q.faults + Cost(o) <= 1 /\ r.at = "CLEANUP" => Wants(r.op, D.file)
  /\ q.at # "REPLACE" => D.file = H.file
  /\ r.at \in UpToReplace => q.at \in UpToReplace \ {"REPLACE"} /\ Derived(r, q, H, a)

LEMMA FitsThrow ==
  ASSUME NEW q, NEW o, NEW H, NEW D \in Device, NEW a, Found(q, H, a),
         o # Clean \/ q.disturbed \/ q.faults > 0,
         q.at # "REPLACE" => D.file = H.file,
         NEW p \in Task, Same(p, q), p.at \in Steps
  PROVE  Fits(q, o, H, D, Throw(p), a)
<1> DEFINE r == Throw(p)
<1>1. r \in Task /\ r.at = "failed" /\ Same(r, p) /\ Belongs(r)
  BY ThrowFields
<1> HIDE DEF r
<1>2. Same(r, q)
  BY <1>1 DEF Same
<1>3. Sane(r, D, a)
  BY <1>1 DEF Sane, Steps
<1> QED BY <1>1, <1>2, <1>3 DEF Fits, UpToReplace, r

LEMMA FitsGoto ==
  ASSUME NEW q, NEW o, NEW H, NEW D \in Device, NEW a, Found(q, H, a), q.at # "VERIFY",
         NEW p \in Task, Same(p, q), Belongs(p), p.at = q.at,
         q.at # "REPLACE" => D.file = H.file /\ Derived(p, q, H, a),
         ~q.disturbed /\ q.faults = 0 /\ o = Clean => Sane(Goto(p), D, a)
  PROVE  Fits(q, o, H, D, Goto(p), a)
<1> DEFINE r == Goto(p)
<1>1. /\ r \in Task /\ r.at = Succ(p.op, p.at) /\ Same(r, p) /\ SameCopy(r, p) /\ Belongs(r)
  BY GotoFields DEF Found
<1> HIDE DEF r
<1>2. Same(r, q)
  BY <1>1 DEF Same
<1>3. /\ r.at \in Steps \cup {"ok"} /\ r.at # "failed"
      /\ q.at # "VERIFY" => r.at # "CLEANUP"
      /\ r.at \in UpToReplace => q.at \in UpToReplace \ {"REPLACE"}
  BY <1>1, Zenon DEF Succ, Steps, UpToReplace, Found
<1>4. q.at # "REPLACE" => Derived(r, q, H, a)
  BY <1>1 DEF SameCopy, Derived
<1>5. ~q.disturbed /\ q.faults = 0 /\ o = Clean => Sane(r, D, a)
  BY DEF r
<1> QED BY <1>1, <1>2, <1>3, <1>4, <1>5 DEF Fits, r

LEMMA FitsUnit ==
  ASSUME NEW q, NEW H, NEW a, Found(q, H, a), q.at = "UNIT", NEW o \in Outcomes,
         NEW found \in BOOLEAN, o = Clean => found
  PROVE  Fits(q, o, H, H, IF found THEN Goto(q) ELSE Throw(q), a)
<1>0. /\ q \in Task /\ H \in Device /\ Belongs(q) /\ q.at \in Steps /\ Same(q, q)
      /\ Derived(q, q, H, a)
  BY DEF Found, Same, Derived
<1>1. CASE found
  <2> DEFINE r == Goto(q)
  <2>1. r.at = (IF q.op = "restart" THEN "RESTART" ELSE "READ") /\ Same(r, q) /\ SameCopy(r, q)
    BY <1>0, GotoFields DEF Succ
  <2> HIDE DEF r
  <2>2. ~q.disturbed /\ q.faults = 0 => Sane(r, H, a)
    BY <2>1 DEF Found, Sane, SaneCopy, Same, UpToReplace, Replaced, HasWork, Edited, Steps
  <2> QED BY <1>0, <1>1, <2>2, FitsGoto DEF r
<1>2. CASE ~found
  BY <1>0, <1>2, FitsThrow
<1> QED BY <1>1, <1>2

LEMMA FitsOrThrow ==
  ASSUME NEW q, NEW o \in Outcomes, NEW H, NEW D \in Device, NEW a, Found(q, H, a),
         q.at \notin {"VERIFY", "REPLACE"},
         NEW p \in Task, Same(p, q), Belongs(p), p.at = q.at,
         D.file = H.file, Derived(p, q, H, a),
         ~q.disturbed /\ q.faults = 0 /\ o = Clean => Sane(Goto(p), D, a)
  PROVE  Fits(q, o, H, D, OrThrow(o, p), a)
<1>1. CASE o.answered
  BY <1>1, FitsGoto DEF OrThrow
<1>2. CASE ~o.answered
  <2>1. o # Clean /\ p.at \in Steps
    BY <1>2 DEF Clean, Found
  <2> QED BY <1>2, <2>1, FitsThrow DEF OrThrow
<1> QED BY <1>1, <1>2

LEMMA InsertionsFacts ==
  ASSUME NEW op \in Ops, NEW seen
  PROVE  /\ Insertions(op, seen) \in Seq(Targets(op))
         /\ op \in {"mount", "enable"} => \A l \in Targets(op) :
              l \in seen \/ \E i \in DOMAIN Insertions(op, seen) : Insertions(op, seen)[i] = l
         /\ op \notin {"mount", "enable"} => Insertions(op, seen) = <<>>
<1>1. CASE op = "mount"
  <2>1. Insertions(op, seen) = Missing("app", seen) \o Missing("node", seen) /\ Targets(op) = {"app", "node"}
    BY <1>1 DEF Insertions, Targets, Volumes
  <2>2. CASE "app" \in seen /\ "node" \in seen
    <3>1. Insertions(op, seen) = <<>>
      BY <2>1, <2>2 DEF Missing
    <3> QED BY <1>1, <2>1, <2>2, <3>1
  <2>3. CASE "app" \in seen /\ "node" \notin seen
    <3>1. Insertions(op, seen) = <<"node">>
      BY <2>1, <2>3 DEF Missing
    <3> QED BY <1>1, <2>1, <2>3, <3>1
  <2>4. CASE "app" \notin seen /\ "node" \in seen
    <3>1. Insertions(op, seen) = <<"app">>
      BY <2>1, <2>4 DEF Missing
    <3> QED BY <1>1, <2>1, <2>4, <3>1
  <2>5. CASE "app" \notin seen /\ "node" \notin seen
    <3> DEFINE i == <<"app">>
               j == <<"node">>
    <3>1. Insertions(op, seen) = i \o j
      BY <2>1, <2>5 DEF Missing
    <3>2. i \in Seq(Targets(op)) /\ j \in Seq(Targets(op)) /\ Len(i) = 1 /\ Len(j) = 1
          /\ i[1] = "app" /\ j[1] = "node"
      BY <2>1
    <3> HIDE DEF i, j
    <3>3. /\ i \o j \in Seq(Targets(op)) /\ Len(i \o j) = Len(i) + Len(j)
          /\ \A k \in 1..Len(i) + Len(j) : (i \o j)[k] = IF k <= Len(i) THEN i[k] ELSE j[k - Len(i)]
      BY <3>2, ConcatFacts
    <3>4. Len(i \o j) = 2 /\ (i \o j)[1] = "app" /\ (i \o j)[2] = "node"
      BY <3>2, <3>3
    <3>5. DOMAIN (i \o j) = 1..2
      BY <3>3, <3>4
    <3> QED BY <1>1, <2>1, <3>1, <3>3, <3>4, <3>5
  <2> QED BY <2>2, <2>3, <2>4, <2>5
<1>2. CASE op = "enable"
  <2>1. Insertions(op, seen) = Missing("log", seen) /\ Targets(op) = {"log"}
    BY <1>2 DEF Insertions, Targets
  <2>2. CASE "log" \in seen
    <3>1. Insertions(op, seen) = <<>>
      BY <2>1, <2>2 DEF Missing
    <3>2. \A l \in Targets(op) : l \in seen
      BY <2>1, <2>2
    <3>3. Insertions(op, seen) \in Seq(Targets(op))
      BY <3>1
    <3> QED BY <1>2, <3>2, <3>3
  <2>3. CASE "log" \notin seen
    BY <1>2, <2>1, <2>3 DEF Missing
  <2> QED BY <2>2, <2>3
<1>3. CASE op \notin {"mount", "enable"}
  BY <1>3 DEF Insertions
<1> QED BY <1>1, <1>2, <1>3

LEMMA FitsRead ==
  ASSUME NEW q, NEW H, NEW a, Found(q, H, a), q.at = "READ", NEW o \in Outcomes,
         NEW w \in {H.file, NoFile}, o = Clean => w = H.file,
         NEW seen, o = Clean => seen = {l \in Lines : Contains(w, l)}
  PROVE  Fits(q, o, H, H,
              OrThrow(o, [q EXCEPT !.work = w, !.on = a, !.todo = Insertions(q.op, seen)]), a)
<1>0. /\ q \in Task /\ H \in Device /\ a \in Devices /\ Belongs(q)
      /\ q.op \in Ops /\ q.op # "restart" /\ H.file \in File
  BY DEF Found, Belongs, Steps, Device
<1> DEFINE ins == Insertions(q.op, seen)
           p == [q EXCEPT !.work = w, !.on = a, !.todo = ins]
<1>1. /\ ins \in Seq(Targets(q.op)) /\ ins \in Seq(Lines) /\ w \in File \cup {NoFile}
      /\ q.op \in {"mount", "enable"} => \A l \in Targets(q.op) :
           l \in seen \/ \E i \in DOMAIN ins : ins[i] = l
      /\ q.op \notin {"mount", "enable"} => ins = <<>>
  <2>1. ins \in Seq(Targets(q.op)) => ins \in Seq(Lines)
    BY DEF Targets, Lines
  <2> HIDE DEF ins
  <2> QED BY <1>0, <2>1, InsertionsFacts DEF ins
<1> HIDE DEF ins
<1>2. /\ p \in Task /\ p.at = q.at /\ p.work = w /\ p.on = a /\ p.todo = ins /\ p.backup = q.backup
      /\ Same(p, q)
  BY <1>0, <1>1, Zenon DEF Task, Same
<1> HIDE DEF p
<1>3. Belongs(p) /\ Derived(p, q, H, a)
  BY <1>0, <1>1, <1>2 DEF Belongs, Same, Derived
<1>4. ASSUME ~q.disturbed, q.faults = 0, o = Clean PROVE Sane(Goto(p), H, a)
  <2> DEFINE r == Goto(p)
  <2>1. r.at = "HASH" /\ Same(r, p) /\ SameCopy(r, p)
    BY <1>2, <1>3, GotoFields DEF Succ, Steps
  <2> HIDE DEF r
  <2>2. SaneCopy(q, H, a)
    BY <1>0, <1>4 DEF Found, Sane, UpToReplace, Steps
  <2>3. w = H.file /\ w \in File /\ \A l \in Lines : l \in seen => w[l] > 0
    BY <1>0, <1>4 DEF Contains
  <2>4. Targets(q.op) \subseteq Lines
    BY DEF Targets, Lines
  <2>5. SaneCopy(r, H, a)
    BY <1>0, <1>1, <1>2, <2>1, <2>2, <2>3, <2>4 DEF SaneCopy, Same, SameCopy, HasWork, Edited
  <2> QED BY <1>0, <2>1, <2>5 DEF Sane, Replaced, r
<1> QED BY <1>0, <1>2, <1>3, <1>4, FitsOrThrow, Zenon DEF p, ins

LEMMA FitsHash ==
  ASSUME NEW q, NEW H, NEW a, Found(q, H, a), q.at = "HASH", NEW o \in Outcomes
  PROVE  Fits(q, o, H, H, OrThrow(o, [q EXCEPT !.before = IF o.done THEN H.file ELSE NoFile]), a)
<1>0. /\ q \in Task /\ H \in Device /\ Belongs(q) /\ q.op \in Ops /\ q.op # "restart" /\ H.file \in File
  BY DEF Found, Belongs, Steps, Device
<1> DEFINE b == IF o.done THEN H.file ELSE NoFile
           p == [q EXCEPT !.before = b]
<1>1. b \in File \cup {NoFile} /\ (o = Clean => b = H.file)
  BY <1>0 DEF Clean
<1> HIDE DEF b
<1>2. /\ p \in Task /\ p.at = q.at /\ p.before = b /\ p.work = q.work /\ p.on = q.on /\ p.todo = q.todo
      /\ p.backup = q.backup /\ Same(p, q)
  BY <1>0, <1>1 DEF Task, Same
<1> HIDE DEF p
<1>3. Belongs(p) /\ Derived(p, q, H, a)
  BY <1>0, <1>2 DEF Belongs, Same, Derived
<1>4. ASSUME ~q.disturbed, q.faults = 0, o = Clean PROVE Sane(Goto(p), H, a)
  <2> DEFINE r == Goto(p)
  <2>1. r.at = "BACKUP" /\ Same(r, p) /\ SameCopy(r, p)
    BY <1>2, <1>3, GotoFields DEF Succ, Steps
  <2> HIDE DEF r
  <2>2. SaneCopy(q, H, a)
    BY <1>0, <1>4 DEF Found, Sane, UpToReplace, Steps
  <2>5. SaneCopy(r, H, a)
    BY <1>0, <1>1, <1>2, <1>4, <2>1, <2>2 DEF SaneCopy, Same, SameCopy, HasWork, Edited
  <2> QED BY <1>0, <2>1, <2>5 DEF Found, Sane, Replaced, r
<1> QED BY <1>0, <1>2, <1>3, <1>4, FitsOrThrow, Zenon DEF p, b

LEMMA RwDevice ==
  ASSUME NEW H \in Device, NEW o \in Outcomes
  PROVE  \E D \in Device :
           /\ D = [H EXCEPT !.rw = @ \/ o.done]
           /\ D.file = H.file /\ D.loaded = H.loaded /\ D.up = H.up /\ D.vols = H.vols
           /\ o = Clean \/ H.rw = TRUE => D.rw = TRUE
<1> DEFINE x == (H.rw \/ o.done)
           D == [H EXCEPT !.rw = @ \/ o.done]
<1>0. o = Clean => o.done
  BY DEF Clean
<1>1. x \in BOOLEAN /\ (o = Clean \/ H.rw = TRUE => x = TRUE)
  BY <1>0, Zenon
<1>2. D = [H EXCEPT !.rw = x]
  OBVIOUS
<1> HIDE DEF x, D
<1>3. /\ D \in Device /\ D.file = H.file /\ D.loaded = H.loaded /\ D.up = H.up /\ D.vols = H.vols
      /\ D.rw = x
  BY <1>1, <1>2 DEF Device
<1>4. o = Clean \/ H.rw = TRUE => D.rw = TRUE
  BY <1>1, <1>3, Zenon
<1>5. D = [H EXCEPT !.rw = @ \/ o.done]
  BY DEF D
<1> QED BY <1>3, <1>4, <1>5, Zenon

LEMMA FitsBackup ==
  ASSUME NEW q, NEW H, NEW a, Found(q, H, a), q.at = "BACKUP", NEW o \in Outcomes
  PROVE  Fits(q, o, H, [H EXCEPT !.rw = @ \/ o.done],
              OrThrow(o, [q EXCEPT !.backup = IF o.done THEN [on |-> a, file |-> H.file] ELSE NoFile]), a)
<1>0. /\ q \in Task /\ H \in Device /\ a \in Devices /\ Belongs(q)
      /\ q.op \in Ops /\ q.op # "restart" /\ H.file \in File
  BY DEF Found, Belongs, Steps, Device
<1> DEFINE b == IF o.done THEN [on |-> a, file |-> H.file] ELSE NoFile
           p == [q EXCEPT !.backup = b]
<1>1. b \in [on : Devices, file : File] \cup {NoFile} /\ b \in {NoFile, [on |-> a, file |-> H.file]}
  BY <1>0
<1> HIDE DEF b
<1>2. /\ p \in Task /\ p.at = q.at /\ p.before = q.before /\ p.work = q.work /\ p.on = q.on
      /\ p.todo = q.todo /\ p.backup = b /\ Same(p, q)
  BY <1>0, <1>1 DEF Task, Same
<1> HIDE DEF p
<1>3. Belongs(p) /\ Derived(p, q, H, a)
  BY <1>0, <1>1, <1>2 DEF Belongs, Same, Derived
<1>4. PICK D \in Device :
        /\ D = [H EXCEPT !.rw = @ \/ o.done]
        /\ D.file = H.file /\ D.loaded = H.loaded /\ D.up = H.up /\ D.vols = H.vols
        /\ o = Clean \/ H.rw = TRUE => D.rw = TRUE
  BY <1>0, RwDevice, Zenon
<1>5. ASSUME ~q.disturbed, q.faults = 0, o = Clean PROVE Sane(Goto(p), D, a)
  <2> DEFINE r == Goto(p)
  <2>1. /\ r.at \in {"STOP", "REMOUNT", "EDIT"} /\ Same(r, p) /\ SameCopy(r, p)
        /\ r.at = "REMOUNT" => r.op = "mount"
        /\ r.at = "EDIT" => r.op \in Toggling
    BY <1>0, <1>2, <1>3, GotoFields DEF Succ, Steps, Same, Ops, Toggling
  <2> HIDE DEF r
  <2>2. SaneCopy(q, H, a)
    BY <1>0, <1>5 DEF Found, Sane, UpToReplace, Steps
  <2>5. SaneCopy(r, D, a)
    BY <1>0, <1>2, <1>4, <1>5, <2>1, <2>2 DEF SaneCopy, Same, SameCopy, HasWork, Edited, Toggling
  <2> QED BY <1>0, <2>1, <2>5 DEF Sane, Replaced, r
<1>6. Fits(q, o, H, D, OrThrow(o, p), a)
  BY <1>0, <1>2, <1>3, <1>4, <1>5, FitsOrThrow, Zenon
<1> QED BY <1>4, <1>6 DEF p, b

LEMMA InsertLineFacts ==
  ASSUME NEW f \in File, NEW x \in Lines
  PROVE  /\ InsertLine(f, x) \in File /\ InsertLine(f, x)[x] > 0
         /\ \A l \in Lines : InsertLine(f, x)[l] >= f[l]
         /\ \A l \in Lines \ {x} : InsertLine(f, x)[l] = f[l]
BY DEF InsertLine, File, MaxCopies

LEMMA FitsInsert ==
  ASSUME NEW q, NEW H, NEW a, Found(q, H, a), q.at = "EDIT", q.todo # <<>>, NEW o \in Outcomes,
         q.work # NoFile, q.on = a, NEW w,
         w = LET next == [q EXCEPT !.todo = Tail(@)]
             IN  IF o.done THEN [next EXCEPT !.work = InsertLine(@, Head(q.todo))] ELSE next
  PROVE  Fits(q, o, H, H, IF o.answered THEN w ELSE Throw(w), a)
<1> DEFINE x == Head(q.todo)
           f == IF o.done THEN InsertLine(q.work, x) ELSE q.work
<1>0. /\ q \in Task /\ H \in Device /\ Belongs(q) /\ q.op \in Ops /\ q.op # "restart"
      /\ q.todo \in Seq(Targets(q.op)) /\ q.work \in File
      /\ Targets(q.op) \subseteq Lines
  BY DEF Found, Belongs, Steps, Task, Targets, Lines
<1>1. x \in Targets(q.op) /\ Tail(q.todo) \in Seq(Targets(q.op)) /\ Tail(q.todo) \in Seq(Lines)
  BY <1>0 DEF Task
<1>2. /\ f \in File
      /\ o = Clean => f[x] > 0
      /\ \A l \in Lines : f[l] >= q.work[l]
      /\ \A l \in Lines \ Targets(q.op) : f[l] = q.work[l]
  <2>1. x \in Lines
    BY <1>0, <1>1
  <2> HIDE DEF x
  <2>2. q.work \in [Lines -> 0..2]
    BY <1>0 DEF File, MaxCopies
  <2>3. CASE o.done
    BY <1>0, <1>1, <2>1, <2>3, InsertLineFacts, Zenon
  <2>4. CASE ~o.done
    BY <1>0, <2>2, <2>4 DEF Clean
  <2> QED BY <2>3, <2>4
<1>3. /\ w \in Task /\ w.at = "EDIT" /\ w.work = f /\ w.on = a /\ w.todo = Tail(q.todo)
      /\ w.before = q.before /\ w.backup = q.backup /\ Same(w, q)
  <2>1. w = [q EXCEPT !.todo = Tail(q.todo), !.work = f]
    BY <1>0, Zenon DEF Task
  <2> HIDE DEF f, x
  <2> QED BY <1>0, <1>1, <1>2, <2>1, ZenonT(30) DEF Task, Same
<1> HIDE DEF f, x
<1>4. Belongs(w) /\ Derived(w, q, H, a)
  BY <1>0, <1>1, <1>2, <1>3 DEF Belongs, Same, Derived, Steps
<1>5. CASE ~o.answered
  <2>1. o # Clean /\ w.at \in Steps
    BY <1>3, <1>5 DEF Clean, Steps
  <2> QED BY <1>0, <1>3, <1>5, <2>1, FitsThrow, Zenon
<1>6. CASE o.answered
  <2>1. ASSUME ~q.disturbed, q.faults = 0, o = Clean PROVE Sane(w, H, a)
    <3>1. SaneCopy(q, H, a)
      BY <1>0, <2>1 DEF Found, Sane, UpToReplace, Steps
    <3>2. ASSUME NEW l \in Targets(q.op), q.op \in {"mount", "enable"}
          PROVE  f[l] > 0 \/ \E i \in DOMAIN Tail(q.todo) : Tail(q.todo)[i] = l
      <4>0. f[l] \in Nat /\ q.work[l] \in Nat
        BY <1>0, <1>2 DEF File, MaxCopies
      <4>1. CASE q.work[l] > 0
        BY <1>0, <1>2, <4>0, <4>1
      <4>2. CASE l = x
        BY <1>2, <2>1, <4>2
      <4>3. CASE l # x /\ ~(q.work[l] > 0)
        <5>1. PICK i \in DOMAIN q.todo : q.todo[i] = l
          BY <3>1, <3>2, <4>3 DEF SaneCopy, HasWork, Edited
        <5>2. i \in 2..Len(q.todo)
          BY <1>0, <4>3, <5>1 DEF x
        <5>3. i - 1 \in DOMAIN Tail(q.todo) /\ Tail(q.todo)[i - 1] = l
          BY <1>0, <5>1, <5>2
        <5> QED BY <5>3
      <4> QED BY <4>1, <4>2, <4>3
    <3>3. SaneCopy(w, H, a)
      BY <1>0, <1>2, <1>3, <3>1, <3>2 DEF SaneCopy, HasWork, Edited, Same
    <3> QED BY <1>3, <3>3 DEF Found, Sane, Replaced
  <2> QED BY <1>0, <1>3, <1>4, <1>6, <2>1 DEF Fits, Steps, UpToReplace
<1> QED BY <1>5, <1>6

LEMMA FitsNoWork ==
  ASSUME NEW q, NEW H, NEW a, Found(q, H, a), q.at = "EDIT", ~(q.work # NoFile /\ q.on = a)
  PROVE  Fits(q, Clean, H, H, Throw(q), a)
<1>0. q \in Task /\ H \in Device /\ Belongs(q) /\ q.op # "restart" /\ q.at \in Steps /\ Same(q, q)
  BY DEF Found, Belongs, Steps, Same
<1>1. ASSUME ~q.disturbed, q.faults = 0 PROVE FALSE
  <2>1. SaneCopy(q, H, a)
    BY <1>0, <1>1 DEF Found, Sane, UpToReplace, Steps
  <2> QED BY <2>1, FileAssumption DEF SaneCopy, HasWork
<1>2. q.disturbed \/ q.faults > 0
  BY <1>0, <1>1 DEF Task
<1> QED BY <1>0, <1>2, FitsThrow

LEMMA FitsDelete ==
  ASSUME NEW q, NEW H, NEW a, Found(q, H, a), q.at = "EDIT", q.todo = <<>>, NEW o \in Outcomes,
         NEW ls, ls = IF q.op \in {"unmount", "disable"} THEN Targets(q.op) ELSE {},
         NEW p, p = IF o.done /\ q.work # NoFile /\ q.on = a
                    THEN [q EXCEPT !.work = DeleteLines(@, ls)] ELSE q
  PROVE  Fits(q, o, H, H, OrThrow(o, p), a)
<1>0. /\ q \in Task /\ H \in Device /\ Belongs(q) /\ q.op \in Ops /\ q.op # "restart"
      /\ Targets(q.op) \subseteq Lines /\ ls \subseteq Targets(q.op)
  BY DEF Found, Belongs, Steps, Targets, Lines
<1>1. /\ p \in Task /\ p.at = q.at /\ p.on = q.on /\ p.todo = q.todo /\ p.before = q.before
      /\ p.backup = q.backup /\ Same(p, q)
      /\ Derived(p, q, H, a)
      /\ o.done /\ q.work # NoFile /\ q.on = a =>
           p.work \in File /\ \A l \in Lines : p.work[l] = IF l \in ls THEN 0 ELSE q.work[l]
  <2>1. CASE o.done /\ q.work # NoFile /\ q.on = a
    <3> DEFINE f == [l \in Lines |-> IF l \in ls THEN 0 ELSE q.work[l]]
    <3>1. DeleteLines(q.work, ls) = f /\ q.work \in File
      BY <1>0, <2>1 DEF DeleteLines, Task
    <3>2. f \in File /\ \A l \in Lines : f[l] = IF l \in ls THEN 0 ELSE q.work[l]
      BY <3>1 DEF File, MaxCopies
    <3>3. p = [q EXCEPT !.work = f]
      BY <2>1, <3>1
    <3> HIDE DEF f
    <3>4. /\ p \in Task /\ p.at = q.at /\ p.on = q.on /\ p.todo = q.todo /\ p.before = q.before
          /\ p.backup = q.backup /\ p.work = f /\ Same(p, q)
      BY <1>0, <3>2, <3>3 DEF Task, Same
    <3>5. Derived(p, q, H, a)
      BY <1>0, <2>1, <3>2, <3>4 DEF Derived
    <3> QED BY <3>2, <3>4, <3>5
  <2>2. CASE ~(o.done /\ q.work # NoFile /\ q.on = a)
    BY <1>0, <2>2 DEF Same, Derived
  <2> QED BY <2>1, <2>2
<1>2. Belongs(p)
  BY <1>0, <1>1, Zenon DEF Belongs, Same, Steps
<1>3. ASSUME ~q.disturbed, q.faults = 0, o = Clean PROVE Sane(Goto(p), H, a)
  <2> DEFINE r == Goto(p)
  <2>1. /\ r.at = (IF q.op \in Toggling THEN "REMOUNT" ELSE "REPLACE") /\ Same(r, p) /\ SameCopy(r, p)
    BY <1>0, <1>1, <1>2, GotoFields, Zenon DEF Succ, Steps, Same
  <2> HIDE DEF r
  <2>2. SaneCopy(q, H, a)
    BY <1>0, <1>3 DEF Found, Sane, UpToReplace, Steps
  <2>3. q.work \in File /\ q.work # NoFile /\ q.on = a /\ o.done
    BY <1>3, <2>2, FileAssumption DEF SaneCopy, HasWork, Clean
  <2>4. p.work \in File /\ \A l \in Lines : p.work[l] = IF l \in ls THEN 0 ELSE q.work[l]
    BY <1>1, <2>3
  <2>5. Wants(q.op, p.work)
    <3>1. p.work # NoFile
      BY <2>4, FileAssumption
    <3>2. CASE q.op \in {"mount", "enable"}
      <4>1. \A l \in Targets(q.op) : q.work[l] > 0
        BY <2>2, <3>2 DEF SaneCopy, HasWork, Edited
      <4>2. \A l \in Targets(q.op) : p.work[l] > 0
        BY <1>0, <2>4, <3>2, <4>1
      <4> QED BY <3>1, <3>2, <4>2 DEF Wants, Contains
    <3>3. CASE q.op \in {"unmount", "disable"}
      <4>1. \A l \in Targets(q.op) : p.work[l] = 0
        BY <1>0, <2>4, <3>3
      <4> QED BY <3>3, <4>1 DEF Wants, Contains
    <3> QED BY <1>0, <3>2, <3>3 DEF Ops
  <2>6. SaneCopy(r, H, a)
    BY <1>0, <1>1, <2>1, <2>2, <2>4, <2>5 DEF SaneCopy, Same, SameCopy, HasWork, Edited, Toggling
  <2> QED BY <1>0, <2>1, <2>6 DEF Found, Sane, Replaced, r
<1> QED BY <1>0, <1>1, <1>2, <1>3, FitsOrThrow, Zenon

LEMMA FitsRemount ==
  ASSUME NEW q, NEW H, NEW a, Found(q, H, a), q.at = "REMOUNT", NEW o \in Outcomes
  PROVE  Fits(q, o, H, [H EXCEPT !.rw = @ \/ o.done], Goto(q), a)
<1>0. /\ q \in Task /\ H \in Device /\ Belongs(q) /\ q.op \in Ops /\ q.op # "restart" /\ q.at \in Steps
      /\ Same(q, q) /\ Derived(q, q, H, a)
  BY DEF Found, Belongs, Steps, Same, Derived
<1>4. PICK D \in Device :
        /\ D = [H EXCEPT !.rw = @ \/ o.done]
        /\ D.file = H.file /\ D.loaded = H.loaded /\ D.up = H.up /\ D.vols = H.vols
        /\ o = Clean \/ H.rw = TRUE => D.rw = TRUE
  BY <1>0, RwDevice, Zenon
<1>5. ASSUME ~q.disturbed, q.faults = 0, o = Clean PROVE Sane(Goto(q), D, a)
  <2> DEFINE r == Goto(q)
  <2>1. /\ r.at = (IF q.op \in Toggling THEN "REPLACE" ELSE "EDIT") /\ Same(r, q) /\ SameCopy(r, q)
    BY <1>0, GotoFields DEF Succ, Steps, Same
  <2> HIDE DEF r
  <2>2. SaneCopy(q, H, a)
    BY <1>0, <1>5 DEF Found, Sane, UpToReplace, Steps
  <2>5. SaneCopy(r, D, a)
    BY <1>0, <1>4, <1>5, <2>1, <2>2 DEF SaneCopy, Same, SameCopy, HasWork, Edited, Toggling
  <2> QED BY <1>0, <2>1, <2>5 DEF Found, Sane, Replaced, r
<1>6. Fits(q, o, H, D, Goto(q), a)
  BY <1>0, <1>4, <1>5, FitsGoto, Zenon
<1> QED BY <1>4, <1>6

LEMMA FitsReplace ==
  ASSUME NEW q, NEW H, NEW a, Found(q, H, a), q.at = "REPLACE", NEW o \in Outcomes,
         NEW again \in BOOLEAN, NEW moves \in BOOLEAN,
         moves <=> /\ q.work # NoFile /\ q.on = a /\ H.rw
                   /\ o.done \/ (again /\ ~o.answered),
         NEW D, D = IF moves THEN [H EXCEPT !.file = q.work] ELSE H,
         NEW p, p = IF moves THEN [q EXCEPT !.work = NoFile] ELSE q
  PROVE  Fits(q, o, H, D, IF o.answered \/ again THEN Goto(p) ELSE Throw(p), a)
<1>0. /\ q \in Task /\ H \in Device /\ Belongs(q) /\ q.op \in Ops /\ q.op # "restart" /\ q.at \in Steps
      /\ q.work \in File \cup {NoFile}
  BY DEF Found, Belongs, Steps, Task
<1>1. /\ D \in Device /\ D.up = H.up
      /\ moves => D.file = q.work
  BY <1>0 DEF Device
<1>2. /\ p \in Task /\ p.at = q.at /\ p.before = q.before /\ p.work \in {q.work, NoFile}
      /\ p.backup = q.backup /\ p.todo = q.todo /\ Same(p, q)
  BY <1>0 DEF Task, Same
<1>3. Belongs(p)
  BY <1>0, <1>2 DEF Belongs, Same, Steps
<1>4. CASE ~(o.answered \/ again)
  <2>1. o # Clean
    BY <1>4 DEF Clean
  <2> QED BY <1>0, <1>1, <1>2, <1>4, <2>1, FitsThrow, Zenon
<1>5. CASE o.answered \/ again
  <2>1. ASSUME ~q.disturbed, q.faults = 0, o = Clean PROVE Sane(Goto(p), D, a)
    <3> DEFINE r == Goto(p)
    <3>1. r.at = "WAIT" /\ Same(r, p) /\ SameCopy(r, p)
      BY <1>0, <1>2, <1>3, GotoFields, Zenon DEF Succ
    <3> HIDE DEF r
    <3>2. SaneCopy(q, H, a)
      BY <1>0, <2>1 DEF Found, Sane, UpToReplace
    <3>3. /\ q.work \in File /\ q.on = a /\ H.rw = TRUE /\ q.before = H.file /\ Wants(q.op, q.work)
          /\ q.op = "unmount" => H.up = FALSE
          /\ q.op = "enable" => H.file["log"] = 0
          /\ q.op = "disable" => H.file["log"] > 0
      BY <1>0, <3>2 DEF SaneCopy, HasWork, Edited
    <3>4. o.done /\ q.work # NoFile /\ H.rw
      BY <2>1, <3>3, FileAssumption DEF Clean
    <3>5. moves
      BY <3>3, <3>4
    <3>6. H.file \in File
      BY <1>0 DEF Device
    <3>7. SaneDevice(r, D)
      BY <1>1, <1>2, <3>1, <3>3, <3>5, <3>6 DEF SaneDevice, Same, SameCopy
    <3> QED BY <1>0, <3>1, <3>7 DEF Found, Sane, UpToReplace, r
  <2> QED BY <1>0, <1>1, <1>2, <1>3, <1>5, <2>1, FitsGoto, Zenon
<1> QED BY <1>4, <1>5

LEMMA FitsWait ==
  ASSUME NEW q, NEW H, NEW a, Found(q, H, a), q.at = "WAIT", NEW o \in Outcomes,
         NEW changed \in BOOLEAN,
         changed <=> o.done /\ q.before # NoFile /\ H.file # q.before
  PROVE  Fits(q, o, H, H, IF ~o.answered \/ (q.op \in {"enable", "disable"} /\ ~changed)
                          THEN Throw(q) ELSE Goto(q), a)
<1>0. /\ q \in Task /\ H \in Device /\ Belongs(q) /\ q.op \in Ops /\ q.op # "restart" /\ q.at \in Steps
      /\ Same(q, q) /\ Derived(q, q, H, a) /\ H.file \in File
  BY DEF Found, Belongs, Steps, Same, Derived, Device
<1>1. ASSUME ~q.disturbed, q.faults = 0
      PROVE  SaneDevice(q, H) /\ (o = Clean /\ q.op \in {"enable", "disable"} => changed)
  <2>1. SaneDevice(q, H)
    BY <1>0, <1>1 DEF Found, Sane, Replaced
  <2>2. ASSUME o = Clean, q.op \in {"enable", "disable"} PROVE changed
    <3>1. /\ q.before \in File
          /\ Contains(H.file, "log") <=> q.op = "enable"
          /\ q.before["log"] > 0 <=> q.op = "disable"
      BY <2>1, <2>2 DEF SaneDevice, Wants, Targets
    <3>2. o.done /\ q.before # NoFile /\ H.file # NoFile
      BY <1>0, <2>2, <3>1, FileAssumption DEF Clean
    <3> QED BY <2>2, <3>1, <3>2 DEF Contains
  <2> QED BY <2>1, <2>2
<1>2. CASE ~o.answered \/ (q.op \in {"enable", "disable"} /\ ~changed)
  <2>1. o # Clean \/ q.disturbed \/ q.faults > 0
    <3>1. q.faults \in Nat
      BY <1>0 DEF Task
    <3>2. CASE ~o.answered
      BY <3>2 DEF Clean
    <3>3. CASE o.answered
      BY <1>1, <1>2, <3>1, <3>3
    <3> QED BY <3>2, <3>3
  <2> QED BY <1>0, <1>2, <2>1, FitsThrow
<1>3. CASE ~(~o.answered \/ (q.op \in {"enable", "disable"} /\ ~changed))
  <2>1. ASSUME ~q.disturbed, q.faults = 0, o = Clean PROVE Sane(Goto(q), H, a)
    <3> DEFINE r == Goto(q)
    <3>1. r.at = (IF q.op = "unmount" THEN "REMOVE" ELSE "RELOAD") /\ Same(r, q) /\ SameCopy(r, q)
      BY <1>0, GotoFields DEF Succ
    <3> HIDE DEF r
    <3>2. SaneDevice(r, H)
      BY <1>1, <2>1, <3>1, Zenon DEF SaneDevice, Same
    <3> QED BY <1>0, <3>1, <3>2 DEF Found, Sane, UpToReplace, r
  <2> QED BY <1>0, <1>3, <2>1, FitsGoto
<1> QED BY <1>2, <1>3

LEMMA FitsStop ==
  ASSUME NEW q, NEW H, NEW a, Found(q, H, a), q.at = "STOP", NEW o \in Outcomes,
         NEW D, D = IF o.done THEN [H EXCEPT !.up = FALSE] ELSE H
  PROVE  Fits(q, o, H, D, IF ~o.answered THEN Throw(q)
                          ELSE IF D.up THEN Retry(q) ELSE Goto(q), a)
<1>0. /\ q \in Task /\ H \in Device /\ Belongs(q) /\ q.op = "unmount" /\ q.at \in Steps
      /\ Same(q, q) /\ Derived(q, q, H, a)
  BY DEF Found, Belongs, Steps, Same, Derived
<1>1. D \in Device /\ D.file = H.file /\ D.rw = H.rw /\ (o.done => D.up = FALSE)
  BY <1>0, Zenon DEF Device
<1>2. CASE ~o.answered
  <2>1. o # Clean
    BY <1>2 DEF Clean
  <2> QED BY <1>0, <1>1, <1>2, <2>1, FitsThrow, Zenon
<1>3. CASE o.answered /\ D.up
  <2> DEFINE r == Retry(q)
  <2>1. /\ r \in Task /\ r.at \in {q.at, "failed"} /\ Same(r, q) /\ Belongs(r)
        /\ r.at = q.at => SameCopy(r, q)
    BY <1>0, RetryFields
  <2> HIDE DEF r
  <2>2. o # Clean
    BY <1>1, <1>3 DEF Clean
  <2>3. r.at = q.at => Derived(r, q, H, a)
    BY <2>1 DEF SameCopy, Derived
  <2>4. Fits(q, o, H, D, r, a)
    BY <1>0, <1>1, <2>1, <2>2, <2>3 DEF Fits, Steps, UpToReplace
  <2> QED BY <1>3, <2>4 DEF r
<1>4. CASE o.answered /\ ~D.up
  <2>1. ASSUME ~q.disturbed, q.faults = 0, o = Clean PROVE Sane(Goto(q), D, a)
    <3> DEFINE r == Goto(q)
    <3>1. r.at = "REMOUNT" /\ Same(r, q) /\ SameCopy(r, q)
      BY <1>0, GotoFields DEF Succ
    <3> HIDE DEF r
    <3>2. SaneCopy(q, H, a)
      BY <1>0, <2>1 DEF Found, Sane, UpToReplace
    <3>3. D.up = FALSE
      BY <1>1, <2>1 DEF Clean
    <3>4. SaneCopy(r, D, a)
      BY <1>0, <1>1, <3>1, <3>2, <3>3 DEF SaneCopy, Same, SameCopy, HasWork, Edited, Toggling
    <3> QED BY <1>0, <3>1, <3>4 DEF Found, Sane, Replaced, r
  <2> QED BY <1>0, <1>1, <1>4, <2>1, FitsGoto, Zenon
<1> QED BY <1>2, <1>3, <1>4

LEMMA FitsRemove ==
  ASSUME NEW q, NEW H, NEW a, Found(q, H, a), q.at = "REMOVE", NEW o \in Outcomes,
         NEW D, D = IF o.done /\ ~H.up THEN [H EXCEPT !.vols = {}] ELSE H
  PROVE  Fits(q, o, H, D, IF ~o.answered THEN Throw(q)
                          ELSE IF D.vols # {} THEN Retry(q) ELSE Goto(q), a)
<1>0. /\ q \in Task /\ H \in Device /\ Belongs(q) /\ q.op = "unmount" /\ q.at \in Steps
      /\ Same(q, q) /\ Derived(q, q, H, a)
  BY DEF Found, Belongs, Steps, Same, Derived
<1>1. D \in Device /\ D.file = H.file /\ (o.done /\ ~H.up => D.vols = {})
  BY <1>0 DEF Device
<1>2. ASSUME ~q.disturbed, q.faults = 0, o = Clean PROVE SaneDevice(q, H) /\ D.vols = {}
  <2>1. SaneDevice(q, H)
    BY <1>0, <1>2 DEF Found, Sane, Replaced
  <2>2. o.done /\ H.up = FALSE
    BY <1>0, <1>2, <2>1 DEF SaneDevice, Clean
  <2> QED BY <1>1, <2>1, <2>2
<1>3. q.faults \in Nat
  BY <1>0 DEF Task
<1>4. CASE ~o.answered
  <2>1. o # Clean
    BY <1>4 DEF Clean
  <2> QED BY <1>0, <1>1, <1>4, <2>1, FitsThrow, Zenon
<1>5. CASE o.answered /\ D.vols # {}
  <2> DEFINE r == Retry(q)
  <2>1. /\ r \in Task /\ r.at \in {q.at, "failed"} /\ Same(r, q) /\ Belongs(r)
        /\ r.at = q.at => SameCopy(r, q)
    BY <1>0, RetryFields
  <2> HIDE DEF r
  <2>2. o # Clean \/ q.disturbed \/ q.faults > 0
    BY <1>2, <1>3, <1>5
  <2>3. ~(~q.disturbed /\ q.faults = 0 /\ o = Clean)
    BY <2>2
  <2>4. r.at \notin UpToReplace /\ r.at # "CLEANUP" /\ r.at \in Steps \cup {"ok", "failed"}
    BY <1>0, <2>1 DEF UpToReplace
  <2>5. Fits(q, o, H, D, r, a)
    BY <1>0, <1>1, <2>1, <2>2, <2>3, <2>4 DEF Fits
  <2> QED BY <1>5, <2>5 DEF r
<1>6. CASE o.answered /\ D.vols = {}
  <2>1. ASSUME ~q.disturbed, q.faults = 0, o = Clean PROVE Sane(Goto(q), D, a)
    <3> DEFINE r == Goto(q)
    <3>1. r.at = "RELOAD" /\ Same(r, q) /\ SameCopy(r, q)
      BY <1>0, GotoFields DEF Succ
    <3> HIDE DEF r
    <3>2. SaneDevice(r, D)
      BY <1>0, <1>1, <1>2, <2>1, <3>1, Zenon DEF SaneDevice, Same
    <3> QED BY <1>0, <3>1, <3>2 DEF Found, Sane, UpToReplace, r
  <2> QED BY <1>0, <1>1, <1>6, <2>1, FitsGoto, Zenon
<1> QED BY <1>4, <1>5, <1>6

LEMMA FitsReload ==
  ASSUME NEW q, NEW H, NEW a, Found(q, H, a), q.at = "RELOAD", NEW o \in Outcomes,
         NEW D, D = IF o.done THEN [H EXCEPT !.loaded = H.file] ELSE H
  PROVE  Fits(q, o, H, D, OrThrow(o, q), a)
<1>0. /\ q \in Task /\ H \in Device /\ Belongs(q) /\ q.op # "restart" /\ q.at \in Steps
      /\ Same(q, q) /\ Derived(q, q, H, a)
  BY DEF Found, Belongs, Steps, Same, Derived
<1>1. D \in Device /\ D.file = H.file /\ D.vols = H.vols /\ (o.done => D.loaded = H.file)
  BY <1>0 DEF Device
<1>2. ASSUME ~q.disturbed, q.faults = 0, o = Clean PROVE Sane(Goto(q), D, a)
  <2> DEFINE r == Goto(q)
  <2>1. r.at = "RESTART" /\ Same(r, q) /\ SameCopy(r, q)
    BY <1>0, GotoFields DEF Succ
  <2> HIDE DEF r
  <2>2. SaneDevice(q, H)
    BY <1>0, <1>2 DEF Found, Sane, Replaced
  <2>3. o.done
    BY <1>2 DEF Clean
  <2>4. SaneDevice(r, D)
    BY <1>0, <1>1, <2>1, <2>2, <2>3 DEF SaneDevice, Same
  <2> QED BY <1>0, <2>1, <2>4 DEF Found, Sane, UpToReplace, r
<1> QED BY <1>0, <1>1, <1>2, FitsOrThrow, Zenon

LEMMA FitsRestart ==
  ASSUME NEW q, NEW H, NEW a, Found(q, H, a), q.at = "RESTART", NEW o \in Outcomes,
         NEW isActive \in BOOLEAN, o = Clean => isActive,
         NEW D, D = IF o.done THEN Restarted(H) ELSE H
  PROVE  Fits(q, o, H, D, IF ~o.answered THEN Throw(q)
                          ELSE IF isActive THEN Goto(q)
                          ELSE IF q.op = "restart" THEN Retry(q) ELSE Throw(q), a)
<1>0. /\ q \in Task /\ H \in Device /\ Belongs(q) /\ q.op \in Ops /\ q.at \in Steps
      /\ Same(q, q) /\ Derived(q, q, H, a)
  BY DEF Found, Belongs, Steps, Same, Derived
<1>1. /\ D \in Device /\ D.file = H.file
      /\ o.done => /\ D.runs = H.loaded /\ D.up = TRUE
                   /\ D.vols = H.vols \cup {v \in Volumes : Contains(H.loaded, v)}
  <2> DEFINE vs == H.vols \cup {v \in Volumes : Contains(H.loaded, v)}
  <2>1. vs \in SUBSET Volumes
    BY <1>0 DEF Device
  <2>2. Restarted(H) = [H EXCEPT !.up = TRUE, !.runs = H.loaded, !.vols = vs]
    BY DEF Restarted
  <2> HIDE DEF vs
  <2>3. /\ Restarted(H) \in Device /\ Restarted(H).file = H.file /\ Restarted(H).runs = H.loaded
        /\ Restarted(H).up = TRUE /\ Restarted(H).vols = vs
    BY <1>0, <2>1, <2>2, Zenon DEF Device
  <2>4. CASE o.done
    BY <2>3, <2>4 DEF vs
  <2>5. CASE ~o.done
    BY <1>0, <2>5
  <2> QED BY <2>4, <2>5, Zenon
<1>2. CASE ~o.answered \/ (~isActive /\ q.op # "restart")
  <2>1. o # Clean
    BY <1>2 DEF Clean
  <2> QED BY <1>0, <1>1, <1>2, <2>1, FitsThrow
<1>3. CASE o.answered /\ ~isActive /\ q.op = "restart"
  <2> DEFINE r == Retry(q)
  <2>1. /\ r \in Task /\ r.at \in {q.at, "failed"} /\ Same(r, q) /\ Belongs(r)
        /\ r.at = q.at => SameCopy(r, q)
    BY <1>0, RetryFields
  <2> HIDE DEF r
  <2>2. o # Clean
    BY <1>3
  <2>3. r.at \notin UpToReplace /\ r.at # "CLEANUP" /\ r.at \in Steps \cup {"ok", "failed"}
    BY <1>0, <2>1 DEF UpToReplace
  <2>4. Fits(q, o, H, D, r, a)
    BY <1>0, <1>1, <2>1, <2>2, <2>3 DEF Fits
  <2> QED BY <1>3, <2>4 DEF r
<1>4. CASE o.answered /\ isActive
  <2>1. ASSUME ~q.disturbed, q.faults = 0, o = Clean PROVE Sane(Goto(q), D, a)
    <3> DEFINE r == Goto(q)
    <3>1. r.at = (IF q.op = "restart" THEN "ok" ELSE "VERIFY") /\ Same(r, q) /\ SameCopy(r, q)
      BY <1>0, GotoFields DEF Succ
    <3> HIDE DEF r
    <3>2. CASE q.op = "restart"
      BY <3>1, <3>2 DEF Sane, Same, r
    <3>3. CASE q.op # "restart"
      <4>1. SaneDevice(q, H)
        BY <1>0, <2>1, <3>3 DEF Found, Sane, Replaced
      <4>2. o.done
        BY <2>1 DEF Clean
      <4>3. /\ Wants(q.op, H.file) /\ H.loaded = H.file
            /\ q.op = "unmount" => H.vols = {}
        BY <4>1 DEF SaneDevice
      <4>4. q.op = "unmount" => D.vols = {}
        BY <1>1, <4>2, <4>3 DEF Wants, Targets
      <4>5. q.op = "mount" => D.vols # {}
        <5>1. q.op = "mount" => Contains(H.loaded, "app") /\ "app" \in Volumes
          BY <4>3 DEF Wants, Targets, Volumes
        <5> QED BY <1>1, <4>2, <5>1
      <4>6. SaneDevice(r, D)
        BY <1>1, <3>1, <3>3, <4>2, <4>3, <4>4, <4>5 DEF SaneDevice, Same
      <4> QED BY <1>0, <3>1, <3>3, <4>6 DEF Found, Sane, UpToReplace, r
    <3> QED BY <3>2, <3>3
  <2> QED BY <1>0, <1>1, <1>4, <2>1, FitsGoto
<1> QED BY <1>2, <1>3, <1>4

LEMMA FitsVerify ==
  ASSUME NEW q, NEW H, NEW a, Found(q, H, a), q.at = "VERIFY", NEW o \in Outcomes,
         NEW f, f = IF o.done THEN H.file ELSE NoFile
  PROVE  Fits(q, o, H, H, IF o.answered /\ Wants(q.op, f) THEN Goto(q) ELSE Throw(q), a)
<1>0. /\ q \in Task /\ H \in Device /\ Belongs(q) /\ q.op # "restart" /\ q.at \in Steps
      /\ Same(q, q) /\ Derived(q, q, H, a) /\ q.faults \in Nat
  BY DEF Found, Belongs, Steps, Same, Derived, Task
<1>1. ASSUME ~q.disturbed, q.faults = 0 PROVE SaneDevice(q, H) /\ Wants(q.op, H.file)
  <2>1. SaneDevice(q, H)
    BY <1>0, <1>1 DEF Found, Sane, Replaced
  <2> QED BY <2>1, Zenon DEF SaneDevice
<1>2. CASE ~(o.answered /\ Wants(q.op, f))
  <2>1. o = Clean => o.answered /\ f = H.file
    BY DEF Clean
  <2>2. o # Clean \/ q.disturbed \/ q.faults > 0
    BY <1>0, <1>1, <1>2, <2>1
  <2> QED BY <1>0, <1>2, <2>2, FitsThrow
<1>3. CASE o.answered /\ Wants(q.op, f)
  <2> DEFINE r == Goto(q)
  <2>1. r \in Task /\ r.at = "CLEANUP" /\ Same(r, q) /\ Belongs(r)
    BY <1>0, GotoFields DEF Succ
  <2> HIDE DEF r
  <2>2. ASSUME ~q.disturbed, q.faults = 0 PROVE Sane(r, H, a)
    <3>1. SaneDevice(r, H)
      BY <1>0, <1>1, <2>1, <2>2, Zenon DEF SaneDevice, Same
    <3> QED BY <1>0, <2>1, <3>1 DEF Found, Sane, UpToReplace
  <2>3. ASSUME ~q.disturbed, q.faults + Cost(o) <= 1 PROVE Wants(r.op, H.file)
    <3>1. CASE o.done
      BY <1>3, <2>1, <3>1 DEF Same
    <3>2. CASE ~o.done
      <4>1. Cost(o) = 1
        BY <3>2 DEF Cost, Clean
      <4>2. q.faults = 0
        BY <1>0, <2>3, <4>1
      <4> QED BY <1>1, <2>1, <2>3, <4>2 DEF Same
    <3> QED BY <3>1, <3>2
  <2>4. Fits(q, o, H, H, r, a)
    BY <1>0, <2>1, <2>2, <2>3 DEF Fits, Steps, UpToReplace
  <2> QED BY <1>3, <2>4 DEF r
<1> QED BY <1>2, <1>3

LEMMA FitsCleanup ==
  ASSUME NEW q, NEW H, NEW a, Found(q, H, a), q.at = "CLEANUP", NEW o \in Outcomes
  PROVE  Fits(q, o, H, H, OrThrow(o, q), a)
<1>0. /\ q \in Task /\ H \in Device /\ Belongs(q) /\ q.at \in Steps
      /\ Same(q, q) /\ Derived(q, q, H, a)
  BY DEF Found, Belongs, Steps, Same, Derived
<1>1. Goto(q).at = "ok"
  BY <1>0, GotoFields DEF Succ
<1>2. Sane(Goto(q), H, a)
  BY <1>1 DEF Sane, Steps
<1> QED BY <1>0, <1>2, FitsOrThrow, Zenon

-----------------------------------------------------------------------------
(* The steps of a runner, which send one command each. *)
CommandStep(t) ==
  \/ ResolveUnit(t) \/ ReadServiceFile(t)
  \/ HashBefore(t) \/ Backup(t) \/ Insert(t) \/ DeleteLinesStep(t) \/ Remount(t)
  \/ Replace(t) \/ WaitForChange(t) \/ StopContainers(t) \/ RemoveVolumes(t)
  \/ DaemonReload(t) \/ RestartService(t) \/ PostVerify(t) \/ Cleanup(t)

LEMMA TaskFound ==
  ASSUME DeviceInv, NEW t \in Tasks, task[t].at \in Steps \ {"CONNECT"}
  PROVE  Found(task[t], Here, active) /\ t \in Running
<1>1. task[t] \in Task /\ active \in Devices /\ Here \in Device /\ Belongs(task[t])
  BY DEF DeviceInv, TypeOK, TaskInv, Here
<1>2. t \in Running
  BY DEF Running, Over, Steps
<1>3. ~task[t].disturbed /\ task[t].faults = 0 => Sane(task[t], Here, active)
  BY <1>2 DEF DeviceInv, TaskInv
<1> QED BY <1>1, <1>2, <1>3 DEF Found

LEMMA CommandFits ==
  ASSUME DeviceInv, NEW t \in Tasks, CommandStep(t)
  PROVE  /\ task[t].at \in Steps \ {"CONNECT"}
         /\ \E o \in Outcomes : \E D, r :
              Run(t, o, D, r) /\ Fits(task[t], o, Here, D, r, active)
<1> DEFINE q == task[t]
<1>1. q.at \in Steps \ {"CONNECT"}
  BY Zenon DEF CommandStep, ResolveUnit, ReadServiceFile, HashBefore, Backup, Insert, DeleteLinesStep,
         Remount, Replace, WaitForChange, StopContainers, RemoveVolumes, DaemonReload,
         RestartService, PostVerify, Cleanup, At, Steps
<1>2. Found(q, Here, active)
  BY <1>1, TaskFound
<1> DEFINE Goal == \E o \in Outcomes : \E D, r : Run(t, o, D, r) /\ Fits(q, o, Here, D, r, active)
<1>3. ASSUME ResolveUnit(t) PROVE Goal
  <2>1. PICK o \in Outcomes, found \in BOOLEAN :
          /\ o = Clean => found
          /\ Run(t, o, Here, IF found THEN Goto(q) ELSE Throw(q))
    BY <1>3 DEF ResolveUnit
  <2>2. Fits(q, o, Here, Here, IF found THEN Goto(q) ELSE Throw(q), active)
    BY <1>2, <1>3, <2>1, FitsUnit DEF ResolveUnit, At
  <2> QED BY <2>1, <2>2
<1>4. ASSUME ReadServiceFile(t) PROVE Goal
  <2>1. PICK o \in Outcomes, copied \in BOOLEAN :
          LET w == IF copied THEN Here.file ELSE NoFile
              seen == {l \in Lines : o.done /\ Contains(w, l)}
          IN  /\ o = Clean => copied
              /\ Run(t, o, Here, OrThrow(o, [q EXCEPT !.work = w, !.on = active,
                                                      !.todo = Insertions(q.op, seen)]))
    BY <1>4, Zenon DEF ReadServiceFile
  <2> DEFINE w == IF copied THEN Here.file ELSE NoFile
             seen == {l \in Lines : o.done /\ Contains(w, l)}
  <2>2. /\ w \in {Here.file, NoFile} /\ (o = Clean => w = Here.file)
        /\ o = Clean => seen = {l \in Lines : Contains(w, l)}
    BY <2>1 DEF Clean
  <2>3. Run(t, o, Here, OrThrow(o, [q EXCEPT !.work = w, !.on = active,
                                             !.todo = Insertions(q.op, seen)]))
    BY <2>1
  <2> HIDE DEF w, seen
  <2>4. Fits(q, o, Here, Here, OrThrow(o, [q EXCEPT !.work = w, !.on = active,
                                             !.todo = Insertions(q.op, seen)]), active)
    BY <1>2, <1>4, <2>2, FitsRead, Zenon DEF ReadServiceFile, At
  <2> QED BY <2>3, <2>4
<1>5. ASSUME HashBefore(t) PROVE Goal
  <2>1. PICK o \in Outcomes :
          Run(t, o, Here, OrThrow(o, [q EXCEPT !.before = IF o.done THEN Here.file ELSE NoFile]))
    BY <1>5, Zenon DEF HashBefore
  <2>2. Fits(q, o, Here, Here,
             OrThrow(o, [q EXCEPT !.before = IF o.done THEN Here.file ELSE NoFile]), active)
    BY <1>2, <1>5, FitsHash DEF HashBefore, At
  <2> QED BY <2>1, <2>2
<1>6. ASSUME Backup(t) PROVE Goal
  <2>1. PICK o \in Outcomes :
          Run(t, o, [Here EXCEPT !.rw = @ \/ o.done],
              OrThrow(o, [q EXCEPT !.backup = IF o.done THEN [on |-> active, file |-> Here.file]
                                              ELSE NoFile]))
    BY <1>6, Zenon DEF Backup
  <2>2. Fits(q, o, Here, [Here EXCEPT !.rw = @ \/ o.done],
             OrThrow(o, [q EXCEPT !.backup = IF o.done THEN [on |-> active, file |-> Here.file]
                                             ELSE NoFile]), active)
    BY <1>2, <1>6, FitsBackup DEF Backup, At
  <2> QED BY <2>1, <2>2
<1>7. ASSUME Insert(t) PROVE Goal
  <2>0. q.at = "EDIT" /\ q.todo # <<>>
    BY <1>7 DEF Insert, At
  <2>1. CASE WorkHere(q)
    <3>1. PICK o \in Outcomes :
            Run(t, o, Here,
                LET w == IF o.done
                         THEN [[q EXCEPT !.todo = Tail(@)] EXCEPT !.work = InsertLine(@, Head(q.todo))]
                         ELSE [q EXCEPT !.todo = Tail(@)]
                IN  IF o.answered THEN w ELSE Throw(w))
      BY <1>7, <2>1 DEF Insert
    <3> DEFINE w == IF o.done
                    THEN [[q EXCEPT !.todo = Tail(@)] EXCEPT !.work = InsertLine(@, Head(q.todo))]
                    ELSE [q EXCEPT !.todo = Tail(@)]
    <3>2. Run(t, o, Here, IF o.answered THEN w ELSE Throw(w))
      BY <3>1
    <3>3. w = LET next == [q EXCEPT !.todo = Tail(@)]
              IN  IF o.done THEN [next EXCEPT !.work = InsertLine(@, Head(q.todo))] ELSE next
      OBVIOUS
    <3> HIDE DEF w
    <3>4. Fits(q, o, Here, Here, IF o.answered THEN w ELSE Throw(w), active)
      BY <1>2, <2>0, <2>1, <3>3, FitsInsert, Zenon DEF WorkHere
    <3> QED BY <3>2, <3>4
  <2>2. CASE ~WorkHere(q)
    <3>1. Run(t, Clean, Here, Throw(q))
      BY <1>7, <2>2 DEF Insert
    <3>2. Fits(q, Clean, Here, Here, Throw(q), active)
      BY <1>2, <2>0, <2>2, FitsNoWork DEF WorkHere
    <3>3. Clean \in Outcomes
      BY DEF Clean, Outcomes
    <3> QED BY <3>1, <3>2, <3>3
  <2> QED BY <2>1, <2>2
<1>8. ASSUME DeleteLinesStep(t) PROVE Goal
  <2>0. q.at = "EDIT" /\ q.todo = <<>>
    BY <1>8 DEF DeleteLinesStep, At
  <2> DEFINE ls == IF q.op \in {"unmount", "disable"} THEN Targets(q.op) ELSE {}
  <2>1. PICK o \in Outcomes :
          Run(t, o, Here, OrThrow(o, IF o.done /\ WorkHere(q)
                                     THEN [q EXCEPT !.work = DeleteLines(@, ls)] ELSE q))
    BY <1>8 DEF DeleteLinesStep
  <2> DEFINE p == IF o.done /\ WorkHere(q) THEN [q EXCEPT !.work = DeleteLines(@, ls)] ELSE q
  <2>2. p = IF o.done /\ q.work # NoFile /\ q.on = active
            THEN [q EXCEPT !.work = DeleteLines(@, ls)] ELSE q
    BY DEF WorkHere
  <2>3. Run(t, o, Here, OrThrow(o, p))
    BY <2>1
  <2>4. ls = IF q.op \in {"unmount", "disable"} THEN Targets(q.op) ELSE {}
    OBVIOUS
  <2> HIDE DEF p, ls
  <2>5. Fits(q, o, Here, Here, OrThrow(o, p), active)
    BY <1>2, <2>0, <2>2, <2>4, FitsDelete, Zenon
  <2> QED BY <2>3, <2>5
<1>9. ASSUME Remount(t) PROVE Goal
  <2>1. PICK o \in Outcomes : Run(t, o, [Here EXCEPT !.rw = @ \/ o.done], Goto(q))
    BY <1>9 DEF Remount
  <2>2. Fits(q, o, Here, [Here EXCEPT !.rw = @ \/ o.done], Goto(q), active)
    BY <1>2, <1>9, FitsRemount DEF Remount, At
  <2> QED BY <2>1, <2>2
<1>10. ASSUME Replace(t) PROVE Goal
  <2>1. PICK o \in Outcomes, again \in BOOLEAN :
          LET moves == WorkHere(q) /\ Here.rw /\ (o.done \/ (again /\ ~o.answered))
          IN  Run(t, o, IF moves THEN [Here EXCEPT !.file = q.work] ELSE Here,
                  LET s == IF moves THEN [q EXCEPT !.work = NoFile] ELSE q
                  IN  IF o.answered \/ again THEN Goto(s) ELSE Throw(s))
    BY <1>10 DEF Replace
  <2> DEFINE moves == WorkHere(q) /\ Here.rw /\ (o.done \/ (again /\ ~o.answered))
             D == IF moves THEN [Here EXCEPT !.file = q.work] ELSE Here
             p == IF moves THEN [q EXCEPT !.work = NoFile] ELSE q
  <2>2. Run(t, o, D, IF o.answered \/ again THEN Goto(p) ELSE Throw(p))
    BY <2>1
  <2>3. /\ moves \in BOOLEAN
        /\ moves <=> /\ q.work # NoFile /\ q.on = active /\ Here.rw
                     /\ o.done \/ (again /\ ~o.answered)
    BY Zenon DEF WorkHere
  <2>4. /\ D = IF moves THEN [Here EXCEPT !.file = q.work] ELSE Here
        /\ p = IF moves THEN [q EXCEPT !.work = NoFile] ELSE q
    OBVIOUS
  <2>5. q.at = "REPLACE"
    BY <1>10 DEF Replace, At
  <2> HIDE DEF moves, D, p
  <2>6. Fits(q, o, Here, D, IF o.answered \/ again THEN Goto(p) ELSE Throw(p), active)
    BY <1>2, <2>3, <2>4, <2>5, FitsReplace
  <2> QED BY <2>2, <2>6
<1>11. ASSUME WaitForChange(t) PROVE Goal
  <2>1. PICK o \in Outcomes :
          LET changed == o.done /\ q.before # NoFile /\ Here.file # q.before
          IN  Run(t, o, Here, IF ~o.answered \/ (q.op \in {"enable", "disable"} /\ ~changed)
                              THEN Throw(q) ELSE Goto(q))
    BY <1>11 DEF WaitForChange
  <2> DEFINE changed == o.done /\ q.before # NoFile /\ Here.file # q.before
  <2>2. Run(t, o, Here, IF ~o.answered \/ (q.op \in {"enable", "disable"} /\ ~changed)
                        THEN Throw(q) ELSE Goto(q))
    BY <2>1
  <2>3. /\ changed \in BOOLEAN
        /\ changed <=> o.done /\ q.before # NoFile /\ Here.file # q.before
    BY Zenon
  <2>4. q.at = "WAIT"
    BY <1>11 DEF WaitForChange, At
  <2> HIDE DEF changed
  <2>5. Fits(q, o, Here, Here, IF ~o.answered \/ (q.op \in {"enable", "disable"} /\ ~changed)
                               THEN Throw(q) ELSE Goto(q), active)
    BY <1>2, <2>3, <2>4, FitsWait
  <2> QED BY <2>2, <2>5
<1>12. ASSUME StopContainers(t) PROVE Goal
  <2>1. PICK o \in Outcomes :
          LET D == IF o.done THEN [Here EXCEPT !.up = FALSE] ELSE Here
          IN  Run(t, o, D, IF ~o.answered THEN Throw(q) ELSE IF D.up THEN Retry(q) ELSE Goto(q))
    BY <1>12 DEF StopContainers
  <2> DEFINE D == IF o.done THEN [Here EXCEPT !.up = FALSE] ELSE Here
  <2>2. Run(t, o, D, IF ~o.answered THEN Throw(q) ELSE IF D.up THEN Retry(q) ELSE Goto(q))
    BY <2>1
  <2>3. D = IF o.done THEN [Here EXCEPT !.up = FALSE] ELSE Here
    OBVIOUS
  <2>4. q.at = "STOP"
    BY <1>12 DEF StopContainers, At
  <2> HIDE DEF D
  <2>5. Fits(q, o, Here, D, IF ~o.answered THEN Throw(q) ELSE IF D.up THEN Retry(q) ELSE Goto(q), active)
    BY <1>2, <2>3, <2>4, FitsStop, Zenon
  <2> QED BY <2>2, <2>5
<1>13. ASSUME RemoveVolumes(t) PROVE Goal
  <2>1. PICK o \in Outcomes :
          LET D == IF o.done /\ ~Here.up THEN [Here EXCEPT !.vols = {}] ELSE Here
          IN  Run(t, o, D, IF ~o.answered THEN Throw(q)
                           ELSE IF D.vols # {} THEN Retry(q) ELSE Goto(q))
    BY <1>13 DEF RemoveVolumes
  <2> DEFINE D == IF o.done /\ ~Here.up THEN [Here EXCEPT !.vols = {}] ELSE Here
  <2>2. Run(t, o, D, IF ~o.answered THEN Throw(q) ELSE IF D.vols # {} THEN Retry(q) ELSE Goto(q))
    BY <2>1
  <2>3. D = IF o.done /\ ~Here.up THEN [Here EXCEPT !.vols = {}] ELSE Here
    OBVIOUS
  <2>4. q.at = "REMOVE"
    BY <1>13 DEF RemoveVolumes, At
  <2> HIDE DEF D
  <2>5. Fits(q, o, Here, D, IF ~o.answered THEN Throw(q)
                            ELSE IF D.vols # {} THEN Retry(q) ELSE Goto(q), active)
    BY <1>2, <2>3, <2>4, FitsRemove, Zenon
  <2> QED BY <2>2, <2>5
<1>14. ASSUME DaemonReload(t) PROVE Goal
  <2>1. PICK o \in Outcomes :
          Run(t, o, IF o.done THEN [Here EXCEPT !.loaded = Here.file] ELSE Here, OrThrow(o, q))
    BY <1>14 DEF DaemonReload
  <2>2. q.at = "RELOAD"
    BY <1>14 DEF DaemonReload, At
  <2>3. Fits(q, o, Here, IF o.done THEN [Here EXCEPT !.loaded = Here.file] ELSE Here,
             OrThrow(o, q), active)
    BY <1>2, <2>2, FitsReload
  <2> QED BY <2>1, <2>3
<1>15. ASSUME RestartService(t) PROVE Goal
  <2>1. PICK o \in Outcomes, isActive \in BOOLEAN :
          /\ o = Clean => isActive
          /\ Run(t, o, IF o.done THEN Restarted(Here) ELSE Here,
                 IF ~o.answered THEN Throw(q) ELSE IF isActive THEN Goto(q)
                 ELSE IF q.op = "restart" THEN Retry(q) ELSE Throw(q))
    BY <1>15 DEF RestartService
  <2>2. q.at = "RESTART"
    BY <1>15 DEF RestartService, At
  <2>3. Fits(q, o, Here, IF o.done THEN Restarted(Here) ELSE Here,
             IF ~o.answered THEN Throw(q) ELSE IF isActive THEN Goto(q)
             ELSE IF q.op = "restart" THEN Retry(q) ELSE Throw(q), active)
    BY <1>2, <2>1, <2>2, FitsRestart
  <2> QED BY <2>1, <2>3
<1>16. ASSUME PostVerify(t) PROVE Goal
  <2>1. PICK o \in Outcomes :
          Run(t, o, Here, IF o.answered /\ Wants(q.op, IF o.done THEN Here.file ELSE NoFile)
                          THEN Goto(q) ELSE Throw(q))
    BY <1>16 DEF PostVerify
  <2>2. q.at = "VERIFY"
    BY <1>16 DEF PostVerify, At
  <2>3. Fits(q, o, Here, Here, IF o.answered /\ Wants(q.op, IF o.done THEN Here.file ELSE NoFile)
                               THEN Goto(q) ELSE Throw(q), active)
    BY <1>2, <2>2, FitsVerify
  <2> QED BY <2>1, <2>3
<1>17. ASSUME Cleanup(t) PROVE Goal
  <2>1. PICK o \in Outcomes : Run(t, o, Here, OrThrow(o, q))
    BY <1>17 DEF Cleanup
  <2>2. Fits(q, o, Here, Here, OrThrow(o, q), active)
    BY <1>2, <1>17, FitsCleanup DEF Cleanup, At
  <2> QED BY <2>1, <2>2
<1> HIDE DEF Goal
<1>18. Goal
  BY <1>3, <1>4, <1>5, <1>6, <1>7, <1>8, <1>9, <1>10, <1>11, <1>12, <1>13, <1>14, <1>15, <1>16,
     <1>17 DEF CommandStep
<1> QED BY <1>1, <1>18 DEF Goal

LEMMA CostType == \A o \in Outcomes : Cost(o) \in {0, 1} /\ (Cost(o) = 0 <=> o = Clean)
BY DEF Cost

LEMMA SettledFields ==
  ASSUME NEW r \in Task, NEW c \in {0, 1}, Belongs(r), r.at \in Steps \cup {"ok", "failed"},
         NEW s, s = [r EXCEPT !.faults = @ + c]
  PROVE  /\ s.at = r.at /\ s.button = r.button /\ s.router = r.router
         /\ Settled(s) \in Task /\ Belongs(Settled(s))
         /\ Settled(s).at = r.at /\ Settled(s).button = r.button /\ Settled(s).op = r.op
         /\ Settled(s).router = r.router /\ Settled(s).disturbed = r.disturbed
         /\ Settled(s).faults = r.faults + c
         /\ r.at \in Steps => SameCopy(Settled(s), r)
<1>0. r.faults + c \in Nat
  BY DEF Task
<1>1. /\ s \in Task /\ s.at = r.at /\ s.button = r.button /\ s.op = r.op /\ s.router = r.router
      /\ s.disturbed = r.disturbed /\ s.faults = r.faults + c /\ SameCopy(s, r)
  BY <1>0 DEF Task, SameCopy
<1>2. CASE r.at \in {"ok", "failed"}
  <2> DEFINE x == [s EXCEPT !.work = NoFile, !.on = NoDevice, !.todo = <<>>,
                            !.before = NoFile, !.backup = NoFile, !.iter = 1]
  <2>1. Settled(s) = x
    BY <1>1, <1>2 DEF Settled
  <2>2. /\ x \in Task /\ x.at = s.at /\ x.button = s.button /\ x.op = s.op /\ x.router = s.router
        /\ x.disturbed = s.disturbed /\ x.faults = s.faults
    <3> DEFINE e == <<>>
    <3>1. e \in Seq(Lines) /\ 1 \in Nat
      OBVIOUS
    <3>2. x = [s EXCEPT !.work = NoFile, !.on = NoDevice, !.todo = e,
                        !.before = NoFile, !.backup = NoFile, !.iter = 1]
      OBVIOUS
    <3> HIDE DEF e, x
    <3> QED BY <1>1, <3>1, <3>2, ZenonT(40) DEF Task
  <2> HIDE DEF x
  <2>3. Belongs(x) /\ r.at \notin Steps
    BY <1>1, <1>2, <2>2 DEF Belongs, Steps
  <2> QED BY <1>1, <2>1, <2>2, <2>3
<1>3. CASE r.at \in Steps
  <2>1. Settled(s) = s
    BY <1>1, <1>3 DEF Settled, Steps
  <2>2. Belongs(s)
    BY <1>1, <1>3 DEF Belongs, SameCopy
  <2> QED BY <1>1, <2>1, <2>2, Zenon
<1> QED BY <1>2, <1>3

LEMMA SaneSame ==
  ASSUME NEW r, NEW s, NEW D, NEW a, s.at = r.at, s.op = r.op, r.at \in Steps => SameCopy(s, r),
         Sane(r, D, a)
  PROVE  Sane(s, D, a)
<1> SUFFICES ASSUME s.at \in Steps, s.op # "restart" PROVE Sane(s, D, a)
  BY Zenon DEF Sane
<1>1. s.at = r.at /\ s.op = r.op
  OBVIOUS
<1>2. s.work = r.work /\ s.on = r.on /\ s.todo = r.todo /\ s.before = r.before
  BY <1>1, Zenon DEF SameCopy
<1>3. /\ a \in Devices
      /\ r.at \in UpToReplace => SaneCopy(r, D, a)
      /\ r.at \in Replaced => SaneDevice(r, D)
  BY <1>1, Zenon DEF Sane
<1>4. Edited(s) <=> Edited(r)
  BY <1>1, Zenon DEF Edited
<1>5. SaneCopy(r, D, a) => SaneCopy(s, D, a)
  <2> SUFFICES ASSUME SaneCopy(r, D, a) PROVE SaneCopy(s, D, a)
    OBVIOUS
  <2>1. /\ s.op = "enable" => D.file["log"] = 0
        /\ s.op = "disable" => D.file["log"] > 0
        /\ s.op = "unmount" /\ s.at \in {"REMOUNT", "EDIT", "REPLACE"} => D.up = FALSE
    BY <1>1, Zenon DEF SaneCopy
  <2>2. /\ s.at \in HasWork => /\ s.work \in File /\ s.on = a
                               /\ s.op \in {"unmount", "disable"} => s.todo = <<>>
        /\ s.at \in HasWork \ {"HASH"} => s.before = D.file
        /\ s.at \in HasWork \ {"HASH", "BACKUP"} => D.rw = TRUE
        /\ Edited(s) => Wants(s.op, s.work)
    BY <1>1, <1>2, <1>4, Zenon DEF SaneCopy
  <2>3. s.at \in HasWork /\ ~Edited(s) /\ s.op \in {"mount", "enable"} =>
          \A l \in Targets(s.op) : s.work[l] > 0 \/ \E i \in DOMAIN s.todo : s.todo[i] = l
    BY <1>1, <1>2, <1>4, Zenon DEF SaneCopy
  <2> QED BY <2>1, <2>2, <2>3, Zenon DEF SaneCopy
<1>6. SaneDevice(r, D) => SaneDevice(s, D)
  BY <1>1, <1>2, Zenon DEF SaneDevice
<1> QED BY <1>1, <1>3, <1>5, <1>6, Zenon DEF Sane

(* What a step of task t tells of the others: when it is alone, there are  *)
(* none.                                                                   *)
LEMMA OthersDisturbed ==
  ASSUME DeviceInv, NEW t \in Running, NEW u \in Running, u # t
  PROVE  task[u].disturbed
<1>1. u \in Tasks /\ TaskInv(u)
  BY DEF Running, DeviceInv
<1> QED BY <1>1 DEF TaskInv

LEMMA SumZero ==
  \A m, n \in Nat : m + n = 0 => m = 0 /\ n = 0
  OBVIOUS

LEMMA ZeroOne == 0 \in Nat /\ 1 \in Nat
  OBVIOUS

LEMMA RunKeeps ==
  ASSUME DeviceInv, NEW t \in Tasks, task[t].at \in Steps \ {"CONNECT"},
         NEW o \in Outcomes, NEW D, NEW r, Run(t, o, D, r), Fits(task[t], o, Here, D, r, active)
  PROVE  DeviceInv'
<1> DEFINE q == task[t]
           s0 == [r EXCEPT !.faults = @ + Cost(o)]
           s == Settled(s0)
<1>0. /\ Found(q, Here, active) /\ t \in Running /\ q \in Task /\ q.faults \in Nat
      /\ Cost(o) \in {0, 1} /\ (Cost(o) = 0 <=> o = Clean)
      /\ Here \in Device /\ active \in Devices
  BY TaskFound, CostType, ZenonT(30) DEF Found, Task
<1>1. /\ D \in Device /\ r \in Task /\ Same(r, q) /\ Belongs(r) /\ r.at \in Steps \cup {"ok", "failed"}
  BY DEF Fits
<1>2. /\ s0.at = r.at /\ s0.button = r.button /\ s0.router = r.router
      /\ s \in Task /\ Belongs(s) /\ s.at = r.at /\ s.button = q.button /\ s.op = q.op
      /\ s.router = q.router /\ s.disturbed = q.disturbed /\ s.faults = q.faults + Cost(o)
      /\ r.at \in Steps => SameCopy(s, r)
  <2> HIDE DEF s0
  <2>1. s0 = [r EXCEPT !.faults = @ + Cost(o)]
    BY DEF s0
  <2> QED BY <1>0, <1>1, <2>1, SettledFields DEF Same
<1>3. /\ task' = [task EXCEPT ![t] = s] /\ dev' = [dev EXCEPT ![active] = D]
      /\ lock' = Release(s0, lock) /\ faults' = faults + Cost(o)
      /\ active' = active /\ router' = router /\ upsets' = upsets
  BY DEF Run
<1> HIDE DEF s, s0
<1>4. TypeOK
  BY DEF DeviceInv
<1>5. /\ task'[t] = s /\ \A u \in Tasks \ {t} : task'[u] = task[u]
  BY <1>3, <1>4 DEF TypeOK
<1>6. Here' = D /\ \A d \in Devices \ {active} : dev'[d] = dev[d]
  BY <1>0, <1>3, <1>4 DEF TypeOK, Here
<1>7. TypeOK'
  <2>1. task' \in [Tasks -> Task] /\ dev' \in [Devices -> Device]
    BY <1>0, <1>1, <1>2, <1>3, <1>4 DEF TypeOK
  <2>2. lock' \in BOOLEAN
    BY <1>3 DEF Release
  <2>3. faults' \in Nat
    BY <1>0, <1>3, <1>4 DEF TypeOK
  <2> QED BY <1>3, <1>4, <2>1, <2>2, <2>3, Zenon DEF TypeOK
<1>8. Running' \subseteq Running /\ (t \in Running' <=> r.at \in Steps)
      /\ \A u \in Tasks \ {t} : u \in Running' <=> u \in Running
  BY <1>0, <1>1, <1>2, <1>5, ZenonT(30) DEF Running, Over, Steps
<1>9. ASSUME NEW u \in Tasks PROVE TaskInv(u)'
  <2>0. TaskInv(u)
    BY ZenonT(30) DEF DeviceInv
  <2>1. CASE u = t
    <3>1. task'[u] = s
      BY <1>5, <2>1
    <3>2. ~s.disturbed => Running = {t}
      BY <1>0, <1>2, <2>0, <2>1, ZenonT(30) DEF TaskInv
    <3>3. u \in Running' /\ ~s.disturbed => Running' = {u}
      BY <1>8, <2>1, <3>2, ZenonT(40)
    <3>4. ~s.disturbed /\ s.faults = 0 => Sane(s, D, active)
      <4>1. s.faults = 0 => q.faults = 0 /\ o = Clean
        <5>1. q.faults \in Nat /\ Cost(o) \in Nat /\ (Cost(o) = 0 <=> o = Clean)
          BY <1>0, ZeroOne, Zenon
        <5>2. s.faults = q.faults + Cost(o)
          BY <1>2, Zenon
        <5> QED BY <5>1, <5>2, SumZero, Zenon
      <4>2. ~s.disturbed /\ s.faults = 0 => Sane(r, D, active)
        BY <1>2, <4>1, ZenonT(30) DEF Fits
      <4>3. s.op = r.op
        BY <1>1, <1>2, ZenonT(30) DEF Same
      <4> QED BY <1>2, <4>2, <4>3, SaneSame
    <3>5. ~s.disturbed /\ s.faults <= 1 /\ s.at = "CLEANUP" => Wants(s.op, D.file)
      <4>1. r.op = s.op
        BY <1>1, <1>2, ZenonT(30) DEF Same
      <4> QED BY <1>2, <4>1, ZenonT(30) DEF Fits
    <3>6. s.at = "failed" => s.faults > 0 \/ s.disturbed
      <4>1. q.faults \in Nat /\ Cost(o) \in {0, 1} /\ (Cost(o) = 0 <=> o = Clean)
        BY <1>0, Zenon
      <4>2. s.faults = q.faults + Cost(o) /\ s.at = r.at /\ s.disturbed = q.disturbed
        BY <1>2, Zenon
      <4>3. r.at = "failed" => o # Clean \/ q.disturbed \/ q.faults > 0
        BY Zenon DEF Fits
      <4>4. o # Clean \/ q.faults > 0 => s.faults > 0
        BY <4>1, <4>2
      <4> QED BY <4>2, <4>3, <4>4, Zenon
    <3> QED BY <1>0, <1>2, <1>3, <1>6, <3>1, <3>3, <3>4, <3>5, <3>6, ZenonT(40) DEF TaskInv
  <2>2. CASE u # t
    <3>1. task'[u] = task[u]
      BY <1>5, <2>2, Zenon
    <3>2. u \in Running' => task[u].disturbed
      BY <1>0, <1>8, <2>2, OthersDisturbed
    <3>3. task[u].at = "CLEANUP" => u \in Running'
      BY <1>8, <2>2 DEF Running, Over
    <3> QED BY <1>0, <1>3, <2>0, <3>1, <3>2, <3>3 DEF TaskInv
  <2> QED BY <2>1, <2>2, ZenonT(30)
<1>10. LockInv'
  <2> SUFFICES ASSUME router = 0 PROVE LockInv'
    BY <1>3, Zenon DEF LockInv
  <2>1. /\ \A u \in Tasks : task[u].router = 0
        /\ \A u \in Running : task[u].button \in LockTargets =>
             /\ lock = TRUE
             /\ \A v \in Running : task[v].button \in LockTargets => v = u
    BY Zenon DEF DeviceInv, LockInv
  <2>2. \A u \in Tasks : task'[u].router = 0 /\ task'[u].button = task[u].button
    BY <1>2, <1>5, <2>1
  <2>3. ASSUME NEW u \in Running', task'[u].button \in LockTargets
        PROVE  lock' = TRUE /\ \A v \in Running' : task'[v].button \in LockTargets => v = u
    <3>1. u \in Running /\ u \in Tasks /\ task[u].button \in LockTargets
      BY <1>8, <2>2, <2>3 DEF Running
    <3>2. \A v \in Running' : task'[v].button \in LockTargets => v = u
      BY <1>8, <2>1, <2>2, <3>1 DEF Running
    <3>3. ~(Over(s0) /\ s0.button \in LockTargets)
      <4>1. CASE u = t
        BY <1>1, <1>2, <1>8, <2>3, <4>1 DEF Over, Steps
      <4>2. CASE u # t
        <5>1. q.button \notin LockTargets
          BY <1>0, <2>1, <3>1, <4>2, Zenon
        <5> QED BY <1>1, <1>2, <5>1, ZenonT(30) DEF Same
      <4> QED BY <4>1, <4>2
    <3>4. lock = TRUE
      BY <2>1, <3>1
    <3>5. lock' = TRUE
      BY <1>3, <3>3, <3>4, Zenon DEF Release
    <3> QED BY <3>2, <3>5, Zenon
  <2> QED BY <2>2, <2>3, Zenon DEF LockInv
<1>11. CopyInv'
  <2> SUFFICES ASSUME router = 0, NEW u \in Tasks, task'[u].at \in UpToReplace
               PROVE  Copies(task'[u], dev')
    BY <1>3, Zenon DEF CopyInv
  <2>1. \A v \in Tasks : task[v].at \in UpToReplace => Copies(task[v], dev)
    BY DEF DeviceInv, CopyInv
  <2>2. ASSUME D.file = Here.file, NEW d \in Devices PROVE dev'[d].file = dev[d].file
    BY <1>3, <1>6, <2>2, Zenon DEF Here
  <2>3. CASE u = t
    <3>1. /\ task'[u] = s /\ r.at \in UpToReplace /\ SameCopy(s, r) /\ s.op = q.op
      BY <1>2, <1>5, <2>3, Zenon DEF UpToReplace, Steps
    <3>2. D.file = Here.file /\ Derived(r, q, Here, active) /\ q.at \in UpToReplace
      BY <3>1 DEF Fits
    <3>3. \A d \in Devices : dev'[d].file = dev[d].file
      BY <2>2, <3>2
    <3>4. Copies(q, dev) /\ (q.backup # NoFile => q.backup.on \in Devices)
      BY <1>0, <2>1, <3>2, ZenonT(30) DEF Task
    <3>5. r.work # NoFile => /\ r.on \in Devices
                             /\ \A l \in Lines \ Targets(q.op) : r.work[l] = dev'[r.on].file[l]
      <4> SUFFICES ASSUME r.work # NoFile
                   PROVE  /\ r.on \in Devices
                          /\ \A l \in Lines \ Targets(q.op) : r.work[l] = dev'[r.on].file[l]
        OBVIOUS
      <4>1. q.work # NoFile => /\ q.on \in Devices
                               /\ \A l \in Lines \ Targets(q.op) : q.work[l] = dev[q.on].file[l]
        BY <3>4, Zenon DEF Copies
      <4>2. CASE r.work = q.work /\ r.on = q.on
        BY <3>3, <4>1, <4>2, Zenon
      <4>3. CASE r.work = Here.file /\ r.on = active
        <5>1. active \in Devices
          BY <1>0, Zenon
        <5>2. dev'[active].file = Here.file
          BY <3>3, <5>1, Zenon DEF Here
        <5> QED BY <4>3, <5>1, <5>2, Zenon
      <4>4. CASE /\ q.work # NoFile /\ r.on = q.on
                 /\ \A l \in Lines \ Targets(q.op) : r.work[l] = q.work[l]
        BY <3>3, <4>1, <4>4, Zenon
      <4> QED BY <3>2, <4>2, <4>3, <4>4, Zenon DEF Derived
    <3>6. r.backup # NoFile => r.backup.file = dev'[r.backup.on].file
      <4>1. CASE r.backup = q.backup
        BY <3>3, <3>4, <4>1, Zenon DEF Copies
      <4>2. CASE r.backup = [on |-> active, file |-> Here.file]
        <5>1. r.backup.on = active /\ r.backup.file = Here.file
          BY <4>2
        <5>2. dev'[active].file = Here.file
          BY <1>0, <3>3, Zenon DEF Here
        <5> QED BY <5>1, <5>2, Zenon
      <4> QED BY <3>2, <4>1, <4>2, Zenon DEF Derived
    <3> QED BY <3>1, <3>5, <3>6, Zenon DEF Copies, SameCopy
  <2>4. CASE u # t
    <3>1. task'[u] = task[u] /\ Copies(task[u], dev) /\ task[u] \in Task
      BY <1>4, <1>5, <2>1, <2>4, Zenon DEF TypeOK
    <3>2. CASE D.file = Here.file
      <4>1. \A d \in Devices : dev'[d].file = dev[d].file
        BY <2>2, <3>2, Zenon
      <4>2. task[u].backup # NoFile => task[u].backup.on \in Devices
        BY <3>1, ZenonT(30) DEF Task
      <4> QED BY <3>1, <4>1, <4>2, ZenonT(30) DEF Copies
    <3>3. CASE D.file # Here.file
      <4>1. q.at = "REPLACE"
        BY <3>3, ZenonT(30) DEF Fits
      <4>2. q.button \in LockTargets
        BY <1>0, <4>1, ZenonT(30) DEF Found, Belongs, Ops, Mounting, Toggling, LockTargets
      <4>3. u \in Running /\ task[u].at \in Steps
        BY <3>1, ZenonT(30) DEF Running, Over, UpToReplace, Steps
      <4>4. task[u].button \notin LockTargets
        BY <1>0, <2>4, <4>2, <4>3, Zenon DEF DeviceInv, LockInv
      <4>5. task[u].work = NoFile /\ task[u].backup = NoFile
        BY <4>3, <4>4, Zenon DEF DeviceInv, TaskInv, Belongs, Ops, Mounting, Toggling, LockTargets
      <4> QED BY <3>1, <4>5, ZenonT(30) DEF Copies
    <3> QED BY <3>2, <3>3, ZenonT(30)
  <2> QED BY <2>3, <2>4
<1> QED BY <1>7, <1>9, <1>10, <1>11 DEF DeviceInv

LEMMA ProbeKeeps ==
  ASSUME DeviceInv, NEW t \in Tasks, Probe(t)
  PROVE  DeviceInv'
<1> DEFINE q == task[t]
<1>0. /\ TypeOK /\ q \in Task /\ q.at = "PROBE" /\ t \in Running /\ Belongs(q)
      /\ q.button \in LockTargets /\ q.work = NoFile /\ q.backup = NoFile /\ q.todo = <<>>
      /\ q.faults \in Nat /\ q.disturbed \in BOOLEAN
  BY Zenon DEF DeviceInv, TypeOK, TaskInv, Belongs, Probe, At, Running, Over, Task
<1>1. PICK o \in Outcomes, op \in Ops :
        /\ op = IF q.button = "volume"
                THEN IF active # NoDevice /\ o = Clean /\ Mounted(Here) THEN "unmount" ELSE "mount"
                ELSE IF active # NoDevice /\ o = Clean /\ ToggleOn(Here) THEN "disable" ELSE "enable"
        /\ faults' = faults + Cost(o)
        /\ task' = [task EXCEPT ![t] =
                      [q EXCEPT !.op = op, !.at = "CONNECT", !.faults = @ + Cost(o),
                                !.disturbed = @ \/ active = NoDevice]]
  BY Zenon DEF Probe, Ops
<1>2. UNCHANGED <<dev, active, lock, router, upsets>>
  BY DEF Probe
<1>3. Cost(o) \in {0, 1} /\ (Cost(o) = 0 <=> o = Clean)
  BY CostType
<1> DEFINE x == (q.disturbed \/ active = NoDevice)
           s == [q EXCEPT !.op = op, !.at = "CONNECT", !.faults = @ + Cost(o), !.disturbed = x]
<1>4. x \in BOOLEAN /\ (~x => ~q.disturbed /\ active # NoDevice)
  BY <1>0, Zenon
<1>5. task' = [task EXCEPT ![t] = s]
  BY <1>1
<1>6. q.faults + Cost(o) \in Nat
  BY <1>0, <1>3
<1> HIDE DEF x
<1>7. /\ s \in Task /\ s.op = op /\ s.at = "CONNECT" /\ s.faults = q.faults + Cost(o)
      /\ s.disturbed = x /\ s.button = q.button /\ s.work = NoFile /\ s.backup = NoFile
      /\ s.todo = <<>> /\ s.router = q.router
  <2> DEFINE n == q.faults + Cost(o)
  <2>1. s = [q EXCEPT !.op = op, !.at = "CONNECT", !.faults = n, !.disturbed = x]
    OBVIOUS
  <2>2. n \in Nat /\ op \in Ops \cup {"none"} /\ "CONNECT" \in Steps
    BY <1>6 DEF Steps
  <2> HIDE DEF n, s
  <2>3. s \in Task
    BY <1>0, <1>4, <2>1, <2>2, Zenon DEF Task
  <2>4. /\ s.op = op /\ s.at = "CONNECT" /\ s.faults = n
        /\ s.disturbed = x /\ s.button = q.button /\ s.work = q.work /\ s.backup = q.backup
        /\ s.todo = q.todo /\ s.router = q.router
    BY <1>0, <2>1 DEF Task
  <2> QED BY <1>0, <2>3, <2>4 DEF n
<1> HIDE DEF s
<1>8. task'[t] = s /\ \A u \in Tasks \ {t} : task'[u] = task[u]
  BY <1>0, <1>5 DEF TypeOK
<1>9. TypeOK'
  <2>1. faults' \in Nat
    BY <1>0, <1>1, <1>3 DEF TypeOK
  <2>2. task' \in [Tasks -> Task]
    BY <1>0, <1>5, <1>7 DEF TypeOK
  <2> QED BY <1>0, <1>2, <2>1, <2>2 DEF TypeOK
<1>10. Running' = Running
  BY <1>0, <1>7, <1>8 DEF Running, Over
<1>11. Belongs(s)
  <2>1. op \in Mounting => q.button = "volume"
    BY <1>0, <1>1 DEF Mounting, LockTargets
  <2>2. op \in Toggling => q.button = "log"
    BY <1>0, <1>1 DEF Toggling, LockTargets
  <2>3. op # "restart"
    BY <1>1
  <2>4. s.todo \in Seq(Targets(s.op))
    BY <1>7
  <2> QED BY <1>7, <2>1, <2>2, <2>3, <2>4 DEF Belongs
<1>12. ~s.disturbed /\ s.faults = 0 => Sane(s, Here, active)
  <2> SUFFICES ASSUME ~s.disturbed, s.faults = 0 PROVE Sane(s, Here, active)
    OBVIOUS
  <2>1. o = Clean /\ active # NoDevice /\ active \in Devices
    BY <1>0, <1>3, <1>4, <1>7 DEF TypeOK
  <2>2. Here.file \in File /\ Here.file # NoFile
    BY <1>0, <2>1, FileAssumption DEF TypeOK, Here, Device
  <2>3. Here.file["log"] \in Nat
    BY <2>2 DEF File, Lines, MaxCopies
  <2>4. /\ op = "disable" => Contains(Here.file, "log")
        /\ op = "enable" => ~Contains(Here.file, "log")
    BY <1>1, <2>1 DEF ToggleOn
  <2>5. SaneCopy(s, Here, active)
    <3>1. s.op = op /\ s.at = "CONNECT"
      BY <1>7, Zenon
    <3>2. s.at \notin HasWork /\ s.at \notin {"REMOUNT", "EDIT", "REPLACE"} /\ ~Edited(s)
      BY <3>1 DEF HasWork, Edited
    <3>3. op = "enable" => Here.file["log"] = 0
      BY <2>2, <2>3, <2>4 DEF Contains
    <3>4. op = "disable" => Here.file["log"] > 0
      BY <2>4 DEF Contains
    <3> QED BY <3>1, <3>2, <3>3, <3>4, Zenon DEF SaneCopy
  <2> QED BY <1>7, <2>1, <2>5 DEF Sane, Replaced
<1>13. ASSUME NEW u \in Tasks PROVE TaskInv(u)'
  <2>0. TaskInv(u) /\ Here' = Here
    BY <1>2 DEF DeviceInv, Here
  <2>1. CASE u = t
    <3>1. ~s.disturbed => Running = {t}
      BY <1>0, <1>4, <1>7, <2>0, <2>1, ZenonT(40) DEF TaskInv
    <3> QED BY <1>2, <1>7, <1>8, <1>10, <1>11, <1>12, <2>0, <2>1, <3>1, ZenonT(30) DEF TaskInv
  <2>2. CASE u # t
    BY <1>2, <1>8, <1>10, <2>0, <2>2 DEF TaskInv
  <2> QED BY <2>1, <2>2
<1>14. LockInv'
  <2>1. LockInv /\ \A u \in Tasks : task'[u].router = task[u].router /\ task'[u].button = task[u].button
    BY <1>7, <1>8 DEF DeviceInv
  <2> QED BY <1>2, <1>10, <2>1 DEF LockInv, Running
<1>15. CopyInv'
  <2>1. CopyInv /\ Copies(s, dev)
    BY <1>7 DEF DeviceInv, Copies
  <2> QED BY <1>2, <1>8, <2>1 DEF CopyInv
<1> QED BY <1>9, <1>13, <1>14, <1>15 DEF DeviceInv

LEMMA ConnectKeeps ==
  ASSUME DeviceInv, NEW t \in Tasks, EnsureConnected(t)
  PROVE  DeviceInv'
<1> DEFINE q == task[t]
<1>0. /\ TypeOK /\ q \in Task /\ q.at = "CONNECT" /\ t \in Running /\ Belongs(q) /\ TaskInv(t)
      /\ q.faults \in Nat /\ q.disturbed \in BOOLEAN /\ q.at \in Steps
  BY DEF DeviceInv, TypeOK, TaskInv, EnsureConnected, At, Running, Over, Task, Steps
<1>1. PICK d \in Connected :
        LET r == IF d = NoDevice THEN [Throw(q) EXCEPT !.disturbed = TRUE] ELSE Goto(q)
        IN  active' = d /\ task' = [task EXCEPT ![t] = Settled(r)] /\ lock' = Release(r, lock)
  BY Zenon DEF EnsureConnected
<1>2. UNCHANGED <<dev, router, faults, upsets>>
  BY DEF EnsureConnected
<1> DEFINE r == IF d = NoDevice THEN [Throw(q) EXCEPT !.disturbed = TRUE] ELSE Goto(q)
<1>3. /\ d \in Devices \cup {NoDevice} /\ (active # NoDevice => d = active)
      /\ d # NoDevice => d \in Devices
  BY <1>0, <1>1 DEF TypeOK, Connected
<1>4. /\ r \in Task /\ r.at \in {"UNIT", "failed"} /\ r.op = q.op /\ r.router = q.router
      /\ r.button = q.button /\ r.faults = q.faults /\ Belongs(r)
      /\ d = NoDevice => r.at = "failed" /\ r.disturbed
      /\ d # NoDevice => r.at = "UNIT" /\ r.disturbed = q.disturbed /\ SameCopy(r, q)
  <2>1. CASE d = NoDevice
    <3> DEFINE p == Throw(q)
    <3>1. p \in Task /\ p.at = "failed" /\ Same(p, q)
      BY <1>0, ThrowFields
    <3>2. r = [p EXCEPT !.disturbed = TRUE]
      BY <2>1
    <3> HIDE DEF p, r
    <3>3. /\ r \in Task /\ r.at = "failed" /\ r.op = p.op /\ r.router = p.router
          /\ r.button = p.button /\ r.faults = p.faults /\ r.disturbed = TRUE
      BY <3>1, <3>2, Zenon DEF Task
    <3>4. Belongs(r)
      BY <3>3 DEF Belongs, Steps
    <3> QED BY <2>1, <3>1, <3>3, <3>4 DEF Same
  <2>2. CASE d # NoDevice
    <3>1. r = Goto(q)
      BY <2>2
    <3> HIDE DEF r
    <3>2. r \in Task /\ r.at = "UNIT" /\ Same(r, q) /\ SameCopy(r, q) /\ Belongs(r)
      BY <1>0, <3>1, GotoFields DEF Succ
    <3> QED BY <2>2, <3>2 DEF Same
  <2> QED BY <2>1, <2>2, Zenon
<1> DEFINE s == Settled(r)
<1>5. active' = d /\ task' = [task EXCEPT ![t] = s] /\ lock' = Release(r, lock)
  BY <1>1
<1> HIDE DEF r
<1>6. /\ s \in Task /\ Belongs(s) /\ s.at = r.at /\ s.button = q.button /\ s.op = q.op
      /\ s.router = q.router /\ s.disturbed = r.disturbed /\ s.faults = q.faults
      /\ r.at \in Steps => SameCopy(s, r)
  <2>1. r = [r EXCEPT !.faults = @ + 0]
    <3>1. r.faults + 0 = r.faults
      BY <1>4 DEF Task
    <3> QED BY <1>4, <3>1 DEF Task
  <2>2. r.at \in Steps \cup {"ok", "failed"}
    BY <1>4 DEF Steps
  <2>3. r.faults + 0 = q.faults
    BY <1>0, <1>4
  <2>4. 0 \in {0, 1}
    OBVIOUS
  <2> QED BY <1>4, <2>1, <2>2, <2>3, <2>4, SettledFields
<1> HIDE DEF s
<1>7. task'[t] = s /\ \A u \in Tasks \ {t} : task'[u] = task[u]
  BY <1>0, <1>5 DEF TypeOK
<1>8. TypeOK'
  <2>1. lock' \in BOOLEAN
    BY <1>5 DEF Release
  <2>2. task' \in [Tasks -> Task]
    BY <1>0, <1>5, <1>6, Zenon DEF TypeOK
  <2> QED BY <1>0, <1>2, <1>3, <1>5, <2>1, <2>2 DEF TypeOK
<1>9. Running' \subseteq Running /\ (t \in Running' <=> r.at = "UNIT")
      /\ \A u \in Tasks \ {t} : u \in Running' <=> u \in Running
  BY <1>0, <1>4, <1>6, <1>7 DEF Running, Over
<1>10. ASSUME NEW u \in Tasks PROVE TaskInv(u)'
  <2>0. TaskInv(u)
    BY DEF DeviceInv
  <2>1. CASE u = t
    <3>1. s.at = "UNIT" => d \in Devices /\ s.disturbed = q.disturbed
      BY <1>3, <1>4, <1>6
    <3>2. u \in Running' /\ ~s.disturbed => Running' = {u}
      BY <1>0, <1>6, <1>9, <2>1, <3>1, ZenonT(30) DEF TaskInv
    <3>3. u \in Running' /\ ~s.disturbed /\ s.faults = 0 => Sane(s, Here', d)
      <4> SUFFICES ASSUME u \in Running', ~s.disturbed, s.faults = 0 PROVE Sane(s, Here', d)
        OBVIOUS
      <4>1. s.at = "UNIT" /\ Sane(q, Here, active) /\ d \in Devices
        BY <1>0, <1>6, <1>9, <2>1, <3>1, ZenonT(30) DEF TaskInv
      <4>2. CASE q.op = "restart"
        BY <1>6, <4>2, ZenonT(30) DEF Sane
      <4>3. CASE q.op # "restart"
        <5>1. active \in Devices /\ SaneCopy(q, Here, active)
          BY <1>0, <4>1, <4>3, Zenon DEF Sane, UpToReplace
        <5>2. d = active /\ Here' = Here
          BY <1>2, <1>3, <1>5, <5>1, DeviceAssumption DEF Here
        <5>3. SaneCopy(s, Here, active)
          BY <1>0, <1>6, <4>1, <5>1, ZenonT(30) DEF SaneCopy, HasWork, Edited
        <5> QED BY <4>1, <5>2, <5>3, Zenon DEF Sane, Replaced
      <4> QED BY <4>2, <4>3
    <3>4. s.at = "failed" => s.disturbed
      BY <1>4, <1>6
    <3>5. s.at # "CLEANUP"
      BY <1>4, <1>6
    <3> QED BY <1>5, <1>6, <1>7, <1>4, <2>1, <3>1, <3>2, <3>3, <3>4, <3>5, Zenon DEF TaskInv, Steps
  <2>2. CASE u # t
    <3>1. task'[u] = task[u]
      BY <1>7, <2>2
    <3>2. u \in Running' => task[u].disturbed
      BY <1>0, <1>9, <2>2, OthersDisturbed
    <3>3. task[u].at = "CLEANUP" => u \in Running'
      BY <1>9, <2>2 DEF Running, Over
    <3>4. task[u].at \in Steps \ {"CONNECT"} => active' \in Devices
      BY <1>3, <1>5, <2>0, DeviceAssumption DEF TaskInv
    <3> QED BY <2>0, <3>1, <3>2, <3>3, <3>4, Zenon DEF TaskInv
  <2> QED BY <2>1, <2>2
<1>11. LockInv'
  <2> SUFFICES ASSUME router = 0 PROVE LockInv'
    BY <1>2, Zenon DEF LockInv
  <2>1. /\ \A u \in Tasks : task[u].router = 0
        /\ \A u \in Running : task[u].button \in LockTargets =>
             /\ lock = TRUE
             /\ \A v \in Running : task[v].button \in LockTargets => v = u
    BY DEF DeviceInv, LockInv
  <2>2. \A u \in Tasks : task'[u].router = 0 /\ task'[u].button = task[u].button
    BY <1>6, <1>7, <2>1
  <2>3. ASSUME NEW u \in Running', task'[u].button \in LockTargets
        PROVE  lock' = TRUE /\ \A v \in Running' : task'[v].button \in LockTargets => v = u
    <3>1. u \in Running /\ u \in Tasks /\ task[u].button \in LockTargets
      BY <1>9, <2>2, <2>3 DEF Running
    <3>2. \A v \in Running' : task'[v].button \in LockTargets => v = u
      BY <1>9, <2>1, <2>2, <3>1 DEF Running
    <3>3. ~(Over(r) /\ r.button \in LockTargets)
      <4>1. CASE u = t
        BY <1>9, <2>3, <4>1, Zenon DEF Over
      <4>2. CASE u # t
        BY <1>0, <1>4, <2>1, <3>1, <4>2
      <4> QED BY <4>1, <4>2
    <3>4. lock = TRUE
      BY <2>1, <3>1
    <3>5. lock' = TRUE
      BY <1>5, <3>3, <3>4, Zenon DEF Release
    <3> QED BY <3>2, <3>5
  <2> QED BY <2>2, <2>3, Zenon DEF LockInv
<1>12. CopyInv'
  <2> SUFFICES ASSUME router = 0, NEW u \in Tasks, task'[u].at \in UpToReplace
               PROVE  Copies(task'[u], dev)
    BY <1>2 DEF CopyInv
  <2>1. CopyInv
    BY DEF DeviceInv
  <2>2. CASE u = t
    <3>1. r.at = "UNIT"
      BY <1>4, <1>6, <1>7, <2>2, Zenon DEF UpToReplace
    <3>2. SameCopy(r, q) /\ SameCopy(s, r)
      BY <1>4, <1>6, <3>1, Zenon DEF Steps
    <3>3. Copies(q, dev)
      BY <1>0, <2>1 DEF CopyInv, UpToReplace
    <3>4. task'[u] = s /\ s.op = q.op
      BY <1>6, <1>7, <2>2, Zenon
    <3> QED BY <3>2, <3>3, <3>4, Zenon DEF Copies, SameCopy
  <2>3. CASE u # t
    BY <1>7, <2>1, <2>3 DEF CopyInv
  <2> QED BY <2>2, <2>3
<1> QED BY <1>8, <1>10, <1>11, <1>12 DEF DeviceInv

(* What a click or a new connection makes of a task that is running. *)
LEMMA DisturbedFields ==
  ASSUME NEW r \in Task, NEW s, s = [r EXCEPT !.disturbed = TRUE]
  PROVE  /\ s \in Task /\ s.disturbed = TRUE /\ s.at = r.at /\ s.op = r.op /\ s.button = r.button
         /\ s.router = r.router /\ SameCopy(s, r)
         /\ Belongs(r) => Belongs(s)
         /\ \A dv : Copies(r, dv) => Copies(s, dv)
<1>1. /\ s \in Task /\ s.disturbed = TRUE /\ s.at = r.at /\ s.op = r.op /\ s.button = r.button
      /\ s.router = r.router /\ SameCopy(s, r)
  BY Zenon DEF Task, SameCopy
<1>2. Belongs(r) => Belongs(s)
  BY <1>1 DEF Belongs, SameCopy
<1>3. \A dv : Copies(r, dv) => Copies(s, dv)
  BY <1>1 DEF Copies, SameCopy
<1> QED BY <1>1, <1>2, <1>3, Zenon

LEMMA DispatchKeeps ==
  ASSUME DeviceInv, NEW t \in Tasks, NEW b \in Buttons, Dispatch(t, b)
  PROVE  DeviceInv'
<1> DEFINE first == IF b = "restart" THEN "CONNECT" ELSE "PROBE"
           op == IF b = "restart" THEN b ELSE "none"
           busy == Running # {}
           s == [Idle EXCEPT !.button = b, !.at = first, !.op = op,
                             !.router = router, !.disturbed = busy]
<1>0. TypeOK /\ task[t] = Idle
  BY Zenon DEF DeviceInv, Dispatch, Start
<1>1. /\ task' = [u \in Tasks |->
                    IF u = t THEN s
                    ELSE IF u \in Running THEN [task[u] EXCEPT !.disturbed = TRUE]
                    ELSE task[u]]
      /\ ~(b \in LockTargets /\ lock)
      /\ lock' = (lock \/ b \in LockTargets)
      /\ UNCHANGED <<dev, active, router, faults, upsets>>
  BY Zenon DEF Dispatch, Start
<1>2. /\ s \in Task /\ s.button = b /\ s.at = first /\ s.op = op /\ s.router = router
      /\ s.disturbed = busy /\ s.faults = 0 /\ s.work = NoFile /\ s.backup = NoFile /\ s.todo = <<>>
  <2>1. Idle \in Task
    <3> DEFINE e == <<>>
    <3>1. e \in Seq(Lines) /\ 1 \in Nat /\ 0 \in Nat
      OBVIOUS
    <3>2. Idle = [button |-> "none", op |-> "none", at |-> "idle", iter |-> 1,
                  work |-> NoFile, on |-> NoDevice, todo |-> e, before |-> NoFile,
                  backup |-> NoFile, faults |-> 0, disturbed |-> FALSE, router |-> 0]
      BY DEF Idle
    <3> HIDE DEF e
    <3> QED BY <3>1, <3>2 DEF Task
  <2>2. first \in Steps \cup {"PROBE"} /\ op \in Ops \cup {"none"} /\ busy \in BOOLEAN /\ router \in Nat
    BY <1>0 DEF Steps, Ops, TypeOK
  <2>3. Idle.faults = 0 /\ Idle.work = NoFile /\ Idle.backup = NoFile /\ Idle.todo = <<>>
    BY DEF Idle
  <2>4. s = [Idle EXCEPT !.button = b, !.at = first, !.op = op, !.router = router, !.disturbed = busy]
    OBVIOUS
  <2> HIDE DEF first, op, busy, s
  <2>5. s \in Task
    BY <2>1, <2>2, <2>4, Zenon DEF Task
  <2>6. /\ s.button = b /\ s.at = first /\ s.op = op /\ s.router = router
        /\ s.disturbed = busy /\ s.faults = Idle.faults /\ s.work = Idle.work
        /\ s.backup = Idle.backup /\ s.todo = Idle.todo
    BY <2>1, <2>4 DEF Task
  <2> QED BY <2>3, <2>5, <2>6, Zenon
<1> HIDE DEF s
<1>3. task'[t] = s
  BY <1>1
<1>4. ASSUME NEW u \in Running
      PROVE  u \in Tasks /\ u # t /\ task'[u] = [task[u] EXCEPT !.disturbed = TRUE]
  BY <1>0, <1>1, <1>4 DEF Running, Over, Idle
<1>5. ASSUME NEW u \in Tasks, u # t, u \notin Running PROVE task'[u] = task[u]
  BY <1>1, <1>5
<1>6. ASSUME NEW u \in Running
      PROVE  /\ task'[u] \in Task /\ task'[u].disturbed = TRUE /\ task'[u].at = task[u].at
             /\ task'[u].button = task[u].button /\ task'[u].router = task[u].router
             /\ Belongs(task'[u])
             /\ Copies(task[u], dev) => Copies(task'[u], dev)
  <2>1. u \in Tasks /\ task'[u] = [task[u] EXCEPT !.disturbed = TRUE] /\ task[u] \in Task
        /\ Belongs(task[u])
    BY <1>0, <1>4, <1>6 DEF TypeOK, DeviceInv, TaskInv
  <2> QED BY <2>1, DisturbedFields, Zenon
<1>7. TypeOK'
  <2>1. \A u \in Tasks : task'[u] \in Task
    BY <1>0, <1>2, <1>3, <1>5, <1>6, Zenon DEF TypeOK
  <2>2. task' \in [Tasks -> Task]
    BY <1>1, <2>1
  <2>3. lock' \in BOOLEAN
    BY <1>1
  <2> QED BY <1>0, <1>1, <2>2, <2>3 DEF TypeOK
<1>8. Running' = Running \cup {t} /\ t \notin Running
  <2>1. ~Over(s)
    BY <1>2 DEF Over
  <2>2. \A u \in Running : u \in Running'
    BY <1>4, <1>6, Zenon DEF Running, Over
  <2>3. \A u \in Tasks : u # t /\ u \notin Running => u \notin Running'
    BY <1>5 DEF Running
  <2>4. t \in Running' /\ t \notin Running
    BY <1>3, <1>4, <2>1, Zenon DEF Running
  <2> QED BY <2>2, <2>3, <2>4 DEF Running
<1>9. ASSUME NEW u \in Tasks PROVE TaskInv(u)'
  <2>0. TaskInv(u) /\ Here' = Here
    BY <1>1 DEF DeviceInv, Here
  <2>1. CASE u = t
    <3>1. Belongs(s)
      <4>1. CASE b = "restart"
        <5>1. s.todo \in Seq(Targets(s.op))
          BY <1>2
        <5> QED BY <1>2, <4>1, <5>1 DEF Belongs, Ops, Mounting, Toggling
      <4>2. CASE b # "restart"
        BY <1>2, <4>2 DEF Belongs, Steps, Buttons, LockTargets
      <4> QED BY <4>1, <4>2
    <3>2. ~s.disturbed => Running' = {t}
      BY <1>2, <1>8, Zenon
    <3>3. Sane(s, Here, active)
      BY <1>2 DEF Sane, Steps
    <3>4. s.at \in {"CONNECT", "PROBE"} /\ s.at \notin Steps \ {"CONNECT"}
      BY <1>2 DEF Steps
    <3> QED BY <1>1, <1>3, <2>0, <2>1, <3>1, <3>2, <3>3, <3>4 DEF TaskInv
  <2>2. CASE u \in Running
    <3>1. /\ task'[u].disturbed = TRUE /\ task'[u].at = task[u].at /\ Belongs(task'[u])
      BY <1>6, <2>2, Zenon
    <3> QED BY <1>1, <2>0, <3>1 DEF TaskInv
  <2>3. CASE u # t /\ u \notin Running
    <3>1. task'[u] = task[u] /\ u \notin Running' /\ task[u].at \notin {"CLEANUP"}
      BY <1>5, <1>8, <2>3 DEF Running, Over
    <3> QED BY <1>1, <2>0, <3>1 DEF TaskInv
  <2> QED BY <2>1, <2>2, <2>3
<1>10. LockInv'
  <2> SUFFICES ASSUME router = 0 PROVE LockInv'
    BY <1>1, Zenon DEF LockInv
  <2>1. /\ \A u \in Tasks : task[u].router = 0
        /\ \A u \in Running : task[u].button \in LockTargets =>
             /\ lock = TRUE
             /\ \A v \in Running : task[v].button \in LockTargets => v = u
    BY DEF DeviceInv, LockInv
  <2>2. \A u \in Tasks : task'[u].router = 0
    BY <1>2, <1>3, <1>5, <1>6, <2>1, Zenon
  <2>3. ASSUME NEW u \in Running', task'[u].button \in LockTargets
        PROVE  lock' = TRUE /\ \A v \in Running' : task'[v].button \in LockTargets => v = u
    <3>1. CASE b \in LockTargets
      <4>1. lock' = TRUE /\ ~lock
        BY <1>1, <3>1, Zenon
      <4>2. \A v \in Running : task[v].button \notin LockTargets
        BY <2>1, <4>1
      <4>3. \A v \in Running' : task'[v].button \in LockTargets => v = t
        BY <1>6, <1>8, <4>2, Zenon
      <4> QED BY <2>3, <4>1, <4>3
    <3>2. CASE b \notin LockTargets
      <4>1. s.button \notin LockTargets
        BY <1>2, <3>2
      <4>2. \A v \in Running' : task'[v].button \in LockTargets => v \in Running /\ task[v].button \in LockTargets
        BY <1>3, <1>6, <1>8, <4>1, Zenon
      <4>3. lock = TRUE
        BY <2>1, <2>3, <4>2
      <4>4. lock' = TRUE
        BY <1>1, <4>3, Zenon
      <4> QED BY <2>1, <2>3, <4>2, <4>4
    <3> QED BY <3>1, <3>2, Zenon
  <2> QED BY <2>2, <2>3, Zenon DEF LockInv
<1>11. CopyInv'
  <2> SUFFICES ASSUME router = 0, NEW u \in Tasks, task'[u].at \in UpToReplace
               PROVE  Copies(task'[u], dev)
    BY <1>1 DEF CopyInv
  <2>1. CopyInv
    BY DEF DeviceInv
  <2>2. CASE u = t
    BY <1>2, <1>3, <2>2 DEF Copies
  <2>3. CASE u \in Running
    BY <1>6, <2>1, <2>3, Zenon DEF CopyInv
  <2>4. CASE u # t /\ u \notin Running
    BY <1>5, <2>1, <2>4 DEF CopyInv
  <2> QED BY <2>2, <2>3, <2>4
<1> QED BY <1>7, <1>9, <1>10, <1>11 DEF DeviceInv

LEMMA SetActiveKeeps ==
  ASSUME DeviceInv, NEW d \in Devices, SetActive(d)
  PROVE  DeviceInv'
<1>0. TypeOK
  BY DEF DeviceInv
<1>1. /\ upsets' = upsets + 1 /\ active' = d /\ UNCHANGED <<dev, lock, router, faults>>
      /\ task' = [t \in Tasks |-> IF t \in Running THEN [task[t] EXCEPT !.disturbed = TRUE] ELSE task[t]]
  BY DEF SetActive, Disturb
<1>2. ASSUME NEW u \in Tasks, u \notin Running PROVE task'[u] = task[u]
  BY <1>1, <1>2
<1>3. ASSUME NEW u \in Running
      PROVE  /\ task'[u] \in Task /\ task'[u].disturbed = TRUE /\ task'[u].at = task[u].at
             /\ task'[u].button = task[u].button /\ task'[u].router = task[u].router
             /\ Belongs(task'[u])
             /\ Copies(task[u], dev) => Copies(task'[u], dev)
  <2>1. u \in Tasks /\ task[u] \in Task /\ Belongs(task[u])
    BY <1>0, <1>3 DEF TypeOK, DeviceInv, TaskInv, Running
  <2>2. task'[u] = [task[u] EXCEPT !.disturbed = TRUE]
    BY <1>1, <1>3, <2>1
  <2> QED BY <2>1, <2>2, DisturbedFields, Zenon
<1>4. TypeOK'
  <2>1. \A u \in Tasks : task'[u] \in Task
    BY <1>0, <1>2, <1>3, Zenon DEF TypeOK
  <2>2. task' \in [Tasks -> Task]
    BY <1>1, <2>1
  <2>3. upsets' \in Nat
    BY <1>0, <1>1 DEF TypeOK
  <2> QED BY <1>0, <1>1, <2>2, <2>3 DEF TypeOK
<1>5. Running' = Running
  BY <1>2, <1>3, Zenon DEF Running, Over
<1>6. ASSUME NEW u \in Tasks PROVE TaskInv(u)'
  <2>0. TaskInv(u)
    BY DEF DeviceInv
  <2>1. CASE u \in Running
    <3>1. /\ task'[u].disturbed = TRUE /\ Belongs(task'[u])
      BY <1>3, <2>1, Zenon
    <3> QED BY <1>1, <3>1 DEF TaskInv
  <2>2. CASE u \notin Running
    <3>1. task'[u] = task[u] /\ u \notin Running' /\ task[u].at \notin {"CLEANUP"}
      BY <1>2, <1>5, <2>2 DEF Running, Over
    <3> QED BY <1>1, <2>0, <3>1 DEF TaskInv
  <2> QED BY <2>1, <2>2
<1>7. LockInv'
  <2>1. LockInv /\ \A u \in Tasks : task'[u].router = task[u].router /\ task'[u].button = task[u].button
    BY <1>2, <1>3, Zenon DEF DeviceInv
  <2> QED BY <1>1, <1>5, <2>1 DEF LockInv, Running
<1>8. CopyInv'
  <2> SUFFICES ASSUME router = 0, NEW u \in Tasks, task'[u].at \in UpToReplace
               PROVE  Copies(task'[u], dev)
    BY <1>1 DEF CopyInv
  <2>1. CopyInv
    BY DEF DeviceInv
  <2>2. CASE u \in Running
    BY <1>3, <2>1, <2>2, Zenon DEF CopyInv
  <2>3. CASE u \notin Running
    BY <1>2, <2>1, <2>3, Zenon DEF CopyInv
  <2> QED BY <2>2, <2>3
<1> QED BY <1>4, <1>6, <1>7, <1>8 DEF DeviceInv

LEMMA ViewKeeps ==
  ASSUME DeviceInv, ResolveView
  PROVE  DeviceInv'
<1>1. /\ upsets' = upsets + 1 /\ router' = router + 1 /\ lock' = FALSE
      /\ UNCHANGED <<dev, active, task, faults>>
  BY DEF ResolveView
<1>2. TypeOK' /\ router' # 0
  <2>1. TypeOK
    BY DEF DeviceInv
  <2>2. upsets' \in Nat /\ router' \in Nat /\ router' # 0
    BY <1>1, <2>1 DEF TypeOK
  <2>3. lock' \in BOOLEAN
    BY <1>1, Zenon
  <2> QED BY <1>1, <2>1, <2>2, <2>3 DEF TypeOK
<1>3. \A t \in Tasks : TaskInv(t)'
  BY <1>1, ZenonT(30) DEF DeviceInv, TaskInv, Running, Here
<1> QED BY <1>2, <1>3 DEF DeviceInv, LockInv, CopyInv

LEMMA StillKeeps ==
  ASSUME DeviceInv, UNCHANGED vars
  PROVE  DeviceInv'
BY DEF DeviceInv, vars, TypeOK, TaskInv, Running, Here, LockInv, CopyInv

LEMMA DeviceNext == DeviceInv /\ [Next]_vars => DeviceInv'
<1> SUFFICES ASSUME DeviceInv, [Next]_vars PROVE DeviceInv'
  OBVIOUS
<1>1. ASSUME NEW t \in Tasks, CommandStep(t) PROVE DeviceInv'
  <2>1. task[t].at \in Steps \ {"CONNECT"}
    BY <1>1, CommandFits, Zenon
  <2>2. PICK o \in Outcomes : \E D, r :
          Run(t, o, D, r) /\ Fits(task[t], o, Here, D, r, active)
    BY <1>1, CommandFits
  <2>3. PICK D, r : Run(t, o, D, r) /\ Fits(task[t], o, Here, D, r, active)
    BY <2>2
  <2> QED BY <2>1, <2>3, RunKeeps, ZenonT(30)
<1>2. ASSUME NEW t \in Tasks, TaskStep(t) PROVE DeviceInv'
  BY <1>1, <1>2, ProbeKeeps, ConnectKeeps DEF TaskStep, CommandStep
<1> QED BY <1>2, DispatchKeeps, SetActiveKeeps, ViewKeeps, StillKeeps DEF Next

LEMMA DeviceInit == Init => DeviceInv
<1> SUFFICES ASSUME Init PROVE DeviceInv
  OBVIOUS
<1>1. Idle \in Task /\ Idle.at = "idle" /\ Idle.router = 0
  <2> DEFINE e == <<>>
  <2>1. e \in Seq(Lines) /\ 1 \in Nat /\ 0 \in Nat
    OBVIOUS
  <2>2. Idle = [button |-> "none", op |-> "none", at |-> "idle", iter |-> 1,
                work |-> NoFile, on |-> NoDevice, todo |-> e, before |-> NoFile,
                backup |-> NoFile, faults |-> 0, disturbed |-> FALSE, router |-> 0]
    BY DEF Idle
  <2> HIDE DEF e
  <2> QED BY <2>1, <2>2 DEF Task
<1>2. task = [t \in Tasks |-> Idle] /\ router = 0 /\ lock = FALSE /\ faults = 0 /\ upsets = 0
      /\ active \in Devices \cup {NoDevice}
  BY DEF Init
<1>3. dev \in [Devices -> Device]
  <2>1. PICK f \in [Lines -> 0 .. 1] :
          dev = [d \in Devices |->
                   [file |-> f, loaded |-> f, runs |-> f, up |-> TRUE,
                    vols |-> {v \in Volumes : Contains(f, v)}, rw |-> FALSE]]
    BY Zenon DEF Init
  <2> DEFINE vs == {v \in Volumes : Contains(f, v)}
  <2>2. f \in File /\ vs \in SUBSET Volumes
    BY DEF File, MaxCopies
  <2>3. dev = [d \in Devices |->
                 [file |-> f, loaded |-> f, runs |-> f, up |-> TRUE, vols |-> vs, rw |-> FALSE]]
    BY <2>1
  <2> HIDE DEF vs
  <2> QED BY <2>2, <2>3 DEF Device
<1>4. TypeOK
  <2>1. task \in [Tasks -> Task]
    BY <1>1, <1>2
  <2> QED BY <1>2, <1>3, <2>1, Zenon DEF TypeOK
<1>5. \A t \in Tasks : task[t] = Idle
  BY <1>2
<1>6. Running = {}
  BY <1>1, <1>5, Zenon DEF Running, Over
<1>7. \A t \in Tasks : TaskInv(t)
  BY <1>1, <1>5, <1>6, Zenon DEF TaskInv, Belongs, Steps
<1>8. LockInv /\ CopyInv
  BY <1>1, <1>5, <1>6 DEF LockInv, CopyInv, UpToReplace
<1> QED BY <1>4, <1>7, <1>8 DEF DeviceInv

LEMMA DeviceInvariant == Spec => []DeviceInv
BY DeviceInit, DeviceNext, PTL DEF Spec

(* The devices, the tasks and the lock keep their types. *)
THEOREM DeviceTypeCorrect == Spec => []TypeOK
<1>1. DeviceInv => TypeOK
  BY Zenon DEF DeviceInv
<1> QED BY <1>1, DeviceInvariant, PTL

(* A task of HomeyController fails only when a command of its own went     *)
(* wrong, another task or connection came in between, or no device was     *)
(* connected, whatever the tasks before it left behind on the device.      *)
THEOREM FailuresHaveCauses == Spec => []FailureHasCause
<1>1. DeviceInv => FailureHasCause
  BY Zenon DEF DeviceInv, TaskInv, FailureHasCause
<1> QED BY <1>1, DeviceInvariant, PTL

(* A step that moves a task on is a step of that task. *)
LEMMA OwnStep ==
  ASSUME DeviceInv, [Next]_vars, NEW t \in Tasks, task[t].at \in Steps, task'[t].at # task[t].at
  PROVE  TaskStep(t)
<1>0. TypeOK
  BY DEF DeviceInv
<1>1. ASSUME NEW u \in Tasks, CommandStep(u), u # t PROVE FALSE
  <2>1. PICK o \in Outcomes : \E D, r :
          Run(u, o, D, r) /\ Fits(task[u], o, Here, D, r, active)
    BY <1>1, CommandFits
  <2>2. PICK D, r : Run(u, o, D, r)
    BY <2>1
  <2>3. task'[t] = task[t]
    BY <1>0, <1>1, <2>2 DEF Run, TypeOK
  <2> QED BY <2>3
<1>2. ASSUME NEW u \in Tasks, Probe(u) \/ EnsureConnected(u), u # t PROVE FALSE
  <2>1. task'[t] = task[t]
    BY <1>0, <1>2, Zenon DEF Probe, EnsureConnected, TypeOK
  <2> QED BY <2>1
<1>3. ASSUME NEW u \in Tasks, NEW b \in Buttons, Dispatch(u, b) PROVE FALSE
  <2>1. u # t
    <3>1. task[u] = Idle
      BY <1>3, Zenon DEF Dispatch, Start
    <3>2. Idle.at \notin Steps
      BY DEF Idle, Steps
    <3> QED BY <3>1, <3>2
  <2>2. task'[t] = IF t \in Running THEN [task[t] EXCEPT !.disturbed = TRUE] ELSE task[t]
    BY <1>3, <2>1, Zenon DEF Dispatch, Start
  <2>3. task[t] \in Task
    BY <1>0 DEF TypeOK
  <2>4. task'[t].at = task[t].at
    BY <2>2, <2>3 DEF Task
  <2> QED BY <2>4
<1>4. ASSUME NEW d \in Devices, SetActive(d) PROVE FALSE
  <2>1. task'[t] = IF t \in Running THEN [task[t] EXCEPT !.disturbed = TRUE] ELSE task[t]
    BY <1>4 DEF SetActive, Disturb
  <2>2. task[t] \in Task
    BY <1>0 DEF TypeOK
  <2>3. task'[t].at = task[t].at
    BY <2>1, <2>2 DEF Task
  <2> QED BY <2>3
<1>5. ASSUME ResolveView \/ UNCHANGED vars PROVE FALSE
  BY <1>5 DEF ResolveView, vars
<1>6. PICK u \in Tasks : TaskStep(u)
  BY <1>3, <1>4, <1>5 DEF Next
<1>7. CommandStep(u) \/ Probe(u) \/ EnsureConnected(u)
  BY <1>6, Zenon DEF TaskStep, CommandStep
<1> QED BY <1>1, <1>2, <1>6, <1>7, Zenon

(* What the router reports as done is done: after a task that nothing      *)
(* disturbed, and in which at most one command went wrong, the service     *)
(* file is as the button asked; when none did, the service runs from it    *)
(* and the next click reads the state that was set.                        *)
THEOREM DoneIsDone == Spec => DoneMeansDone
<1>1. ASSUME DeviceInv, [Next]_vars, NEW t \in Tasks,
             task[t].at = "CLEANUP", task'[t].at = "ok", ~task'[t].disturbed
      PROVE  LET D == dev'[active']
                 op == task[t].op
             IN  /\ task'[t].faults <= 1 => Wants(op, D.file)
                 /\ task'[t].faults = 0 =>
                      /\ D.runs = D.file /\ D.up
                      /\ op \in {"mount", "unmount"} => (Mounted(D) <=> op = "mount")
                      /\ op \in {"enable", "disable"} => (ToggleOn(D) <=> op = "enable")
  <2> DEFINE q == task[t]
  <2>0. /\ Found(q, Here, active) /\ t \in Running /\ TaskInv(t) /\ q \in Task /\ Belongs(q)
        /\ q.at \in Steps /\ q.faults \in Nat /\ q.op # "restart" /\ q.op \in Ops
    BY <1>1, TaskFound, ZenonT(30) DEF DeviceInv, Found, Steps, Task, Belongs
  <2>1. Cleanup(t)
    BY <1>1, <2>0, OwnStep, Zenon
       DEF TaskStep, ResolveUnit, ReadServiceFile, HashBefore, Backup, Insert, DeleteLinesStep,
           Remount, Replace, WaitForChange, StopContainers, RemoveVolumes, DaemonReload,
           RestartService, PostVerify, Probe, EnsureConnected, At
  <2>2. PICK o \in Outcomes : Run(t, o, Here, OrThrow(o, q))
    BY <2>1 DEF Cleanup
  <2> DEFINE r == OrThrow(o, q)
             s0 == [r EXCEPT !.faults = @ + Cost(o)]
  <2>3. Cost(o) \in {0, 1}
    BY CostType
  <2>4. r \in Task /\ Belongs(r) /\ Same(r, q) /\ r.at \in Steps \cup {"ok", "failed"}
    <3>1. Fits(q, o, Here, Here, r, active)
      BY <1>1, <2>0, FitsCleanup, Zenon
    <3> HIDE DEF r
    <3> QED BY <3>1, ZenonT(30) DEF Fits
  <2>5. task' = [task EXCEPT ![t] = Settled(s0)] /\ dev' = [dev EXCEPT ![active] = Here] /\ active' = active
    BY <2>2 DEF Run
  <2>6. s0 = [r EXCEPT !.faults = @ + Cost(o)]
    OBVIOUS
  <2> HIDE DEF r, s0
  <2>7. Settled(s0).disturbed = q.disturbed /\ Settled(s0).faults = q.faults + Cost(o)
    BY <2>3, <2>4, <2>6, SettledFields DEF Same
  <2>8. task'[t] = Settled(s0) /\ dev'[active'] = Here
    BY <1>1, <2>0, <2>5 DEF DeviceInv, TypeOK, Found, Here
  <2>9. task'[t].faults <= 1 => q.faults <= 1
    BY <2>0, <2>3, <2>7, <2>8
  <2>10. task'[t].faults = 0 => q.faults = 0
    BY <2>0, <2>3, <2>7, <2>8
  <2>11. ~q.disturbed
    BY <1>1, <2>7, <2>8
  <2>12. q.faults <= 1 => Wants(q.op, Here.file)
    BY <1>1, <2>0, <2>11, ZenonT(30) DEF TaskInv
  <2>13. ASSUME q.faults = 0
         PROVE  /\ Here.runs = Here.file /\ Here.up
                /\ q.op \in {"mount", "unmount"} => (Mounted(Here) <=> q.op = "mount")
                /\ q.op \in {"enable", "disable"} => (ToggleOn(Here) <=> q.op = "enable")
    <3>1. SaneDevice(q, Here)
      BY <1>1, <2>0, <2>11, <2>13, ZenonT(30) DEF TaskInv, Sane, Replaced
    <3>2. /\ Here.runs = Here.file /\ Here.up /\ Wants(q.op, Here.file)
          /\ q.op = "mount" => Here.vols # {}
          /\ q.op = "unmount" => Here.vols = {}
      BY <1>1, <3>1, Zenon DEF SaneDevice
    <3>3. q.op \in {"enable", "disable"} => (ToggleOn(Here) <=> q.op = "enable")
      BY <3>2, Zenon DEF Wants, Targets, ToggleOn
    <3> QED BY <3>2, <3>3, ZenonT(30) DEF Mounted
  <2> QED BY <2>8, <2>9, <2>10, <2>12, <2>13
<1>2. DeviceInv /\ [Next]_vars =>
        [\A t \in Tasks :
           task[t].at = "CLEANUP" /\ task'[t].at = "ok" /\ ~task'[t].disturbed =>
             LET D == dev'[active']
                 op == task[t].op
             IN /\ task'[t].faults <= 1 => Wants(op, D.file)
                /\ task'[t].faults = 0 =>
                     /\ D.runs = D.file /\ D.up
                     /\ op \in {"mount", "unmount"} => (Mounted(D) <=> op = "mount")
                     /\ op \in {"enable", "disable"} => (ToggleOn(D) <=> op = "enable")]_vars
  BY <1>1
<1> QED BY <1>2, DeviceInvariant, PTL DEF Spec, DoneMeansDone

(* With one router, whatever is clicked, connected or failing: the task    *)
(* that replaces the service file (ServiceFilePatcher) changes only the    *)
(* lines of its own button, and what it replaces is what it backed up on   *)
(* that device.                                                            *)
THEOREM ReplacementsKeepOthers == Spec => ReplaceKeepsOthers
<1>1. ASSUME DeviceInv, [Next]_vars, NEW t \in Tasks, NEW d \in Devices,
             task[t].at = "REPLACE", task'[t].at # "REPLACE", router = 0,
             dev'[d].file # dev[d].file
      PROVE  /\ \A l \in Lines \ Targets(task[t].op) : dev'[d].file[l] = dev[d].file[l]
             /\ task[t].backup # NoFile /\ task[t].backup.on = d => task[t].backup.file = dev[d].file
  <2> DEFINE q == task[t]
  <2>0. TypeOK /\ Copies(q, dev) /\ q.at \in Steps /\ Found(q, Here, active)
    BY <1>1, TaskFound, Zenon DEF DeviceInv, CopyInv, UpToReplace, Steps
  <2>1. Replace(t)
    BY <1>1, <2>0, OwnStep, Zenon
       DEF TaskStep, ResolveUnit, ReadServiceFile, HashBefore, Backup, Insert, DeleteLinesStep,
           Remount, Cleanup, WaitForChange, StopContainers, RemoveVolumes, DaemonReload,
           RestartService, PostVerify, Probe, EnsureConnected, At
  <2>2. PICK o \in Outcomes, again \in BOOLEAN :
          dev' = [dev EXCEPT ![active] =
                    IF WorkHere(q) /\ Here.rw /\ (o.done \/ (again /\ ~o.answered))
                    THEN [Here EXCEPT !.file = q.work] ELSE Here]
    BY <2>1, Zenon DEF Replace, Run
  <2>3. CASE WorkHere(q) /\ Here.rw /\ (o.done \/ (again /\ ~o.answered))
    <3>1. dev' = [dev EXCEPT ![active] = [Here EXCEPT !.file = q.work]]
      BY <2>2, <2>3, ZenonT(40)
    <3>2. Here \in Device /\ active \in Devices
      BY <2>0 DEF Found
    <3>3. d = active /\ dev'[d].file = q.work
      BY <1>1, <2>0, <3>1, <3>2 DEF TypeOK, Device
    <3>4. q.work # NoFile /\ q.on = d
      BY <2>3, <3>3 DEF WorkHere
    <3> QED BY <2>0, <3>3, <3>4 DEF Copies
  <2>4. CASE ~(WorkHere(q) /\ Here.rw /\ (o.done \/ (again /\ ~o.answered)))
    <3>1. dev' = [dev EXCEPT ![active] = dev[active]]
      BY <2>2, <2>4, Zenon DEF Here
    <3>2. dev' = dev
      BY <2>0, <3>1 DEF TypeOK
    <3> QED BY <1>1, <3>2
  <2> QED BY <2>3, <2>4
<1>2. DeviceInv /\ [Next]_vars =>
        [\A t \in Tasks, d \in Devices :
           /\ task[t].at = "REPLACE" /\ task'[t].at # "REPLACE"
           /\ router = 0 /\ dev'[d].file # dev[d].file
           => /\ \A l \in Lines \ Targets(task[t].op) : dev'[d].file[l] = dev[d].file[l]
              /\ task[t].backup # NoFile /\ task[t].backup.on = d
                 => task[t].backup.file = dev[d].file]_vars
  BY <1>1
<1> QED BY <1>2, DeviceInvariant, PTL DEF Spec, ReplaceKeepsOthers

=============================================================================
