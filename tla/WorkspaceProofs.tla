--------------------------- MODULE WorkspaceProofs ---------------------------
(***************************************************************************)
(* Proofs about the files of the workspace, for any folders, any number of *)
(* connections and any number of operations and failures.                  *)
(***************************************************************************)
EXTENDS Workspace, FiniteSetTheorems, TLAPS

USE SMTT(30), Zenon   \* of every step that names no prover: SMT with 30 s, then Zenon

Content == {"none", "template", "custom"}
Entry == [id : Ids, used : Nat]
ConfigFile == [ws : Folders, panel : {0, 1}, prefs : {0, 1}]
Folder == [exists : BOOLEAN, parser : Content, user : Content, raw : BOOLEAN]

(* A list as the dialog leaves it: most recent first, one entry a device.  *)
Ordered(l) ==
  /\ l \in Seq(Entry)
  /\ \A i, j \in DOMAIN l : i < j => l[i].used > l[j].used /\ l[i].id # l[j].id

Sane(c) ==
  /\ c = [list |-> c.list, recent |-> c.recent]
  /\ Ordered(c.list) /\ Len(c.list) <= MaxConnections
  /\ c.recent \in Ids \cup {None}
  /\ c.recent # None => c.list # <<>> /\ c.list[1].id = c.recent

IsProc(r) ==
  /\ r = [at |-> r.at, ws |-> r.ws, to |-> r.to, copy |-> r.copy, seen |-> r.seen,
          old |-> r.old, dirty |-> r.dirty, fresh |-> r.fresh, own |-> r.own]
  /\ r.seen \in BOOLEAN /\ r.old \in BOOLEAN /\ r.dirty \in BOOLEAN /\ r.own \in BOOLEAN

Writers == Saves \cup {"change"}

(* The steps each operation goes through, and what it holds at them. *)
StepsOf(p) ==
  CASE p = "activate" -> {"raw", "parser", "user"}
    [] p = "change" -> {"read", "write", "next", "userStat", "userCopy", "parserStat",
                        "copy", "remove"}
    [] p = "init" -> {"user"}
    [] p = "scaffold" -> {"fill"}
    [] p = "connect" -> {"pick", "save"}
    [] p = "recent" -> {"set"}
    [] OTHER -> {"read", "write"}

Holds(p, r) ==
  /\ IsProc(r) /\ r.at \in {"idle"} \cup StepsOf(p)
  /\ p \in {"change", "scaffold", "connect"} /\ r.at # "idle" => r.ws \in Folders
  /\ p = "change" /\ r.at # "idle" => r.to \in Folders
  /\ p = "connect" /\ r.at # "idle" => Sane(r.copy)
  /\ p \in Writers /\ r.at = "write" => r.copy \in ConfigFile

FilesOK ==
  /\ config \in ConfigFile
  /\ dir \in [Folders -> Folder]
  /\ cache \in Folders \cup {None}
  /\ ops \in Nat /\ faults \in Nat

ProcsOK == proc = [p \in Procs |-> proc[p]] /\ \A p \in Procs : Holds(p, proc[p])

ConnOK == conn = [f \in Folders |-> conn[f]] /\ \A f \in Folders : conn[f] = Broken \/ Sane(conn[f])

(* The copy of config.json that a writer holds is the file, until another  *)
(* one writes it.                                                          *)
CopiesOK ==
  \A p \in Writers : proc[p].at = "write" /\ ~proc[p].dirty => proc[p].copy = config

(* A change of workspace takes the service configuration along before it   *)
(* removes the old folder.                                                 *)
ChangeOK ==
  LET r == proc["change"]
  IN  /\ \A f \in Folders : dir[f].user # "none" => dir[f].exists
      /\ r.at \in {"copy", "remove"} => dir[r.to].exists
      /\ r.at = "userCopy" => ~r.own /\ dir[r.to].user # "custom"
      /\ faults = 0 /\ r.at \in {"parserStat", "copy", "remove"} =>
           /\ dir[r.to].user # "none"
           /\ r.at # "parserStat" => r.seen
           /\ ~r.own /\ dir[r.ws].user = "custom" => dir[r.to].user = "custom"

WorkspaceInv == FilesOK /\ ProcsOK /\ ConnOK /\ CopiesOK /\ ChangeOK

-----------------------------------------------------------------------------
(* The lists of connections. *)

LEMMA LatestIsLast ==
  ASSUME NEW l, Ordered(l)
  PROVE  Latest(l) \in Nat /\ \A i \in DOMAIN l : l[i].used <= Latest(l)
<1> DEFINE S == {0} \cup {l[i].used : i \in DOMAIN l}
<1>1. \A i \in DOMAIN l : l[i].used \in Nat
  <2>1. \A i \in DOMAIN l : l[i] \in Entry
    BY DEF Ordered
  <2> QED BY <2>1 DEF Entry
<1>2. \E n \in S : \A i \in DOMAIN l : n >= l[i].used
  <2>1. CASE l = <<>>
    BY <2>1
  <2>2. CASE l # <<>>
    <3>1. 1 \in DOMAIN l /\ \A i \in DOMAIN l : i # 1 => 1 < i
      BY <2>2 DEF Ordered
    <3>2. \A i \in DOMAIN l : l[1].used >= l[i].used
      BY <1>1, <3>1 DEF Ordered
    <3> QED BY <3>1, <3>2, Zenon
  <2> QED BY <2>1, <2>2
<1>3. Latest(l) \in S /\ \A i \in DOMAIN l : Latest(l) >= l[i].used
  <2> HIDE DEF S
  <2> QED BY <1>2 DEF Latest, S
<1>4. Latest(l) \in Nat
  BY <1>1, <1>3
<1> QED BY <1>1, <1>3, <1>4

(* A list of different devices used at different times, which some order   *)
(* sorts: the sort finds an order, and it is a permutation.                *)
LEMMA SortSorts ==
  ASSUME NEW l \in Seq(Entry),
         \A i, j \in DOMAIN l : i # j => l[i].id # l[j].id /\ l[i].used # l[j].used,
         NEW q \in [DOMAIN l -> DOMAIN l],
         \A i, j \in DOMAIN l : i < j => l[q[i]].used > l[q[j]].used
  PROVE  /\ Ordered(ByRecency(l))
         /\ Len(ByRecency(l)) = Len(l)
         /\ DOMAIN ByRecency(l) = DOMAIN l
         /\ \A k \in DOMAIN l : \E i \in DOMAIN l : ByRecency(l)[i] = l[k]
         /\ \A i \in DOMAIN l : \E k \in DOMAIN l : ByRecency(l)[i] = l[k]
<1> DEFINE D == DOMAIN l
           Before(i, j) == \/ l[i].used > l[j].used
                           \/ l[i].used = l[j].used /\ i < j
           Sorts(p) == \A i, j \in D : i < j => Before(p[i], p[j])
           order == CHOOSE p \in [D -> D] : Sorts(p)
<1>1. D = 1..Len(l) /\ Len(l) \in Nat /\ \A i \in D : l[i] \in Entry
  OBVIOUS
<1>2. order \in [D -> D] /\ Sorts(order)
  <2>1. Sorts(q)
    OBVIOUS
  <2> HIDE DEF Sorts
  <2> QED BY <2>1
<1>3. ByRecency(l) = [i \in D |-> l[order[i]]]
  BY DEF ByRecency
<1> HIDE DEF order
<1>4. ASSUME NEW i \in D, NEW j \in D, i < j
      PROVE  order[i] # order[j] /\ l[order[i]].used > l[order[j]].used
  <2>1. order[i] \in D /\ order[j] \in D /\ Before(order[i], order[j])
    BY <1>2, <1>4
  <2>2. order[i] # order[j]
    BY <1>1, <2>1 DEF Entry
  <2> QED BY <2>1, <2>2
<1>5. order \in Surjection(D, D)
  <2>1. order \in Injection(D, D)
    <3>1. ASSUME NEW i \in D, NEW j \in D, order[i] = order[j] PROVE i = j
      <4>1. i < j \/ j < i \/ i = j
        BY <1>1
      <4> QED BY <1>4, <3>1, <4>1
    <3> QED BY <1>2, <3>1 DEF Injection, IsInjective
  <2>2. IsFiniteSet(D)
    <3>1. Len(l) \in Int /\ 1 \in Int
      BY <1>1
    <3>2. IsFiniteSet(1..Len(l))
      BY <3>1, FS_Interval
    <3> QED BY <1>1, <3>2
  <2> HIDE DEF D
  <2> QED BY <2>1, <2>2, FS_Injection
<1>6. \A k \in D : \E i \in D : order[i] = k
  BY <1>5 DEF Surjection
<1>7. ByRecency(l) \in Seq(Entry) /\ Len(ByRecency(l)) = Len(l) /\ DOMAIN ByRecency(l) = D
  BY <1>1, <1>2, <1>3
<1>8. Ordered(ByRecency(l))
  <2>1. ASSUME NEW i \in D, NEW j \in D, i < j
        PROVE  l[order[i]].used > l[order[j]].used /\ l[order[i]].id # l[order[j]].id
    BY <1>2, <1>4, <2>1
  <2> QED BY <1>3, <1>7, <2>1 DEF Ordered
<1>9. \A i \in D : order[i] \in D /\ ByRecency(l)[i] = l[order[i]]
  BY <1>2, <1>3
<1>10. \A k \in D : \E i \in D : ByRecency(l)[i] = l[k]
  <2> TAKE k \in D
  <2>1. PICK i \in D : order[i] = k
    BY <1>6
  <2> QED BY <1>9, <2>1, Zenon
<1>11. \A i \in D : \E k \in D : ByRecency(l)[i] = l[k]
  BY <1>9, Zenon
<1> QED BY <1>7, <1>8, <1>10, <1>11

(* The entry used last comes first. *)
LEMMA LatestIsFirst ==
  ASSUME NEW s, Ordered(s), NEW e \in Entry,
         \E i \in DOMAIN s : s[i] = e, \A i \in DOMAIN s : s[i].used <= e.used
  PROVE  s # <<>> /\ s[1] = e
<1>1. PICK m \in DOMAIN s : s[m] = e
  OBVIOUS
<1>2. DOMAIN s = 1..Len(s) /\ Len(s) \in Nat /\ \A i \in DOMAIN s : s[i] \in Entry
  BY DEF Ordered
<1>3. 1 \in DOMAIN s /\ s # <<>>
  BY <1>1, <1>2
<1>4. ASSUME m # 1 PROVE FALSE
  <2>1. 1 < m
    BY <1>2, <1>4
  <2>2. s[1].used > s[m].used
    BY <1>1, <1>3, <2>1 DEF Ordered
  <2>3. s[1].used \in Nat /\ e.used \in Nat
    BY <1>2, <1>3 DEF Entry
  <2> QED BY <1>1, <1>3, <2>2, <2>3
<1> QED BY <1>1, <1>3, <1>4

LEMMA TouchMoves ==
  ASSUME NEW l, Ordered(l), NEW id \in Ids, Has(l, id)
  PROVE  LET s == ByRecency(Touch(l, id))
         IN  Ordered(s) /\ Len(s) = Len(l) /\ s # <<>> /\ s[1].id = id
<1> DEFINE D == DOMAIN l
           now == Latest(l) + 1
           Is(k) == l[k].id = id /\ \A j \in D : l[j].id = id => k <= j
           e == [id |-> id, used |-> now]
<1>1. D = 1..Len(l) /\ Len(l) \in Nat /\ \A i \in D : l[i] \in Entry
  BY DEF Ordered
<1>2. now \in Nat /\ e \in Entry /\ \A i \in D : l[i].used < now
  <2>1. \A i \in D : l[i].used \in Nat
    BY <1>1 DEF Entry
  <2> QED BY <2>1, LatestIsLast DEF Entry
<1>3. \A i, j \in D : i # j => l[i].id # l[j].id /\ l[i].used # l[j].used
  <2> SUFFICES ASSUME NEW i \in D, NEW j \in D, i < j
               PROVE  l[i].id # l[j].id /\ l[i].used # l[j].used
    BY <1>1
  <2>1. l[i].used > l[j].used /\ l[i].id # l[j].id
    BY DEF Ordered
  <2>2. l[i].used \in Nat /\ l[j].used \in Nat
    BY <1>1 DEF Entry
  <2> QED BY <2>1, <2>2
<1>4. PICK k \in D : l[k].id = id
  BY DEF Has
<1>5. Is(k) /\ \A i \in D : Is(i) => i = k
  BY <1>1, <1>3, <1>4
<1>6. (CHOOSE i \in D : Is(i)) = k
  <2> HIDE DEF Is
  <2> QED BY <1>5
<1> DEFINE t == [i \in D |-> IF i = k THEN e ELSE l[i]]
<1>7. Touch(l, id) = t
  <2>1. Touch(l, id) = [l EXCEPT ![k].used = now]
    BY <1>6, Zenon DEF Touch
  <2>2. l[k] = [id |-> id, used |-> l[k].used]
    BY <1>1, <1>4 DEF Entry
  <2>3. [l[k] EXCEPT !.used = now] = e
    BY <2>2
  <2> QED BY <1>1, <2>1, <2>3, Zenon
<1>8. t \in Seq(Entry) /\ Len(t) = Len(l) /\ DOMAIN t = D
  BY <1>1, <1>2
<1>9. \A i \in D : t[i] = IF i = k THEN e ELSE l[i]
  OBVIOUS
<1> HIDE DEF t
<1>10. \A i, j \in D : i # j => t[i].id # t[j].id /\ t[i].used # t[j].used
  <2> SUFFICES ASSUME NEW i \in D, NEW j \in D, i # j
               PROVE  t[i].id # t[j].id /\ t[i].used # t[j].used
    OBVIOUS
  <2>1. l[i].used \in Nat /\ l[j].used \in Nat
    BY <1>1 DEF Entry
  <2> QED BY <1>2, <1>3, <1>4, <1>9, <2>1
<1> DEFINE q == [i \in D |-> IF i = 1 THEN k ELSE IF i <= k THEN i - 1 ELSE i]
<1>11. q \in [D -> D]
  BY <1>1
<1>12. ASSUME NEW i \in D, NEW j \in D, i < j PROVE t[q[i]].used > t[q[j]].used
  <2>1. q[i] \in D /\ q[j] \in D /\ q[j] # k
    BY <1>1, <1>12
  <2>2. t[q[j]] = l[q[j]] /\ l[q[j]].used \in Nat
    BY <1>1, <1>9, <2>1 DEF Entry
  <2>3. CASE i = 1
    <3>1. t[q[i]].used = now
      BY <1>9, <2>3
    <3> QED BY <1>2, <2>1, <2>2, <3>1
  <2>4. CASE i # 1
    <3>1. q[i] < q[j] /\ q[i] # k
      BY <1>1, <1>12, <2>4
    <3>2. t[q[i]] = l[q[i]]
      BY <1>9, <2>1, <3>1
    <3> HIDE DEF q
    <3> QED BY <2>1, <2>2, <3>1, <3>2 DEF Ordered
  <2> QED BY <2>3, <2>4
<1> DEFINE s == ByRecency(t)
<1>13. /\ Ordered(s) /\ Len(s) = Len(l) /\ DOMAIN s = D
       /\ \A i \in D : \E j \in D : s[j] = t[i]
       /\ \A i \in D : \E j \in D : s[i] = t[j]
  <2> HIDE DEF q, D
  <2> QED BY <1>8, <1>10, <1>11, <1>12, SortSorts, Zenon
<1> HIDE DEF s, e
<1>14. \A i \in D : t[i].used <= e.used
  BY <1>1, <1>2, <1>9 DEF e, Entry
<1>15. s # <<>> /\ s[1] = e
  <2>1. \E i \in DOMAIN s : s[i] = e
    BY <1>4, <1>9, <1>13
  <2>2. \A i \in DOMAIN s : s[i].used <= e.used
    BY <1>13, <1>14, Zenon
  <2> QED BY <1>2, <1>13, <2>1, <2>2, LatestIsFirst, Zenon
<1> QED BY <1>7, <1>13, <1>15 DEF s, e

LEMMA EntryAdded ==
  ASSUME NEW l, Ordered(l), NEW id \in Ids
  PROVE  LET s == ByRecency(WithEntry(l, id))
         IN  Ordered(s) /\ s # <<>> /\ s[1].id = id
<1>1. CASE Has(l, id)
  BY <1>1, TouchMoves DEF WithEntry
<1>2. CASE ~Has(l, id)
  <2> DEFINE e == [id |-> id, used |-> Latest(l) + 1]
             t == <<e>> \o l
             q == [i \in DOMAIN t |-> i]
             s == ByRecency(t)
  <2>1. /\ e \in Entry /\ e.id = id
        /\ \A i \in DOMAIN l : l[i] \in Entry /\ l[i].used < e.used /\ l[i].id # e.id
    <3>1. \A i \in DOMAIN l : l[i] \in Entry
      BY DEF Ordered
    <3> QED BY <1>2, <3>1, LatestIsLast DEF Entry, Has
  <2> HIDE DEF e
  <2>2. /\ t \in Seq(Entry) /\ 1 \in DOMAIN t /\ t[1] = e
        /\ DOMAIN t = 1..(Len(l) + 1) /\ DOMAIN l = 1..Len(l) /\ Len(l) \in Nat
        /\ \A i \in DOMAIN t : i # 1 => i - 1 \in DOMAIN l /\ t[i] = l[i - 1]
    BY <2>1 DEF Ordered
  <2> HIDE DEF t
  <2>3. ASSUME NEW i \in DOMAIN t, NEW j \in DOMAIN t, i < j
        PROVE  t[i].used > t[j].used /\ t[i].id # t[j].id
    <3>1. j # 1 /\ j - 1 \in DOMAIN l /\ t[j] = l[j - 1]
      BY <2>2, <2>3
    <3>2. CASE i = 1
      <4>1. l[j - 1].used \in Nat /\ e.used \in Nat
        BY <2>1, <3>1 DEF Entry
      <4> QED BY <2>1, <2>2, <3>1, <3>2, <4>1
    <3>3. CASE i # 1
      <4>1. i - 1 \in DOMAIN l /\ t[i] = l[i - 1] /\ i - 1 < j - 1
        BY <2>2, <2>3, <3>3
      <4> QED BY <3>1, <4>1 DEF Ordered
    <3> QED BY <3>2, <3>3
  <2>4. \A i, j \in DOMAIN t : i # j => t[i].id # t[j].id /\ t[i].used # t[j].used
    <3> SUFFICES ASSUME NEW i \in DOMAIN t, NEW j \in DOMAIN t, i # j
                 PROVE  t[i].id # t[j].id /\ t[i].used # t[j].used
      OBVIOUS
    <3>1. i < j \/ j < i
      BY <2>2
    <3>2. t[i] \in Entry /\ t[j] \in Entry
      BY <2>2
    <3> QED BY <2>3, <3>1, <3>2 DEF Entry
  <2>5. /\ Ordered(s) /\ DOMAIN s = DOMAIN t
        /\ \A i \in DOMAIN t : \E j \in DOMAIN t : s[j] = t[i]
        /\ \A i \in DOMAIN t : \E j \in DOMAIN t : s[i] = t[j]
    <3>1. q \in [DOMAIN t -> DOMAIN t] /\ \A i, j \in DOMAIN t : i < j => t[q[i]].used > t[q[j]].used
      BY <2>3
    <3> HIDE DEF q
    <3> QED BY <2>2, <2>4, <3>1, SortSorts, Zenon
  <2> HIDE DEF s
  <2>6. \A i \in DOMAIN t : t[i].used <= e.used
    BY <2>1, <2>2 DEF Entry
  <2>7. s # <<>> /\ s[1] = e
    <3>1. \E i \in DOMAIN s : s[i] = e
      BY <2>2, <2>5
    <3>2. \A i \in DOMAIN s : s[i].used <= e.used
      BY <2>5, <2>6, Zenon
    <3> QED BY <2>1, <2>5, <3>1, <3>2, LatestIsFirst, Zenon
  <2>8. s = ByRecency(WithEntry(l, id))
    BY <1>2 DEF WithEntry, s, t, e
  <2> QED BY <2>1, <2>5, <2>7, <2>8
<1> QED BY <1>1, <1>2

LEMMA CutKeeps ==
  ASSUME NEW s, Ordered(s), s # <<>>
  PROVE  /\ Ordered(CutTo(s)) /\ Len(CutTo(s)) <= MaxConnections
         /\ CutTo(s) # <<>> /\ CutTo(s)[1] = s[1]
<1> DEFINE n == IF Len(s) < MaxConnections THEN Len(s) ELSE MaxConnections
<1>1. s \in Seq(Entry) /\ n \in 1..Len(s) /\ n <= MaxConnections
  BY WorkspaceAssumption DEF Ordered
<1>2. CutTo(s) = SubSeq(s, 1, n)
  BY DEF CutTo
<1> HIDE DEF n
<1>3. /\ SubSeq(s, 1, n) \in Seq(Entry) /\ Len(SubSeq(s, 1, n)) = n
      /\ \A i \in 1..n : i \in DOMAIN s /\ SubSeq(s, 1, n)[i] = s[i]
  BY <1>1
<1>4. Ordered(CutTo(s))
  BY <1>1, <1>2, <1>3 DEF Ordered
<1> QED BY <1>1, <1>2, <1>3, <1>4

(* What the dialog saves is as it should be if what it read is. *)
LEMMA PicksAreSane ==
  ASSUME NEW c, Sane(c), NEW d \in PickExisting(c) \cup PickNew(c)
  PROVE  Sane(d) /\ d.recent # None
<1>1. Ordered(c.list) /\ Len(c.list) <= MaxConnections
  BY DEF Sane
<1>2. CASE d \in PickExisting(c)
  <2>1. PICK i \in DOMAIN c.list : d = MarkRecent(c, c.list[i].id)
    BY <1>2 DEF PickExisting
  <2> DEFINE id == c.list[i].id
  <2>2. id \in Ids /\ Has(c.list, id)
    <3>1. c.list[i] \in Entry
      BY <1>1 DEF Ordered
    <3> QED BY <3>1 DEF Entry, Has
  <2> HIDE DEF id
  <2> QED BY <1>1, <2>1, <2>2, TouchMoves, WorkspaceAssumption DEF MarkRecent, Sane, id
<1>3. CASE d \in PickNew(c)
  <2>1. PICK id \in Ids : d = Upsert(c, id)
    BY <1>3 DEF PickNew
  <2> DEFINE s == ByRecency(WithEntry(c.list, id))
  <2>2. Ordered(s) /\ s # <<>> /\ s[1].id = id
    BY <1>1, EntryAdded
  <2> HIDE DEF s
  <2>3. d = [list |-> CutTo(s), recent |-> id]
    BY <2>1 DEF Upsert, s
  <2> QED BY <2>2, <2>3, CutKeeps, WorkspaceAssumption DEF Sane
<1> QED BY <1>2, <1>3

-----------------------------------------------------------------------------
(* The files. *)

LEMMA FolderFlags ==
  ASSUME NEW d \in Folder
  PROVE  /\ [d EXCEPT !.exists = TRUE] \in Folder
         /\ [d EXCEPT !.exists = TRUE].exists
         /\ [d EXCEPT !.exists = TRUE].user = d.user
         /\ [d EXCEPT !.raw = FALSE] \in Folder
         /\ [d EXCEPT !.raw = FALSE].exists = d.exists
         /\ [d EXCEPT !.raw = FALSE].user = d.user
  BY Zenon DEF Folder

LEMMA FolderFiles ==
  ASSUME NEW d \in Folder, NEW c \in Content, NEW name \in {"parser", "user"}
  PROVE  /\ [d EXCEPT ![name] = c] \in Folder
         /\ name = "user" => [d EXCEPT ![name] = c].user = c
         /\ name = "parser" => [d EXCEPT ![name] = c].user = d.user
<1>1. CASE name = "user"
  BY <1>1 DEF Folder
<1>2. CASE name = "parser"
  BY <1>2 DEF Folder
<1> QED BY <1>1, <1>2

LEMMA WrittenFolder ==
  ASSUME dir \in [Folders -> Folder], NEW f \in Folders, NEW content \in Content,
         NEW name \in {"parser", "user"}, Written(f, name, content)
  PROVE  /\ dir' \in [Folders -> Folder]
         /\ \A g \in Folders \ {f} : dir'[g] = dir[g]
         /\ dir'[f].exists
         /\ name = "user" => dir'[f].user = content
         /\ name = "parser" => dir'[f].user = dir[f].user
<1> DEFINE d == [[dir[f] EXCEPT ![name] = content] EXCEPT !.exists = TRUE]
<1>1. dir' = [g \in Folders |-> IF g = f THEN d ELSE dir[g]]
  BY Zenon DEF Written
<1>2. d \in Folder /\ d.exists /\ d.user = IF name = "user" THEN content ELSE dir[f].user
  <2> DEFINE c == [dir[f] EXCEPT ![name] = content]
  <2>1. dir[f] \in Folder
    OBVIOUS
  <2>2. /\ c \in Folder
        /\ name = "user" => c.user = content
        /\ name = "parser" => c.user = dir[f].user
    BY <2>1, FolderFiles, Zenon
  <2> HIDE DEF c
  <2> QED BY <2>2, FolderFlags, Zenon DEF c
<1> HIDE DEF d
<1> QED BY <1>1, <1>2

(* What every step but the removal of a folder does to the service         *)
(* configurations.                                                         *)
Gentle ==
  /\ dir' \in [Folders -> Folder]
  /\ \A f \in Folders :
       /\ dir'[f].user = dir[f].user \/ (dir[f].user = "none" /\ dir'[f].user = "template")
       /\ dir[f].exists \/ dir'[f].user # "none" => dir'[f].exists

LEMMA WrittenIsGentle ==
  ASSUME dir \in [Folders -> Folder], ChangeOK, NEW f \in Folders, NEW content \in Content,
         NEW name \in {"parser", "user"}, Written(f, name, content),
         name = "user" => dir[f].user = "none" /\ content = "template"
  PROVE  Gentle
  BY WrittenFolder DEF Gentle, ChangeOK

LEMMA ExistsIsGentle ==
  ASSUME dir \in [Folders -> Folder], ChangeOK, NEW f \in Folders,
         dir' = [dir EXCEPT ![f].exists = TRUE]
  PROVE  Gentle /\ dir'[f].exists
<1> DEFINE d == [dir[f] EXCEPT !.exists = TRUE]
<1>1. dir' = [g \in Folders |-> IF g = f THEN d ELSE dir[g]]
  BY Zenon
<1>2. dir[f] \in Folder
  OBVIOUS
<1>3. d \in Folder /\ d.user = dir[f].user /\ d.exists = TRUE
  BY <1>2, FolderFlags, Zenon
<1> HIDE DEF d
<1> QED BY <1>1, <1>3, Zenon DEF Gentle, ChangeOK

LEMMA RawIsGentle ==
  ASSUME dir \in [Folders -> Folder], ChangeOK, NEW f \in Folders,
         dir' = [dir EXCEPT ![f].raw = FALSE]
  PROVE  Gentle
<1> DEFINE d == [dir[f] EXCEPT !.raw = FALSE]
<1>1. dir' = [g \in Folders |-> IF g = f THEN d ELSE dir[g]]
  BY Zenon
<1>2. dir[f] \in Folder
  OBVIOUS
<1>3. d \in Folder /\ d.user = dir[f].user /\ d.exists = dir[f].exists
  BY <1>2, FolderFlags, Zenon
<1> HIDE DEF d
<1> QED BY <1>1, <1>3, Zenon DEF Gentle, ChangeOK

LEMMA SameIsGentle ==
  ASSUME dir \in [Folders -> Folder], ChangeOK, dir' = dir
  PROVE  Gentle
  BY DEF Gentle, ChangeOK

-----------------------------------------------------------------------------
(* The operations. *)

LEMMA Moved ==
  ASSUME ProcsOK, NEW p \in Procs, NEW r, Holds(p, r), proc' = [proc EXCEPT ![p] = r]
  PROVE  ProcsOK' /\ proc'[p] = r /\ \A q \in Procs \ {p} : proc'[q] = proc[q]
<1>1. proc' = [q \in Procs |-> IF q = p THEN r ELSE proc[q]]
  BY DEF ProcsOK
<1>2. proc'[p] = r /\ \A q \in Procs \ {p} : proc'[q] = proc[q]
  BY <1>1
<1>3. \A q \in Procs : Holds(q, proc'[q])
  BY <1>2 DEF ProcsOK
<1> QED BY <1>1, <1>2, <1>3 DEF ProcsOK

(* A step that moves one operation, and neither writes config.json nor     *)
(* takes part in the migration of the service configuration.               *)
LEMMA PlainStep ==
  ASSUME WorkspaceInv, NEW p \in Procs, NEW r, Holds(p, r), Move(p, r),
         UNCHANGED config, Gentle, ConnOK',
         cache' \in Folders \cup {None}, ops' \in Nat, faults' = faults,
         p \in Writers /\ r.at = "write" => r.copy = config,
         p = "change" => r.at \in {"idle", "read", "write", "next", "userStat"}
  PROVE  WorkspaceInv'
<1>1. ProcsOK' /\ proc'[p] = r /\ \A q \in Procs \ {p} : proc'[q] = proc[q]
  BY Moved, Zenon DEF WorkspaceInv, Move
<1>2. FilesOK'
  BY DEF WorkspaceInv, FilesOK, Gentle
<1>3. CopiesOK'
  BY <1>1 DEF WorkspaceInv, CopiesOK, Writers, Procs, Saves
<1>4. ChangeOK'
  <2>1. CASE p = "change"
    BY <1>1, <2>1 DEF ChangeOK, Gentle
  <2>2. CASE p # "change"
    <3> DEFINE c == proc["change"]
    <3>1. proc'["change"] = c /\ Holds("change", c)
      BY <1>1, <2>2 DEF Procs, WorkspaceInv, ProcsOK
    <3>2. c.at # "idle" => c.to \in Folders /\ c.ws \in Folders
      BY <3>1 DEF Holds
    <3>3. ChangeOK
      BY DEF WorkspaceInv
    <3> HIDE DEF c
    <3> QED BY <3>1, <3>2, <3>3 DEF ChangeOK, Gentle, c
  <2> QED BY <2>1, <2>2
<1> QED BY <1>1, <1>2, <1>3, <1>4 DEF WorkspaceInv

LEMMA HoldsNow ==
  ASSUME WorkspaceInv
  PROVE  /\ config \in ConfigFile /\ Resolve \in Folders /\ CachedFolder \in Folders
         /\ dir \in [Folders -> Folder] /\ ChangeOK /\ ConnOK /\ CopiesOK
         /\ cache \in Folders \cup {None} /\ ops \in Nat /\ faults \in Nat
         /\ \A p \in Procs : Holds(p, proc[p])
  BY DEF WorkspaceInv, FilesOK, ProcsOK, Resolve, CachedFolder, ConfigFile

LEMMA ConnKept ==
  ASSUME ConnOK, UNCHANGED conn
  PROVE  ConnOK'
  BY DEF ConnOK

(* An operation's record with one field changed. *)
SameBut(q, r, x) ==
  /\ x = "at" \/ r.at = q.at
  /\ x = "ws" \/ r.ws = q.ws
  /\ x = "to" \/ r.to = q.to
  /\ x = "copy" \/ r.copy = q.copy
  /\ x = "seen" \/ r.seen = q.seen
  /\ x = "old" \/ r.old = q.old
  /\ x = "dirty" \/ r.dirty = q.dirty
  /\ x = "fresh" \/ r.fresh = q.fresh
  /\ x = "own" \/ r.own = q.own

LEMMA OneField ==
  ASSUME NEW q, IsProc(q), NEW v
  PROVE  /\ LET r == [q EXCEPT !.at = v] IN IsProc(r) /\ r.at = v /\ SameBut(q, r, "at")
         /\ LET r == [q EXCEPT !.ws = v] IN IsProc(r) /\ r.ws = v /\ SameBut(q, r, "ws")
         /\ LET r == [q EXCEPT !.to = v] IN IsProc(r) /\ r.to = v /\ SameBut(q, r, "to")
         /\ LET r == [q EXCEPT !.copy = v] IN IsProc(r) /\ r.copy = v /\ SameBut(q, r, "copy")
         /\ LET r == [q EXCEPT !.fresh = v] IN IsProc(r) /\ r.fresh = v /\ SameBut(q, r, "fresh")
         /\ LET r == [q EXCEPT !.seen = v]
            IN  v \in BOOLEAN => IsProc(r) /\ r.seen = v /\ SameBut(q, r, "seen")
         /\ LET r == [q EXCEPT !.old = v]
            IN  v \in BOOLEAN => IsProc(r) /\ r.old = v /\ SameBut(q, r, "old")
         /\ LET r == [q EXCEPT !.dirty = v]
            IN  v \in BOOLEAN => IsProc(r) /\ r.dirty = v /\ SameBut(q, r, "dirty")
         /\ LET r == [q EXCEPT !.own = v]
            IN  v \in BOOLEAN => IsProc(r) /\ r.own = v /\ SameBut(q, r, "own")
<1>1. PICK at0, ws0, to0, copy0, seen0, old0, dirty0, fresh0, own0 :
        /\ q = [at |-> at0, ws |-> ws0, to |-> to0, copy |-> copy0, seen |-> seen0, old |-> old0, dirty |-> dirty0, fresh |-> fresh0, own |-> own0]
        /\ seen0 \in BOOLEAN /\ old0 \in BOOLEAN /\ dirty0 \in BOOLEAN /\ own0 \in BOOLEAN
  BY DEF IsProc
<1>2. LET r == [q EXCEPT !.at = v] IN IsProc(r) /\ r.at = v /\ SameBut(q, r, "at")
  <2>1. [q EXCEPT !.at = v] = [at |-> v, ws |-> ws0, to |-> to0, copy |-> copy0, seen |-> seen0, old |-> old0, dirty |-> dirty0, fresh |-> fresh0, own |-> own0]
    BY <1>1
  <2> QED BY <1>1, <2>1 DEF IsProc, SameBut
<1>3. LET r == [q EXCEPT !.ws = v] IN IsProc(r) /\ r.ws = v /\ SameBut(q, r, "ws")
  <2>1. [q EXCEPT !.ws = v] = [at |-> at0, ws |-> v, to |-> to0, copy |-> copy0, seen |-> seen0, old |-> old0, dirty |-> dirty0, fresh |-> fresh0, own |-> own0]
    BY <1>1
  <2> QED BY <1>1, <2>1 DEF IsProc, SameBut
<1>4. LET r == [q EXCEPT !.to = v] IN IsProc(r) /\ r.to = v /\ SameBut(q, r, "to")
  <2>1. [q EXCEPT !.to = v] = [at |-> at0, ws |-> ws0, to |-> v, copy |-> copy0, seen |-> seen0, old |-> old0, dirty |-> dirty0, fresh |-> fresh0, own |-> own0]
    BY <1>1
  <2> QED BY <1>1, <2>1 DEF IsProc, SameBut
<1>5. LET r == [q EXCEPT !.copy = v] IN IsProc(r) /\ r.copy = v /\ SameBut(q, r, "copy")
  <2>1. [q EXCEPT !.copy = v] = [at |-> at0, ws |-> ws0, to |-> to0, copy |-> v, seen |-> seen0, old |-> old0, dirty |-> dirty0, fresh |-> fresh0, own |-> own0]
    BY <1>1
  <2> QED BY <1>1, <2>1 DEF IsProc, SameBut
<1>6. LET r == [q EXCEPT !.fresh = v] IN IsProc(r) /\ r.fresh = v /\ SameBut(q, r, "fresh")
  <2>1. [q EXCEPT !.fresh = v] = [at |-> at0, ws |-> ws0, to |-> to0, copy |-> copy0, seen |-> seen0, old |-> old0, dirty |-> dirty0, fresh |-> v, own |-> own0]
    BY <1>1
  <2> QED BY <1>1, <2>1 DEF IsProc, SameBut
<1>7. LET r == [q EXCEPT !.seen = v] IN v \in BOOLEAN => IsProc(r) /\ r.seen = v /\ SameBut(q, r, "seen")
  <2>1. [q EXCEPT !.seen = v] = [at |-> at0, ws |-> ws0, to |-> to0, copy |-> copy0, seen |-> v, old |-> old0, dirty |-> dirty0, fresh |-> fresh0, own |-> own0]
    BY <1>1
  <2> QED BY <1>1, <2>1 DEF IsProc, SameBut
<1>8. LET r == [q EXCEPT !.old = v] IN v \in BOOLEAN => IsProc(r) /\ r.old = v /\ SameBut(q, r, "old")
  <2>1. [q EXCEPT !.old = v] = [at |-> at0, ws |-> ws0, to |-> to0, copy |-> copy0, seen |-> seen0, old |-> v, dirty |-> dirty0, fresh |-> fresh0, own |-> own0]
    BY <1>1
  <2> QED BY <1>1, <2>1 DEF IsProc, SameBut
<1>9. LET r == [q EXCEPT !.dirty = v] IN v \in BOOLEAN => IsProc(r) /\ r.dirty = v /\ SameBut(q, r, "dirty")
  <2>1. [q EXCEPT !.dirty = v] = [at |-> at0, ws |-> ws0, to |-> to0, copy |-> copy0, seen |-> seen0, old |-> old0, dirty |-> v, fresh |-> fresh0, own |-> own0]
    BY <1>1
  <2> QED BY <1>1, <2>1 DEF IsProc, SameBut
<1>10. LET r == [q EXCEPT !.own = v] IN v \in BOOLEAN => IsProc(r) /\ r.own = v /\ SameBut(q, r, "own")
  <2>1. [q EXCEPT !.own = v] = [at |-> at0, ws |-> ws0, to |-> to0, copy |-> copy0, seen |-> seen0, old |-> old0, dirty |-> dirty0, fresh |-> fresh0, own |-> v]
    BY <1>1
  <2> QED BY <1>1, <2>1 DEF IsProc, SameBut
<1> QED BY <1>2, <1>3, <1>4, <1>5, <1>6, <1>7, <1>8, <1>9, <1>10

(* The record of an operation that begins, and of one that goes on. *)
LEMMA IdleHolds ==
  ASSUME NEW p \in Procs
  PROVE  Holds(p, Idle) /\ Idle.at = "idle"
  BY DEF Holds, IsProc, Idle

LEMMA BeginHolds ==
  ASSUME NEW p \in Procs \ {"change", "scaffold", "connect"},
         NEW step \in StepsOf(p), step # "write", NEW r, r = [Idle EXCEPT !.at = step]
  PROVE  Holds(p, r) /\ r.at = step
<1>1. IsProc(Idle)
  BY DEF Idle, IsProc
<1>2. IsProc(r) /\ r.at = step
  BY <1>1, OneField, ZenonT(30)
<1> QED BY <1>2 DEF Holds

LEMMA GoesOn ==
  ASSUME NEW p \in Procs, Holds(p, proc[p]), proc[p].at # "idle", proc[p].at # "write",
         NEW step \in StepsOf(p), step # "idle", step # "write"
  PROVE  Holds(p, To(p, step)) /\ To(p, step).at = step
<1> DEFINE r == proc[p]
<1>1. r = [at |-> r.at, ws |-> r.ws, to |-> r.to, copy |-> r.copy, seen |-> r.seen,
           old |-> r.old, dirty |-> r.dirty, fresh |-> r.fresh, own |-> r.own]
  BY DEF Holds, IsProc
<1>2. To(p, step) = [r EXCEPT !.at = step]
  BY DEF To
<1>3. Holds(p, r) /\ r.at # "idle"
  OBVIOUS
<1> HIDE DEF r
<1>4. PICK t : t = [at |-> step, ws |-> r.ws, to |-> r.to, copy |-> r.copy, seen |-> r.seen,
                    old |-> r.old, dirty |-> r.dirty, fresh |-> r.fresh, own |-> r.own]
  BY Zenon
<1>5. To(p, step) = t
  BY <1>1, <1>2, <1>4
<1> QED BY <1>3, <1>4, <1>5 DEF Holds, IsProc

-----------------------------------------------------------------------------
(* Every step keeps the invariant. *)

LEMMA SeedIsGentle ==
  ASSUME WorkspaceInv, NEW name \in {"parser", "user"}, SeedFile(name)
  PROVE  Gentle
<1>1. dir \in [Folders -> Folder] /\ ChangeOK /\ Resolve \in Folders /\ "template" \in Content
  BY HoldsNow DEF Content
<1>2. CASE dir[Resolve][name] = "none"
  <2>1. Written(Resolve, name, "template")
    BY <1>2 DEF SeedFile
  <2>2. name = "user" => dir[Resolve].user = "none"
    BY <1>2
  <2> QED BY <1>1, <2>1, <2>2, WrittenIsGentle
<1>3. CASE dir[Resolve][name] # "none"
  BY <1>1, <1>3, SameIsGentle DEF SeedFile
<1> QED BY <1>2, <1>3

LEMMA ActivateKeeps ==
  ASSUME WorkspaceInv, ActivateRaw \/ ActivateSeed
  PROVE  WorkspaceInv'
<1> DEFINE p == "activate"
<1>0. p \in Procs /\ p \notin Writers /\ p # "change"
  BY DEF Procs, Writers, Saves
<1>1. /\ dir \in [Folders -> Folder] /\ ChangeOK /\ ConnOK /\ Resolve \in Folders
      /\ cache \in Folders \cup {None} /\ ops \in Nat /\ Holds(p, proc[p])
  BY <1>0, HoldsNow
<1>2. CASE ActivateRaw
  <2>1. proc[p].at = "raw"
    BY <1>2 DEF ActivateRaw, At
  <2>2. Holds(p, To(p, "parser"))
    BY <1>0, <1>1, <2>1, GoesOn DEF StepsOf
  <2>3. Gentle
    BY <1>1, <1>2, RawIsGentle, Zenon DEF ActivateRaw
  <2> QED BY <1>0, <1>1, <1>2, <2>2, <2>3, ConnKept, PlainStep DEF ActivateRaw
<1>3. CASE At(p, "parser") /\ ensureParserConfigExists(p, To(p, "user"))
  <2>1. Holds(p, To(p, "user"))
    BY <1>0, <1>1, <1>3, GoesOn DEF StepsOf, At
  <2>2. Gentle
    BY <1>3, SeedIsGentle DEF ensureParserConfigExists
  <2> QED BY <1>0, <1>1, <1>3, <2>1, <2>2, ConnKept, PlainStep
          DEF ensureParserConfigExists, SeedFile
<1>4. CASE At(p, "user") /\ ensureUserConfigExists(p, Idle)
  <2>1. Gentle
    BY <1>4, SeedIsGentle DEF ensureUserConfigExists
  <2> QED BY <1>0, <1>1, <1>4, <2>1, ConnKept, IdleHolds, PlainStep
          DEF ensureUserConfigExists, SeedFile
<1> QED BY <1>2, <1>3, <1>4 DEF ActivateSeed

LEMMA InitWorkspaceKeeps ==
  ASSUME WorkspaceInv, InitWorkspace
  PROVE  WorkspaceInv'
<1> DEFINE p == "init"
<1>0. p \in Procs /\ p \notin Writers /\ p \notin {"change", "scaffold", "connect"}
  BY DEF Procs, Writers, Saves
<1>1. /\ dir \in [Folders -> Folder] /\ ChangeOK /\ ConnOK /\ Resolve \in Folders
      /\ cache \in Folders \cup {None} /\ ops \in Nat
  BY HoldsNow
<1>2. ASSUME Begin(p, [Idle EXCEPT !.at = "user"]), Written(Resolve, "parser", "template"),
             UNCHANGED <<config, conn, cache, active, faults>>
      PROVE  WorkspaceInv'
  <2>1. PICK r : r = [Idle EXCEPT !.at = "user"]
    BY Zenon
  <2>2. Holds(p, r) /\ Move(p, r) /\ ops' = ops + 1
    BY <1>0, <1>2, <2>1, BeginHolds DEF Begin, StepsOf
  <2>3. Gentle
    BY <1>1, <1>2, WrittenIsGentle DEF Content
  <2> QED BY <1>0, <1>1, <1>2, <2>2, <2>3, ConnKept, PlainStep
<1>3. ASSUME At(p, "user"), ensureUserConfigExists(p, Idle)
      PROVE  WorkspaceInv'
  <2>1. Gentle
    BY <1>3, SeedIsGentle DEF ensureUserConfigExists
  <2> QED BY <1>0, <1>1, <1>3, <2>1, ConnKept, IdleHolds, PlainStep
          DEF ensureUserConfigExists, SeedFile
<1> QED BY <1>2, <1>3 DEF InitWorkspace

LEMMA ScaffoldKeeps ==
  ASSUME WorkspaceInv, ScaffoldLook \/ writeFromTemplate
  PROVE  WorkspaceInv'
<1> DEFINE p == "scaffold"
<1>0. p \in Procs /\ p \notin Writers /\ p \notin {"change", "connect"}
  BY DEF Procs, Writers, Saves
<1>1. /\ dir \in [Folders -> Folder] /\ ChangeOK /\ ConnOK /\ Resolve \in Folders
      /\ cache \in Folders \cup {None} /\ ops \in Nat /\ Holds(p, proc[p])
  BY <1>0, HoldsNow
<1>2. CASE ScaffoldLook
  <2>1. PICK r, b : /\ b = (dir[Resolve].parser # "none")
                    /\ r = [Idle EXCEPT !.at = "fill", !.ws = Resolve, !.seen = b]
    BY Zenon
  <2>2. r = [at |-> "fill", ws |-> Resolve, to |-> None, copy |-> None, seen |-> b,
             old |-> FALSE, dirty |-> FALSE, fresh |-> FALSE, own |-> FALSE]
    BY <2>1, Zenon DEF Idle
  <2>3. b \in BOOLEAN
    BY <2>1
  <2>4. Holds(p, r)
    BY <1>0, <1>1, <2>2, <2>3 DEF Holds, IsProc, StepsOf
  <2>5. Move(p, r) /\ ops' = ops + 1
    BY <1>2, <2>1 DEF ScaffoldLook, Begin
  <2>6. Gentle
    BY <1>1, <1>2, SameIsGentle DEF ScaffoldLook
  <2> QED BY <1>0, <1>1, <1>2, <2>4, <2>5, <2>6, ConnKept, PlainStep DEF ScaffoldLook
<1>3. CASE writeFromTemplate
  <2>1. proc[p].ws \in Folders
    BY <1>1, <1>3 DEF writeFromTemplate, At, Holds
  <2>2. Gentle
    BY <1>1, <1>3, <2>1, SameIsGentle, WrittenIsGentle DEF writeFromTemplate, Content
  <2> QED BY <1>0, <1>1, <1>3, <2>2, ConnKept, IdleHolds, PlainStep DEF writeFromTemplate
<1> QED BY <1>2, <1>3

LEMMA SaveKeeps ==
  ASSUME WorkspaceInv, NEW p \in Saves, Save(p)
  PROVE  WorkspaceInv'
<1>0. p \in Procs /\ p \in Writers /\ p \notin {"change", "scaffold", "connect"}
      /\ "read" \in StepsOf(p)
  BY DEF Procs, Writers, Saves, StepsOf
<1>1. /\ dir \in [Folders -> Folder] /\ ChangeOK /\ ConnOK
      /\ cache \in Folders \cup {None} /\ ops \in Nat
  BY HoldsNow
<1>2. PICK r : r = [Idle EXCEPT !.at = "read"]
  BY Zenon
<1>3. Holds(p, r) /\ r.at = "read" /\ Move(p, r) /\ ops' = ops + 1
  BY <1>0, <1>2, BeginHolds DEF Save, Begin
<1>4. Gentle
  BY <1>1, SameIsGentle DEF Save
<1> QED BY <1>0, <1>1, <1>3, <1>4, ConnKept, PlainStep DEF Save

LEMMA ReadConfigKeeps ==
  ASSUME WorkspaceInv, NEW p \in Writers, ReadConfig(p)
  PROVE  WorkspaceInv'
<1>0. p \in Procs /\ p \notin {"scaffold", "connect"} /\ "write" \in StepsOf(p)
  BY DEF Procs, Writers, Saves, StepsOf
<1>1. /\ dir \in [Folders -> Folder] /\ ChangeOK /\ ConnOK /\ config \in ConfigFile
      /\ cache \in Folders \cup {None} /\ ops \in Nat /\ Holds(p, proc[p])
  BY <1>0, HoldsNow
<1> DEFINE q == proc[p]
           m == [q EXCEPT !.at = "write"]
           r == [m EXCEPT !.copy = config]
<1>2. Holds(p, q) /\ q.at = "read" /\ Move(p, r)
  BY <1>1 DEF ReadConfig, At, To
<1> HIDE DEF q
<1>3. IsProc(m) /\ m.at = "write" /\ SameBut(q, m, "at")
  BY <1>2, OneField, Zenon DEF Holds
<1> HIDE DEF m
<1>4. Holds(p, r) /\ r.at = "write" /\ r.copy = config
  <2>1. IsProc(r) /\ r.copy = config /\ SameBut(m, r, "copy")
    BY <1>3, OneField, ZenonT(30)
  <2> HIDE DEF r
  <2> QED BY <1>0, <1>1, <1>2, <1>3, <2>1 DEF Holds, SameBut
<1> HIDE DEF r
<1>5. Gentle
  BY <1>1, SameIsGentle DEF ReadConfig
<1> QED BY <1>0, <1>1, <1>2, <1>4, <1>5, ConnKept, PlainStep DEF ReadConfig

LEMMA PickKeeps ==
  ASSUME WorkspaceInv, NEW f \in Folders, ChangePick(f)
  PROVE  WorkspaceInv'
<1> DEFINE p == "change"
<1>0. p \in Procs /\ p \in Writers /\ "read" \in StepsOf(p)
  BY DEF Procs, Writers, StepsOf
<1>1. /\ dir \in [Folders -> Folder] /\ ChangeOK /\ ConnOK /\ CachedFolder \in Folders
      /\ ops \in Nat
  BY HoldsNow
<1>2. PICK b, r : r = [Idle EXCEPT !.at = "read", !.to = f, !.fresh = b, !.ws = CachedFolder]
                  /\ b = ~dir[f].exists
  BY Zenon
<1>3. r = [at |-> "read", ws |-> CachedFolder, to |-> f, copy |-> None, seen |-> FALSE,
           old |-> FALSE, dirty |-> FALSE, fresh |-> b, own |-> FALSE]
  BY <1>2, Zenon DEF Idle
<1>4. Holds(p, r) /\ r.at = "read"
  BY <1>0, <1>1, <1>3 DEF Holds, IsProc
<1>5. Move(p, r) /\ ops' = ops + 1
  BY <1>2 DEF ChangePick, Begin
<1>6. Gentle
  BY <1>1, SameIsGentle DEF ChangePick
<1> QED BY <1>0, <1>1, <1>4, <1>5, <1>6, ConnKept, PlainStep DEF ChangePick

LEMMA ChangeNextKeeps ==
  ASSUME WorkspaceInv, ChangeNext
  PROVE  WorkspaceInv'
<1> DEFINE p == "change"
<1>0. p \in Procs /\ p \in Writers /\ "userStat" \in StepsOf(p)
  BY DEF Procs, Writers, StepsOf
<1>1. /\ dir \in [Folders -> Folder] /\ ChangeOK /\ ConnOK /\ Resolve \in Folders
      /\ ops \in Nat /\ Holds(p, proc[p])
  BY <1>0, HoldsNow
<1> DEFINE q == proc[p]
           m == [q EXCEPT !.at = "userStat"]
           r == [m EXCEPT !.to = Resolve]
<1>2. Holds(p, q) /\ q.at = "next" /\ Move(p, r)
  BY <1>1 DEF ChangeNext, At, To
<1> HIDE DEF q
<1>3. IsProc(m) /\ m.at = "userStat" /\ SameBut(q, m, "at")
  BY <1>2, OneField, Zenon DEF Holds
<1> HIDE DEF m
<1>4. Holds(p, r) /\ r.at = "userStat"
  <2>1. IsProc(r) /\ r.to = Resolve /\ SameBut(m, r, "to")
    BY <1>3, OneField, ZenonT(30)
  <2> HIDE DEF r
  <2> QED BY <1>0, <1>1, <1>2, <1>3, <2>1 DEF Holds, SameBut
<1> HIDE DEF r
<1>5. Gentle
  BY <1>1, RawIsGentle, Zenon DEF ChangeNext
<1> QED BY <1>0, <1>1, <1>2, <1>4, <1>5, ConnKept, PlainStep DEF ChangeNext

LEMMA ConnectionKeeps ==
  ASSUME WorkspaceInv, ConnectCancel \/ SetRecent
  PROVE  WorkspaceInv'
<1>1. /\ dir \in [Folders -> Folder] /\ ChangeOK /\ ConnOK
      /\ cache \in Folders \cup {None} /\ ops \in Nat
  BY HoldsNow
<1>2. PICK p \in {"connect", "recent"} :
        Move(p, Idle) /\ UNCHANGED <<config, dir, conn, cache, ops, faults>>
  BY DEF ConnectCancel, SetRecent
<1>3. p \in Procs /\ p \notin Writers /\ p # "change"
  BY <1>2 DEF Procs, Writers, Saves
<1>4. Gentle
  BY <1>1, <1>2, SameIsGentle
<1> QED BY <1>1, <1>2, <1>3, <1>4, ConnKept, IdleHolds, PlainStep

(* The dialog reads the file, and writes what was picked. *)
LEMMA ReadKeepsConn ==
  ASSUME WorkspaceInv, NEW f \in Folders, ReadConnections(f)
  PROVE  Gentle /\ ConnOK' /\ Sane(Readable(conn[f]))
<1>1. dir \in [Folders -> Folder] /\ ChangeOK /\ ConnOK
  BY HoldsNow
<1>2. Gentle
  BY <1>1, ExistsIsGentle, Zenon DEF ReadConnections
<1>3. Sane(NoConn)
  BY WorkspaceAssumption DEF Sane, NoConn, Ordered
<1>4. \A g \in Folders : Sane(Readable(conn[g]))
  BY <1>1, <1>3 DEF ConnOK, Readable
<1>5. conn' = [g \in Folders |-> IF g = f THEN Readable(conn[f]) ELSE conn[g]]
  BY <1>1 DEF ConnOK, ReadConnections
<1>6. ConnOK'
  BY <1>1, <1>4, <1>5 DEF ConnOK
<1> QED BY <1>2, <1>4, <1>6

LEMMA OneConn ==
  ASSUME ConnOK, NEW f \in Folders, NEW c, c = Broken \/ Sane(c), conn' = [conn EXCEPT ![f] = c]
  PROVE  ConnOK'
<1>1. conn' = [g \in Folders |-> IF g = f THEN c ELSE conn[g]]
  BY DEF ConnOK
<1> QED BY <1>1 DEF ConnOK

LEMMA ConnectOpenKeeps ==
  ASSUME WorkspaceInv, ConnectOpen
  PROVE  WorkspaceInv'
<1> DEFINE p == "connect"
<1>0. p \in Procs /\ p \notin Writers /\ p # "change" /\ "pick" \in StepsOf(p)
  BY DEF Procs, Writers, Saves, StepsOf
<1>1. cache \in Folders \cup {None} /\ ops \in Nat /\ Resolve \in Folders
  BY HoldsNow
<1>2. Gentle /\ ConnOK' /\ Sane(Readable(conn[Resolve]))
  BY <1>1, ReadKeepsConn DEF ConnectOpen
<1>3. PICK c, r : r = [Idle EXCEPT !.at = "pick", !.ws = Resolve, !.copy = c]
                  /\ c = Readable(conn[Resolve])
  BY Zenon
<1>4. r = [at |-> "pick", ws |-> Resolve, to |-> None, copy |-> c, seen |-> FALSE,
           old |-> FALSE, dirty |-> FALSE, fresh |-> FALSE, own |-> FALSE]
  BY <1>3, Zenon DEF Idle
<1>5. Holds(p, r)
  <2>1. IsProc(r) /\ r.at = "pick" /\ r.ws = Resolve /\ r.copy = c
    BY <1>4 DEF IsProc
  <2> QED BY <1>0, <1>1, <1>2, <1>3, <2>1 DEF Holds
<1>6. Move(p, r) /\ ops' = ops + 1
  BY <1>3 DEF ConnectOpen, Begin
<1> QED BY <1>0, <1>1, <1>2, <1>5, <1>6, PlainStep DEF ConnectOpen

LEMMA ConnectPickKeeps ==
  ASSUME WorkspaceInv, ConnectPick
  PROVE  WorkspaceInv'
<1> DEFINE p == "connect"
           q == proc[p]
<1>0. p \in Procs /\ p \notin Writers /\ p # "change" /\ "save" \in StepsOf(p)
  BY DEF Procs, Writers, Saves, StepsOf
<1>1. /\ dir \in [Folders -> Folder] /\ ChangeOK /\ ConnOK
      /\ cache \in Folders \cup {None} /\ ops \in Nat /\ Holds(p, q)
  BY <1>0, HoldsNow
<1>2. q.at = "pick" /\ q.ws \in Folders /\ Sane(q.copy)
  BY <1>1 DEF ConnectPick, At, Holds
<1>3. PICK c \in PickExisting(q.copy) \cup PickNew(q.copy) :
        /\ Move(p, [[q EXCEPT !.at = "save"] EXCEPT !.copy = c])
        /\ conn' = [conn EXCEPT ![q.ws] = Broken]
        /\ dir' = [dir EXCEPT ![q.ws].exists = TRUE]
  BY Zenon DEF ConnectPick, To
<1>4. Sane(c)
  BY <1>2, PicksAreSane
<1>5. Gentle
  BY <1>1, <1>2, <1>3, ExistsIsGentle, Zenon
<1>6. ConnOK'
  BY <1>1, <1>2, <1>3, OneConn, Zenon
<1> HIDE DEF q
<1> DEFINE m == [q EXCEPT !.at = "save"]
           r == [m EXCEPT !.copy = c]
<1>7. IsProc(m) /\ m.at = "save" /\ SameBut(q, m, "at")
  BY <1>1, OneField, Zenon DEF Holds
<1> HIDE DEF m
<1>8. Holds(p, r)
  <2>1. IsProc(r) /\ r.copy = c /\ SameBut(m, r, "copy")
    BY <1>7, OneField, Zenon
  <2> HIDE DEF r
  <2> QED BY <1>0, <1>2, <1>4, <1>7, <2>1 DEF Holds, SameBut
<1>9. Move(p, r)
  BY <1>3 DEF m
<1> HIDE DEF r
<1> QED BY <1>0, <1>1, <1>5, <1>6, <1>8, <1>9, PlainStep DEF ConnectPick

LEMMA ConnectSavedKeeps ==
  ASSUME WorkspaceInv, ConnectSaved
  PROVE  WorkspaceInv'
<1> DEFINE p == "connect"
           q == proc[p]
<1>0. p \in Procs /\ p \notin Writers /\ p # "change"
  BY DEF Procs, Writers, Saves
<1>1. /\ dir \in [Folders -> Folder] /\ ChangeOK /\ ConnOK
      /\ cache \in Folders \cup {None} /\ ops \in Nat /\ Holds(p, q)
  BY <1>0, HoldsNow
<1>2. q.ws \in Folders /\ Sane(q.copy)
  BY <1>1 DEF ConnectSaved, At, Holds
<1>3. Gentle
  BY <1>1, <1>2, ExistsIsGentle, Zenon DEF ConnectSaved
<1>4. ConnOK'
  BY <1>1, <1>2, OneConn, Zenon DEF ConnectSaved
<1> HIDE DEF q
<1> QED BY <1>0, <1>1, <1>3, <1>4, IdleHolds, PlainStep DEF ConnectSaved

LEMMA LoadRecentKeeps ==
  ASSUME WorkspaceInv, LoadRecent
  PROVE  WorkspaceInv'
<1> DEFINE p == "recent"
<1>0. p \in Procs /\ p \notin Writers /\ p \notin {"change", "scaffold", "connect"}
      /\ "set" \in StepsOf(p)
  BY DEF Procs, Writers, Saves, StepsOf
<1>1. cache \in Folders \cup {None} /\ ops \in Nat /\ Resolve \in Folders
  BY HoldsNow
<1>2. Gentle /\ ConnOK'
  BY <1>1, ReadKeepsConn DEF LoadRecent
<1>3. PICK v, m, r : /\ v = Readable(conn[Resolve]).recent
                     /\ m = [Idle EXCEPT !.at = "set"] /\ r = [m EXCEPT !.to = v]
  BY Zenon
<1>4. Holds(p, m) /\ m.at = "set"
  BY <1>0, <1>3, BeginHolds
<1>5. Holds(p, r)
  <2>1. IsProc(r) /\ SameBut(m, r, "to")
    BY <1>3, <1>4, OneField, Zenon DEF Holds
  <2> QED BY <1>0, <1>4, <2>1 DEF Holds, SameBut
<1>6. Move(p, r)
  BY <1>3 DEF LoadRecent
<1> QED BY <1>0, <1>1, <1>2, <1>5, <1>6, PlainStep DEF LoadRecent

(* A writer of config.json leaves the others with an old copy. *)
LEMMA WriteConfigKeeps ==
  ASSUME WorkspaceInv, NEW p \in Writers, proc[p].at = "write", NEW c \in ConfigFile,
         WriteConfig(p, c), UNCHANGED <<dir, conn, cache, active, ops, faults>>
  PROVE  WorkspaceInv'
<1> DEFINE step == IF p = "change" THEN "next" ELSE "idle"
           r == To(p, step)
<1>0. p \in Procs /\ p \notin {"scaffold", "connect"} /\ "change" \in Procs
      /\ step \in {"idle"} \cup StepsOf(p) /\ Writers \subseteq Procs
  BY DEF Procs, Writers, Saves, StepsOf
<1>1. /\ dir \in [Folders -> Folder] /\ ChangeOK /\ ConnOK
      /\ cache \in Folders \cup {None} /\ ops \in Nat /\ faults \in Nat
      /\ \A q \in Procs : Holds(q, proc[q])
  BY HoldsNow
<1>2. config' = c /\ proc' = [q \in Procs |->
                               IF q = p THEN r
                               ELSE IF proc[q].at = "write" THEN [proc[q] EXCEPT !.dirty = TRUE]
                               ELSE proc[q]]
  BY DEF WriteConfig, At
<1>3. Holds(p, r) /\ r.at = step /\ step # "write"
  <2>1. IsProc(proc[p]) /\ r = [proc[p] EXCEPT !.at = step] /\ step # "write"
    BY <1>0, <1>1 DEF Holds, To
  <2> HIDE DEF r, step
  <2>2. IsProc(r) /\ r.at = step /\ SameBut(proc[p], r, "at")
    BY <2>1, OneField, ZenonT(40)
  <2> QED BY <1>0, <1>1, <2>1, <2>2 DEF Holds, SameBut
<1> HIDE DEF r, step
<1>4. ASSUME NEW q \in Procs, q # p
      PROVE  /\ Holds(q, proc'[q]) /\ proc'[q].at = proc[q].at
             /\ proc'[q].at = "write" => proc'[q].dirty
             /\ SameBut(proc[q], proc'[q], "dirty")
  <2> DEFINE s == [proc[q] EXCEPT !.dirty = TRUE]
  <2>1. IsProc(s) /\ s.dirty = TRUE /\ SameBut(proc[q], s, "dirty")
    BY <1>1, OneField, Zenon DEF Holds
  <2> HIDE DEF s
  <2>2. proc'[q] = IF proc[q].at = "write" THEN s ELSE proc[q]
    BY <1>2, <1>4 DEF s
  <2>3. CASE proc[q].at = "write"
    BY <1>1, <2>1, <2>2, <2>3, Zenon DEF Holds, SameBut
  <2>4. CASE proc[q].at # "write"
    BY <1>1, <2>2, <2>4, Zenon DEF SameBut
  <2> QED BY <2>3, <2>4
<1>5. proc'[p] = r
  BY <1>0, <1>2
<1>6. ProcsOK'
  BY <1>2, <1>3, <1>4, <1>5 DEF ProcsOK
<1>7. FilesOK'
  BY <1>1, <1>2 DEF FilesOK
<1>8. CopiesOK'
  BY <1>0, <1>3, <1>4, <1>5 DEF CopiesOK
<1>9. ChangeOK'
  <2>1. CASE p = "change"
    BY <1>1, <1>3, <1>5, <2>1, Zenon DEF ChangeOK, step
  <2>2. CASE p # "change"
    <3>1. SameBut(proc["change"], proc'["change"], "dirty")
      BY <1>0, <1>4, <2>2
    <3> QED BY <1>1, <3>1 DEF ChangeOK, SameBut
  <2> QED BY <2>1, <2>2
<1> QED BY <1>1, <1>6, <1>7, <1>8, <1>9, ConnKept DEF WorkspaceInv

LEMMA WritesKeep ==
  ASSUME WorkspaceInv, ChangeWrite \/ \E p \in Saves : SaveWrite(p)
  PROVE  WorkspaceInv'
<1>1. CASE ChangeWrite
  <2> DEFINE q == proc["change"]
             c == [q.copy EXCEPT !.ws = q.to]
  <2>1. "change" \in Writers /\ "change" \in Procs
    BY DEF Writers, Procs
  <2>2. q.at = "write" /\ q.copy \in ConfigFile /\ q.to \in Folders
    BY <1>1, <2>1, HoldsNow DEF ChangeWrite, At, Holds
  <2>3. WriteConfig("change", c) /\ UNCHANGED <<dir, conn, cache, active, ops, faults>>
    BY <1>1 DEF ChangeWrite
  <2> HIDE DEF q
  <2>4. c \in ConfigFile
    BY <2>2 DEF ConfigFile
  <2> HIDE DEF c
  <2> QED BY <2>1, <2>2, <2>3, <2>4, WriteConfigKeeps DEF q
<1>2. ASSUME NEW p \in Saves, SaveWrite(p) PROVE WorkspaceInv'
  <2> DEFINE q == proc[p]
             c == [q.copy EXCEPT ![p] = 1 - q.copy[p]]
  <2>1. p \in Writers /\ p \in Procs
    BY DEF Writers, Procs
  <2>2. q.at = "write" /\ q.copy \in ConfigFile
    BY <1>2, <2>1, HoldsNow, Zenon DEF SaveWrite, At, Holds
  <2>3. WriteConfig(p, c) /\ UNCHANGED <<dir, conn, cache, active, ops, faults>>
    BY <1>2 DEF SaveWrite
  <2> HIDE DEF q
  <2>4. c \in ConfigFile
    <3>1. CASE p = "panel"
      BY <2>2, <3>1 DEF ConfigFile
    <3>2. CASE p = "prefs"
      BY <2>2, <3>2 DEF ConfigFile
    <3> QED BY <3>1, <3>2 DEF Saves
  <2> HIDE DEF c
  <2> QED BY <2>1, <2>2, <2>3, <2>4, WriteConfigKeeps DEF q
<1> QED BY <1>1, <1>2

LEMMA RestKeeps ==
  ASSUME WorkspaceInv, CacheExpires \/ Edit \/ Reload
  PROVE  WorkspaceInv'
<1>1. /\ dir \in [Folders -> Folder] /\ ChangeOK /\ ConnOK /\ CopiesOK /\ config \in ConfigFile
      /\ cache \in Folders \cup {None} /\ ops \in Nat /\ faults \in Nat
      /\ ProcsOK
  BY HoldsNow DEF WorkspaceInv
<1>2. CASE CacheExpires
  <2>1. FilesOK' /\ ProcsOK' /\ CopiesOK' /\ ChangeOK'
    BY <1>1, <1>2 DEF CacheExpires, FilesOK, ProcsOK, CopiesOK, ChangeOK
  <2> QED BY <1>1, <1>2, <2>1, ConnKept, Zenon DEF WorkspaceInv, CacheExpires
<1>3. CASE Edit
  <2>1. PICK f \in Folders, n \in {"parser", "user"} :
          dir[f][n] = "template" /\ dir' = [dir EXCEPT ![f][n] = "custom"]
    BY <1>3, Zenon DEF Edit
  <2> DEFINE d == [dir[f] EXCEPT ![n] = "custom"]
  <2>3. d \in Folder
    <3>1. dir[f] \in Folder /\ "custom" \in Content
      BY <1>1 DEF Content
    <3> QED BY <3>1, FolderFiles, Zenon
  <2>4. dir' = [g \in Folders |-> IF g = f THEN d ELSE dir[g]]
    BY <1>1, <2>1, Zenon
  <2>5. d.user # "none" => d.exists
    BY <1>1, <2>1, <2>3 DEF Folder, ChangeOK
  <2> HIDE DEF d
  <2>6. FilesOK'
    <3>1. dir' \in [Folders -> Folder]
      BY <1>1, <2>3, <2>4
    <3> QED BY <1>1, <1>3, <3>1 DEF Edit, FilesOK
  <2>7. ProcsOK' /\ CopiesOK'
    BY <1>1, <1>3 DEF Edit, ProcsOK, CopiesOK
  <2>8. proc["change"].at = "idle" /\ proc' = proc
    BY <1>3 DEF Edit, Active, Procs
  <2>9. ChangeOK'
    BY <1>1, <2>4, <2>5, <2>8 DEF ChangeOK
  <2> QED BY <1>1, <1>3, <2>6, <2>7, <2>9, ConnKept DEF WorkspaceInv, Edit
<1>4. CASE Reload
  <2> DEFINE r == [Idle EXCEPT !.at = "raw"]
  <2>0. "activate" \in Procs \ {"change", "scaffold", "connect"} /\ "raw" \in StepsOf("activate")
    BY DEF Procs, StepsOf
  <2>1. Holds("activate", r) /\ r.at = "raw"
    BY <2>0, BeginHolds
  <2> HIDE DEF r
  <2>2. proc' = [p \in Procs |-> IF p = "activate" THEN r ELSE Idle]
    BY <1>4 DEF Reload, r
  <2>3. ProcsOK'
    BY <2>1, <2>2, IdleHolds DEF ProcsOK
  <2>4. \A p \in Writers : proc'[p].at = "idle"
    BY <2>2, IdleHolds DEF Writers, Saves, Procs
  <2>5. FilesOK' /\ CopiesOK'
    BY <1>1, <1>4, <2>4 DEF Reload, FilesOK, CopiesOK
  <2>6. ChangeOK'
    BY <1>1, <1>4, <2>4 DEF Reload, ChangeOK, Writers
  <2> QED BY <1>1, <1>4, <2>3, <2>5, <2>6, ConnKept DEF WorkspaceInv, Reload
<1> QED BY <1>2, <1>3, <1>4

-----------------------------------------------------------------------------
(* The migration of the service configuration. *)

(* A step of the change that leaves config.json and the connections alone. *)
LEMMA ChangeMoved ==
  ASSUME WorkspaceInv, NEW r, Holds("change", r), Move("change", r), r.at # "write",
         UNCHANGED config, dir' \in [Folders -> Folder], ConnOK',
         cache' \in Folders \cup {None}, ops' \in Nat, faults' \in Nat,
         proc'["change"] = r => ChangeOK'
  PROVE  WorkspaceInv'
<1>0. "change" \in Procs
  BY DEF Procs
<1>1. ProcsOK' /\ proc'["change"] = r /\ \A q \in Procs \ {"change"} : proc'[q] = proc[q]
  BY <1>0, Moved, Zenon DEF WorkspaceInv, Move
<1>2. FilesOK'
  BY DEF WorkspaceInv, FilesOK
<1>3. CopiesOK'
  BY <1>1 DEF WorkspaceInv, CopiesOK, Writers, Procs, Saves
<1> QED BY <1>1, <1>2, <1>3 DEF WorkspaceInv

LEMMA ChangeNow ==
  ASSUME WorkspaceInv, NEW step, At("change", step), step # "idle"
  PROVE  /\ dir \in [Folders -> Folder] /\ ChangeOK /\ ConnOK
         /\ cache \in Folders \cup {None} /\ ops \in Nat /\ faults \in Nat
         /\ Holds("change", proc["change"]) /\ proc["change"].at = step
         /\ proc["change"].ws \in Folders /\ proc["change"].to \in Folders
<1>1. "change" \in Procs
  BY DEF Procs
<1> QED BY <1>1, HoldsNow DEF Holds, At

LEMMA UserStatKeeps ==
  ASSUME WorkspaceInv, ChangeUserStat
  PROVE  WorkspaceInv'
<1> DEFINE q == proc["change"]
           own == dir[q.to].user # "none"
           step == IF dir[q.to].user = "none" THEN "userCopy" ELSE "parserStat"
           m == [q EXCEPT !.at = step]
           r == [m EXCEPT !.own = own]
<1>1. /\ dir \in [Folders -> Folder] /\ ChangeOK /\ ConnOK
      /\ cache \in Folders \cup {None} /\ ops \in Nat /\ faults \in Nat
      /\ Holds("change", q) /\ q.at = "userStat" /\ q.ws \in Folders /\ q.to \in Folders
  BY ChangeNow DEF ChangeUserStat
<1>2. Move("change", r) /\ UNCHANGED <<config, dir, conn, cache, active, ops, faults>>
  BY DEF ChangeUserStat, To
<1>3. own \in BOOLEAN /\ step \in {"userCopy", "parserStat"} /\ (step = "userCopy" <=> ~own)
  OBVIOUS
<1> HIDE DEF q
<1>4. own = (dir[q.to].user # "none")
  OBVIOUS
<1> HIDE DEF own, step
<1>5. IsProc(m) /\ m.at = step /\ SameBut(q, m, "at")
  BY <1>1, OneField, Zenon DEF Holds
<1> HIDE DEF m
<1>6. IsProc(r) /\ r.own = own /\ SameBut(m, r, "own")
  BY <1>3, <1>5, OneField, Zenon
<1> HIDE DEF r
<1>7. r.at = step /\ r.ws = q.ws /\ r.to = q.to
  BY <1>5, <1>6 DEF SameBut
<1>8. Holds("change", r)
  BY <1>1, <1>3, <1>6, <1>7 DEF Holds, StepsOf
<1>9. ASSUME proc'["change"] = r PROVE ChangeOK'
  BY <1>1, <1>2, <1>3, <1>4, <1>6, <1>7, <1>9, Zenon DEF ChangeOK, Folder, Content
<1> QED BY <1>1, <1>2, <1>3, <1>7, <1>8, <1>9, ConnKept, ChangeMoved

LEMMA UserCopyKeeps ==
  ASSUME WorkspaceInv, ChangeUserCopy
  PROVE  WorkspaceInv'
<1> DEFINE q == proc["change"]
           r == To("change", "parserStat")
<1>1. /\ dir \in [Folders -> Folder] /\ ChangeOK /\ ConnOK
      /\ cache \in Folders \cup {None} /\ ops \in Nat /\ faults \in Nat
      /\ Holds("change", q) /\ q.at = "userCopy" /\ q.ws \in Folders /\ q.to \in Folders
  BY ChangeNow DEF ChangeUserCopy
<1>2. Move("change", r) /\ UNCHANGED <<config, conn, cache, active, ops>>
  BY DEF ChangeUserCopy
<1>3. IsProc(r) /\ r.at = "parserStat" /\ SameBut(q, r, "at")
  BY <1>1, OneField, ZenonT(40) DEF Holds, To
<1> HIDE DEF r
<1>4. Holds("change", r)
  BY <1>1, <1>3 DEF Holds, SameBut, StepsOf
<1>5. dir[q.ws].user \in Content
  BY <1>1 DEF Folder
<1>6. ASSUME Works, NEW c \in Content \ {"none"}, Written(q.to, "user", c),
             dir[q.ws].user = "custom" => c = "custom"
      PROVE  WorkspaceInv'
  <2>1. /\ dir' \in [Folders -> Folder] /\ dir'[q.to].exists /\ dir'[q.to].user = c
        /\ \A g \in Folders \ {q.to} : dir'[g] = dir[g]
    BY <1>1, <1>6, WrittenFolder, Zenon
  <2>2. ASSUME proc'["change"] = r PROVE ChangeOK'
    BY <1>1, <1>3, <1>6, <2>1, <2>2 DEF ChangeOK, SameBut
  <2> QED BY <1>1, <1>2, <1>3, <1>4, <1>6, <2>1, <2>2, ConnKept, ChangeMoved, Zenon DEF Works
<1>7. ASSUME Fails, Written(q.to, "user", "template") \/ UNCHANGED dir
      PROVE  WorkspaceInv'
  <2>0. faults' \in Nat \ {0}
    BY <1>1, <1>7 DEF Fails
  <2>1. /\ dir' \in [Folders -> Folder]
        /\ \A g \in Folders : dir'[g].user # "none" => dir'[g].exists
    <3>1. CASE UNCHANGED dir
      BY <1>1, <3>1 DEF ChangeOK
    <3>2. CASE Written(q.to, "user", "template")
      <4>1. "template" \in Content
        BY DEF Content
      <4> QED BY <1>1, <3>2, <4>1, WrittenFolder DEF ChangeOK
    <3> QED BY <1>7, <3>1, <3>2
  <2>2. ASSUME proc'["change"] = r PROVE ChangeOK'
    BY <1>3, <2>0, <2>1, <2>2 DEF ChangeOK
  <2> QED BY <1>1, <1>2, <1>3, <1>4, <2>0, <2>1, <2>2, ConnKept, ChangeMoved
<1> DEFINE from == dir[q.ws].user
           c == IF from = "none" THEN "template" ELSE from
<1>8. c \in Content \ {"none"} /\ (from = "custom" => c = "custom")
  BY <1>5 DEF Content
<1>9. \/ Works /\ Written(q.to, "user", c)
      \/ Fails /\ Written(q.to, "user", "template")
      \/ Fails /\ UNCHANGED dir
  BY DEF ChangeUserCopy
<1> HIDE DEF c
<1> QED BY <1>6, <1>7, <1>8, <1>9

LEMMA ParserStatKeeps ==
  ASSUME WorkspaceInv, ChangeParserStat
  PROVE  WorkspaceInv'
<1> DEFINE q == proc["change"]
           seen == dir[q.to].exists
           old == dir[q.ws].exists
           m == [q EXCEPT !.at = "copy"]
           n == [m EXCEPT !.seen = seen]
           r == [n EXCEPT !.old = old]
<1>1. /\ dir \in [Folders -> Folder] /\ ChangeOK /\ ConnOK
      /\ cache \in Folders \cup {None} /\ ops \in Nat /\ faults \in Nat
      /\ Holds("change", q) /\ q.at = "parserStat" /\ q.ws \in Folders /\ q.to \in Folders
  BY ChangeNow DEF ChangeParserStat
<1>2. /\ Move("change", r) /\ UNCHANGED <<config, conn, cache, active, ops, faults>>
      /\ dir' = [dir EXCEPT ![q.to].exists = TRUE]
  BY DEF ChangeParserStat, To
<1>3. Gentle /\ dir'[q.to].exists
  BY <1>1, <1>2, ExistsIsGentle, Zenon
<1>4. seen \in BOOLEAN /\ old \in BOOLEAN
  BY <1>1 DEF Folder
<1>12. faults = 0 => /\ dir[q.to].user # "none" /\ dir[q.to].exists
                     /\ ~q.own /\ dir[q.ws].user = "custom" => dir[q.to].user = "custom"
  BY <1>1 DEF ChangeOK
<1> HIDE DEF q
<1>5. seen = dir[q.to].exists
  OBVIOUS
<1> HIDE DEF seen, old
<1>6. IsProc(m) /\ m.at = "copy" /\ SameBut(q, m, "at")
  BY <1>1, OneField, Zenon DEF Holds
<1> HIDE DEF m
<1>7. IsProc(n) /\ n.seen = seen /\ SameBut(m, n, "seen")
  BY <1>4, <1>6, OneField, Zenon
<1> HIDE DEF n
<1>8. IsProc(r) /\ SameBut(n, r, "old")
  BY <1>4, <1>7, OneField, Zenon
<1> HIDE DEF r
<1>9. r.at = "copy" /\ r.ws = q.ws /\ r.to = q.to /\ r.own = q.own /\ r.seen = seen
  BY <1>6, <1>7, <1>8 DEF SameBut
<1>10. Holds("change", r)
  BY <1>1, <1>8, <1>9 DEF Holds, StepsOf
<1>11. ASSUME proc'["change"] = r PROVE ChangeOK'
  <2>1. faults' = faults /\ \A f \in Folders : dir[f].user # "none" => dir[f].exists
    BY <1>1, <1>2 DEF ChangeOK
  <2>2. \A f \in Folders : dir'[f].user # "none" => dir'[f].exists
    BY <1>3 DEF Gentle
  <2>3. dir'[q.to].user = dir[q.to].user /\ dir'[q.ws].user = dir[q.ws].user
    BY <1>1, <1>2
  <2>4. ASSUME faults = 0
        PROVE  /\ dir'[q.to].user # "none" /\ seen
               /\ ~q.own /\ dir'[q.ws].user = "custom" => dir'[q.to].user = "custom"
    BY <1>5, <1>12, <2>3, <2>4
  <2> QED BY <1>3, <1>9, <1>11, <2>1, <2>2, <2>4 DEF ChangeOK
<1> QED BY <1>1, <1>2, <1>3, <1>9, <1>10, <1>11, ConnKept, ChangeMoved, Zenon DEF Gentle

LEMMA CopyKeeps ==
  ASSUME WorkspaceInv, ChangeCopy
  PROVE  WorkspaceInv'
<1> DEFINE q == proc["change"]
           r == To("change", "remove")
<1>1. /\ dir \in [Folders -> Folder] /\ ChangeOK /\ ConnOK
      /\ cache \in Folders \cup {None} /\ ops \in Nat /\ faults \in Nat
      /\ Holds("change", q) /\ q.at = "copy" /\ q.ws \in Folders /\ q.to \in Folders
  BY ChangeNow DEF ChangeCopy
<1>2. UNCHANGED <<config, cache, active, ops>>
  BY DEF ChangeCopy
<1>3. IsProc(r) /\ r.at = "remove" /\ SameBut(q, r, "at")
  BY <1>1, OneField, ZenonT(40) DEF Holds, To
<1>4. Holds("change", r)
  <2> HIDE DEF r
  <2> QED BY <1>1, <1>3 DEF Holds, SameBut, StepsOf
<1>5. ASSUME Works, q.seen, UNCHANGED <<dir, conn>>, Move("change", r)
      PROVE  WorkspaceInv'
  <2> HIDE DEF r
  <2>1. ASSUME proc'["change"] = r PROVE ChangeOK'
    BY <1>1, <1>3, <1>5, <2>1, Zenon DEF ChangeOK, SameBut, Works
  <2> QED BY <1>1, <1>2, <1>3, <1>4, <1>5, <2>1, ConnKept, ChangeMoved DEF Works
<1>6. ASSUME Works, ~q.seen, Move("change", r),
             \/ copyDir(q.ws, q.to)
             \/ Written(q.to, "parser", "template") /\ UNCHANGED conn
      PROVE  WorkspaceInv'
  <2>0. faults # 0 /\ faults' = faults
    BY <1>1, <1>6 DEF ChangeOK, Works
  <2>1. /\ dir' \in [Folders -> Folder] /\ ConnOK' /\ dir'[q.to].exists
        /\ \A g \in Folders : dir'[g].user # "none" => dir'[g].exists
    <3>1. CASE copyDir(q.ws, q.to)
      <4> DEFINE m == [dir[q.to] EXCEPT !.parser = dir[q.ws].parser]
                 d == [m EXCEPT !.user = dir[q.ws].user]
      <4>1. dir' = [g \in Folders |-> IF g = q.to THEN d ELSE dir[g]]
        BY <1>1, <3>1, Zenon DEF copyDir
      <4>2. m \in Folder /\ m.exists = dir[q.to].exists
        BY <1>1 DEF Folder
      <4> HIDE DEF m
      <4>3. d \in Folder /\ d.exists = m.exists
        BY <1>1, <4>2 DEF Folder
      <4> HIDE DEF d
      <4>4. dir[q.to].exists
        BY <1>1 DEF ChangeOK
      <4>5. conn[q.ws] = Broken \/ Sane(conn[q.ws])
        BY <1>1 DEF ConnOK
      <4>6. ConnOK'
        BY <1>1, <3>1, <4>5, OneConn, Zenon DEF copyDir
      <4> QED BY <1>1, <4>1, <4>2, <4>3, <4>4, <4>6, Zenon DEF ChangeOK
    <3>2. CASE Written(q.to, "parser", "template") /\ UNCHANGED conn
      <4>1. "template" \in Content
        BY DEF Content
      <4> QED BY <1>1, <3>2, <4>1, ConnKept, WrittenFolder DEF ChangeOK
    <3> QED BY <1>6, <3>1, <3>2
  <2> HIDE DEF r
  <2>2. ASSUME proc'["change"] = r PROVE ChangeOK'
    BY <1>3, <2>0, <2>1, <2>2 DEF ChangeOK, SameBut
  <2> QED BY <1>1, <1>2, <1>3, <1>4, <1>6, <2>0, <2>1, <2>2, ChangeMoved, Zenon
<1>7. ASSUME Fails, Move("change", Idle), UNCHANGED <<dir, conn>>
      PROVE  WorkspaceInv'
  <2>1. faults' \in Nat /\ "change" \in Procs
    BY <1>1, <1>7 DEF Fails, Procs
  <2>2. ASSUME proc'["change"] = Idle PROVE ChangeOK'
    BY <1>1, <1>7, <2>2, IdleHolds, <2>1 DEF ChangeOK
  <2> QED BY <1>1, <1>2, <1>7, <2>1, <2>2, ConnKept, IdleHolds, ChangeMoved
<1> QED BY <1>5, <1>6, <1>7 DEF ChangeCopy

LEMMA RemoveKeeps ==
  ASSUME WorkspaceInv, ChangeRemove
  PROVE  WorkspaceInv'
<1> DEFINE q == proc["change"]
<1>0. "change" \in Procs
  BY DEF Procs
<1>1. /\ dir \in [Folders -> Folder] /\ ChangeOK /\ ConnOK
      /\ cache \in Folders \cup {None} /\ ops \in Nat /\ faults \in Nat
      /\ q.ws \in Folders
  BY ChangeNow DEF ChangeRemove
<1>2. Move("change", Idle) /\ UNCHANGED <<config, cache, active, ops>> /\ faults' \in Nat
  BY <1>1 DEF ChangeRemove, Works, Fails
<1>3. \/ /\ dir' = [dir EXCEPT ![q.ws] = [Bare EXCEPT !.raw = dir[q.ws].raw]]
         /\ conn' = [conn EXCEPT ![q.ws] = NoConn]
      \/ UNCHANGED <<dir, conn>>
  BY DEF ChangeRemove
<1>4. /\ dir' \in [Folders -> Folder] /\ ConnOK'
      /\ \A g \in Folders : dir'[g].user # "none" => dir'[g].exists
  <2>1. CASE UNCHANGED <<dir, conn>>
    BY <1>1, <2>1, ConnKept DEF ChangeOK
  <2>2. ASSUME dir' = [dir EXCEPT ![q.ws] = [Bare EXCEPT !.raw = dir[q.ws].raw]],
               conn' = [conn EXCEPT ![q.ws] = NoConn]
        PROVE  /\ dir' \in [Folders -> Folder] /\ ConnOK'
               /\ \A g \in Folders : dir'[g].user # "none" => dir'[g].exists
    <3> DEFINE d == [Bare EXCEPT !.raw = dir[q.ws].raw]
    <3>0. d \in Folder /\ d.user = "none"
      BY <1>1, Zenon DEF Bare, Folder, Content
    <3>1. Sane(NoConn)
      BY WorkspaceAssumption DEF Sane, NoConn, Ordered
    <3>2. ConnOK'
      BY <1>1, <2>2, <3>1, OneConn, Zenon
    <3>3. dir' = [g \in Folders |-> IF g = q.ws THEN d ELSE dir[g]]
      BY <1>1, <2>2, Zenon
    <3> HIDE DEF d
    <3> QED BY <1>1, <3>0, <3>2, <3>3 DEF ChangeOK
  <2> QED BY <1>3, <2>1, <2>2
<1> HIDE DEF q
<1>5. ASSUME proc'["change"] = Idle PROVE ChangeOK'
  BY <1>0, <1>4, <1>5, IdleHolds DEF ChangeOK
<1> QED BY <1>0, <1>1, <1>2, <1>4, <1>5, IdleHolds, ChangeMoved

-----------------------------------------------------------------------------
(* The invariant. *)

LEMMA ConnectionsAreSane ==
  ASSUME NEW c \in Connections
  PROVE  Sane(c)
<1>1. Sane(NoConn)
  BY WorkspaceAssumption DEF Sane, NoConn, Ordered
<1>2. ASSUME NEW s \in [1 .. MaxConnections -> Ids],
             \A i, j \in DOMAIN s : i # j => s[i] # s[j],
             c = [list |-> [i \in DOMAIN s |-> [id |-> s[i], used |-> Len(s) + 1 - i]],
                  recent |-> s[1]]
      PROVE  Sane(c)
  <2>1. /\ MaxConnections \in Nat \ {0} /\ s \in Seq(Ids) /\ Len(s) = MaxConnections
        /\ DOMAIN s = 1 .. MaxConnections
    BY WorkspaceAssumption
  <2> DEFINE l == [i \in 1 .. MaxConnections |-> [id |-> s[i], used |-> MaxConnections + 1 - i]]
  <2>2. c.list = l /\ c.recent = s[1] /\ c = [list |-> c.list, recent |-> c.recent]
    BY <1>2, <2>1
  <2>3. \A i \in 1 .. MaxConnections : MaxConnections + 1 - i \in Nat /\ s[i] \in Ids
    BY <2>1
  <2>4. \A i \in 1 .. MaxConnections : l[i] \in Entry /\ l[i].id = s[i]
                                       /\ l[i].used = MaxConnections + 1 - i
    BY <2>3 DEF Entry
  <2>5. l \in Seq(Entry) /\ DOMAIN l = 1 .. MaxConnections /\ Len(l) = MaxConnections
    BY <2>1, <2>4
  <2> HIDE DEF l
  <2>6. Ordered(l)
    BY <1>2, <2>1, <2>4, <2>5 DEF Ordered
  <2>7. l # <<>> /\ l[1].id = s[1] /\ s[1] \in Ids
    BY <2>1, <2>3, <2>4, <2>5
  <2> QED BY <2>1, <2>2, <2>5, <2>6, <2>7 DEF Sane
<1> QED BY <1>1, <1>2, Zenon DEF Connections

LEMMA InitKeeps ==
  ASSUME Init
  PROVE  WorkspaceInv
<1> USE WorkspaceAssumption
<1>1. PICK u \in {"none", "custom"}, c \in Connections :
        /\ dir = [f \in Folders |->
                   IF f = Default
                   THEN [exists |-> u # "none" \/ c # NoConn, parser |-> u,
                         user |-> u, raw |-> TRUE]
                   ELSE Bare]
        /\ conn = [f \in Folders |-> IF f = Default THEN c ELSE NoConn]
  BY Zenon DEF Init
<1>2. FilesOK
  <2>1. config \in ConfigFile
    BY DEF Init, ConfigFile
  <2>2. Bare \in Folder
    BY DEF Bare, Folder, Content
  <2>3. [exists |-> u # "none" \/ c # NoConn, parser |-> u, user |-> u, raw |-> TRUE] \in Folder
    BY DEF Folder, Content
  <2>4. dir \in [Folders -> Folder]
    BY <1>1, <2>2, <2>3
  <2> QED BY <2>1, <2>4, Zenon DEF Init, FilesOK
<1>3. ConnOK
  <2>1. Sane(NoConn) /\ Sane(c)
    BY ConnectionsAreSane DEF Connections
  <2> QED BY <1>1, <2>1 DEF ConnOK
<1>4. /\ \A p \in Procs \ {"activate"} : proc[p] = Idle
      /\ proc["activate"] = [Idle EXCEPT !.at = "raw"]
      /\ proc = [p \in Procs |-> proc[p]]
  BY DEF Init, Procs
<1>5. ProcsOK
  <2>1. Holds("activate", proc["activate"])
    <3>1. "activate" \in Procs \ {"change", "scaffold", "connect"} /\ "raw" \in StepsOf("activate")
      BY DEF Procs, StepsOf
    <3> QED BY <1>4, <3>1, BeginHolds
  <2> QED BY <1>4, <2>1, IdleHolds DEF ProcsOK
<1>6. \A p \in Writers : proc[p].at = "idle"
  BY <1>4 DEF Writers, Saves, Procs, Idle
<1>7. CopiesOK
  BY <1>6 DEF CopiesOK
<1>8. ChangeOK
  <2>1. \A f \in Folders : dir[f].user # "none" => dir[f].exists
    BY <1>1, Zenon DEF Bare
  <2> QED BY <1>6, <2>1 DEF ChangeOK, Writers
<1> QED BY <1>2, <1>3, <1>5, <1>7, <1>8 DEF WorkspaceInv

LEMMA NextKeeps ==
  ASSUME WorkspaceInv, [Next]_vars
  PROVE  WorkspaceInv'
<1>1. CASE ActivateRaw \/ ActivateSeed \/ InitWorkspace \/ ScaffoldLook \/ writeFromTemplate
  BY <1>1, ActivateKeeps, InitWorkspaceKeeps, ScaffoldKeeps
<1>2. CASE \E p \in Saves : Save(p) \/ SaveWrite(p)
  BY <1>2, SaveKeeps, WritesKeep
<1>3. CASE \E p \in Saves \cup {"change"} : ReadConfig(p)
  BY <1>3, ReadConfigKeeps DEF Writers
<1>4. CASE ConnectOpen \/ ConnectPick \/ ConnectCancel \/ ConnectSaved \/ LoadRecent \/ SetRecent
  BY <1>4, ConnectOpenKeeps, ConnectPickKeeps, ConnectionKeeps, ConnectSavedKeeps, LoadRecentKeeps
<1>5. CASE Edit \/ Reload
  BY <1>5, RestKeeps
<1>6. CASE Change
  BY <1>6, RestKeeps, PickKeeps, WritesKeep, ChangeNextKeeps, UserStatKeeps, UserCopyKeeps,
     ParserStatKeeps, CopyKeeps, RemoveKeeps, Zenon DEF Change
<1>7. CASE UNCHANGED vars
  BY <1>7 DEF vars, WorkspaceInv, FilesOK, ProcsOK, ConnOK, CopiesOK, ChangeOK
<1> QED BY <1>1, <1>2, <1>3, <1>4, <1>5, <1>6, <1>7 DEF Next

(* The invariant of the workspace's files: the connections are in order    *)
(* in every file and in the dialog that is open, a writer of config.json   *)
(* that nobody overtook holds what the file says, and a change of          *)
(* workspace has taken the user's service configuration along by the time  *)
(* it removes the old folder (connection-config.ts, userdata.ts,           *)
(* CommandHandlersWorkspace.ts).                                           *)
THEOREM WorkspaceInvariant == Spec => []WorkspaceInv
<1>1. Init => WorkspaceInv
  BY InitKeeps
<1>2. WorkspaceInv /\ [Next]_vars => WorkspaceInv'
  BY NextKeeps
<1> QED BY <1>1, <1>2, PTL DEF Spec

(* ConnectionsSane for any limit and any number of devices: the file       *)
(* upsertConnection and markRecent leave holds one entry a device, most    *)
(* recent first, at most MAX_CONNECTIONS of them, and the recent one is    *)
(* the first.                                                              *)
THEOREM SavedConnectionsSane == Spec => []ConnectionsSane
<1>1. WorkspaceInv => ConnectionsSane
  BY Zenon DEF WorkspaceInv, ConnOK, ConnectionsSane, Sane, Ordered
<1> QED BY <1>1, WorkspaceInvariant, PTL

-----------------------------------------------------------------------------
(* What a step may never do. *)

(* A configuration the user has changed stays where it is. *)
UserStays == \A f \in Folders : dir[f].user = "custom" => dir'[f].user = "custom"

LEMMA GentleStays ==
  ASSUME Gentle
  PROVE  UserStays
  BY DEF Gentle, UserStays

LEMMA UserStaysElsewhere ==
  ASSUME WorkspaceInv, Next, ~ChangeUserCopy, ~ChangeCopy, ~ChangeRemove
  PROVE  UserStays
<1>1. /\ dir \in [Folders -> Folder] /\ ChangeOK /\ Resolve \in Folders
      /\ "template" \in Content /\ "parser" # "user"
  BY HoldsNow DEF Content
<1>2. \A p \in Procs : Holds(p, proc[p])
  BY DEF WorkspaceInv, ProcsOK
<1>3. CASE ActivateRaw \/ ChangeNext
  BY <1>1, <1>3, RawIsGentle, GentleStays DEF ActivateRaw, ChangeNext
<1>4. CASE ActivateSeed \/ InitWorkspace
  <2>1. CASE \E name \in {"parser", "user"} : SeedFile(name)
    BY <2>1, SeedIsGentle, GentleStays
  <2>2. CASE Written(Resolve, "parser", "template")
    BY <1>1, <2>2, WrittenIsGentle, GentleStays
  <2> QED BY <1>4, <2>1, <2>2 DEF ActivateSeed, InitWorkspace, ensureParserConfigExists,
                                 ensureUserConfigExists
<1>5. CASE writeFromTemplate
  <2>1. proc["scaffold"].ws \in Folders
    BY <1>2, <1>5 DEF writeFromTemplate, At, Holds, Procs
  <2>2. CASE Written(proc["scaffold"].ws, "parser", "template")
    BY <1>1, <2>1, <2>2, WrittenIsGentle, GentleStays
  <2> QED BY <1>5, <2>2 DEF writeFromTemplate, UserStays
<1>6. CASE ChangeParserStat
  <2>1. proc["change"].to \in Folders
    BY <1>2, <1>6 DEF ChangeParserStat, At, Holds, Procs
  <2>2. dir' = [dir EXCEPT ![proc["change"].to].exists = TRUE]
    BY <1>6 DEF ChangeParserStat
  <2> QED BY <1>1, <2>1, <2>2, ExistsIsGentle, GentleStays, Zenon
<1>7. CASE ConnectOpen \/ LoadRecent
  BY <1>1, <1>7, ExistsIsGentle, GentleStays DEF ConnectOpen, LoadRecent, ReadConnections
<1>8. CASE ConnectPick \/ ConnectSaved
  <2> DEFINE f == proc["connect"].ws
  <2>1. f \in Folders
    BY <1>2, <1>8 DEF ConnectPick, ConnectSaved, At, Holds, Procs
  <2>2. dir' = [dir EXCEPT ![f].exists = TRUE]
    BY <1>8, Zenon DEF ConnectPick, ConnectSaved
  <2> HIDE DEF f
  <2> QED BY <1>1, <2>1, <2>2, ExistsIsGentle, GentleStays, Zenon
<1>9. CASE Edit
  <2>1. PICK f \in Folders, n \in {"parser", "user"} :
          dir[f][n] = "template" /\ dir' = [dir EXCEPT ![f][n] = "custom"]
    BY <1>9, Zenon DEF Edit
  <2>2. \A g \in Folders \ {f} : dir'[g] = dir[g]
    BY <1>1, <2>1
  <2>3. dir'[f] = [dir[f] EXCEPT ![n] = "custom"] /\ dir[f] \in Folder
    BY <1>1, <2>1
  <2>4. dir'[f].user = "custom" \/ dir'[f].user = dir[f].user
    BY <2>3 DEF Folder
  <2> QED BY <2>2, <2>4 DEF UserStays
<1>10. CASE UNCHANGED dir
  BY <1>10 DEF UserStays
<1>11. CASE Change
  BY <1>3, <1>6, <1>10, <1>11, Zenon
     DEF Change, CacheExpires, ChangePick, ChangeWrite, ChangeUserStat
<1>12. CASE \/ ScaffoldLook \/ ConnectCancel \/ SetRecent \/ Reload
            \/ \E p \in Saves : Save(p) \/ SaveWrite(p)
            \/ \E p \in Saves \cup {"change"} : ReadConfig(p)
  BY <1>10, <1>12, Zenon DEF ScaffoldLook, ConnectCancel, SetRecent, Reload, Save, SaveWrite, ReadConfig
<1> QED BY <1>3, <1>4, <1>5, <1>7, <1>8, <1>9, <1>11, <1>12 DEF Next

LEMMA ChangeKeepsUser ==
  ASSUME WorkspaceInv, ChangeUserCopy \/ ChangeCopy \/ ChangeRemove, faults' = 0,
         ~proc["change"].own, NEW f \in Folders, dir[f].user = "custom"
  PROVE  \E g \in Folders : dir'[g].user = "custom"
<1> DEFINE q == proc["change"]
<1>1. /\ dir \in [Folders -> Folder] /\ ChangeOK /\ faults \in Nat
      /\ q.ws \in Folders /\ q.to \in Folders
  BY ChangeNow DEF ChangeUserCopy, ChangeCopy, ChangeRemove
<1>2. ~Fails
  BY <1>1 DEF Fails
<1>3. faults = 0 /\ q.at \in {"copy", "remove"} =>
        q.seen /\ (dir[q.ws].user = "custom" => dir[q.to].user = "custom")
  BY <1>1 DEF ChangeOK
<1>4. q.at = "userCopy" => dir[q.to].user # "custom"
  BY <1>1 DEF ChangeOK
<1>5. CASE ChangeUserCopy
  <2> DEFINE from == dir[q.ws].user
             c == IF from = "none" THEN "template" ELSE from
  <2>1. c \in Content \ {"none"}
    BY <1>1 DEF Folder, Content
  <2>2. Written(q.to, "user", c) /\ q.at = "userCopy"
    BY <1>2, <1>5 DEF ChangeUserCopy, At
  <2> HIDE DEF c, q
  <2>3. \A g \in Folders \ {q.to} : dir'[g] = dir[g]
    BY <1>1, <2>1, <2>2, WrittenFolder
  <2> QED BY <1>4, <2>2, <2>3
<1>6. CASE ChangeCopy
  <2>1. q.at = "copy" /\ faults = 0
    BY <1>2, <1>6 DEF ChangeCopy, At, Works
  <2>2. UNCHANGED dir
    BY <1>2, <1>3, <1>6, <2>1 DEF ChangeCopy
  <2> QED BY <2>2
<1>7. CASE ChangeRemove
  <2>1. q.at = "remove" /\ faults = 0
    BY <1>2, <1>7 DEF ChangeRemove, At, Works
  <2>2. \/ UNCHANGED dir
        \/ q.ws # q.to /\ dir' = [dir EXCEPT ![q.ws] = [Bare EXCEPT !.raw = dir[q.ws].raw]]
    BY <1>7 DEF ChangeRemove
  <2>3. CASE q.ws # q.to /\ dir' = [dir EXCEPT ![q.ws] = [Bare EXCEPT !.raw = dir[q.ws].raw]]
    <3>1. \A g \in Folders \ {q.ws} : dir'[g] = dir[g]
      BY <1>1, <2>3
    <3>2. CASE f = q.ws
      BY <1>1, <1>3, <2>1, <2>3, <3>1, <3>2
    <3> QED BY <3>1, <3>2
  <2> QED BY <2>2, <2>3
<1> QED BY <1>5, <1>6, <1>7

(* UserConfigKept for any folders and any number of changes: as long as no *)
(* file operation fails, the last service configuration that the user has  *)
(* changed is not lost by migrateUserConfigIfNeeded and the removal after  *)
(* migrateParserConfigIfNeeded, wherever the window closes in between.     *)
THEOREM UserConfigStays == Spec => UserConfigKept
<1> DEFINE A == (/\ faults' = 0
                 /\ \E f \in Folders : dir[f].user = "custom"
                 /\ \A f \in Folders : dir'[f].user # "custom")
                => proc["change"].own
<1>1. WorkspaceInv /\ [Next]_vars => [A]_vars
  <2> SUFFICES ASSUME WorkspaceInv, Next, faults' = 0, ~proc["change"].own,
                      NEW f \in Folders, dir[f].user = "custom"
               PROVE  \E g \in Folders : dir'[g].user = "custom"
    OBVIOUS
  <2> QED BY UserStaysElsewhere, ChangeKeepsUser DEF UserStays
<1> QED BY <1>1, WorkspaceInvariant, PTL DEF Spec, UserConfigKept

LEMMA WriteKeepsOthers ==
  ASSUME WorkspaceInv, NEW p \in Writers, At(p, "write"), ~proc[p].dirty,
         proc'[p].at \in {"next", "idle"}, NEW q \in Writers, NEW own, NEW v,
         At(q, "write"), WriteConfig(q, [proc[q].copy EXCEPT ![own] = v]),
         own = (IF q = "change" THEN "ws" ELSE q),
         NEW x \in DOMAIN config \ {IF p = "change" THEN "ws" ELSE p}
  PROVE  config'[x] = config[x]
<1>1. /\ p \in Procs /\ IsProc(proc[p]) /\ config \in ConfigFile
      /\ proc[p].copy = config
  BY DEF WorkspaceInv, ProcsOK, Holds, CopiesOK, FilesOK, Writers, Saves, Procs, At
<1>2. q = p
  <2>1. SUFFICES ASSUME q # p PROVE FALSE
    OBVIOUS
  <2>2. proc'[p] = [proc[p] EXCEPT !.dirty = TRUE]
    BY <1>1, <2>1 DEF WriteConfig
  <2>3. proc'[p].at = "write"
    BY <1>1, <2>2, OneField DEF SameBut, At
  <2> QED BY <2>3
<1>3. config' = [config EXCEPT ![own] = v]
  BY <1>1, <1>2 DEF WriteConfig
<1> QED BY <1>1, <1>2, <1>3 DEF ConfigFile

(* OtherSettingsKept for any interleaving of the three writers of          *)
(* config.json: writeEdgePanelState, writeLogViewerPrefs and               *)
(* changeWorkspaceBaseDir leave the settings of the others alone unless    *)
(* another write came between their reading and their writing.             *)
THEOREM OtherSettingsStay == Spec => OtherSettingsKept
<1> DEFINE A == \A p \in Saves \cup {"change"} :
                  At(p, "write") /\ ~proc[p].dirty /\ proc'[p].at \in {"next", "idle"}
                  /\ ~Active("activate")'
                  => \A x \in DOMAIN config \ {IF p = "change" THEN "ws" ELSE p} :
                       config'[x] = config[x]
<1>1. WorkspaceInv /\ [Next]_vars => [A]_vars
  <2> SUFFICES ASSUME WorkspaceInv, Next, NEW p \in Writers,
                      At(p, "write"), ~proc[p].dirty, proc'[p].at \in {"next", "idle"},
                      NEW x \in DOMAIN config \ {IF p = "change" THEN "ws" ELSE p}
               PROVE  config'[x] = config[x]
    BY DEF Writers
  <2>1. CASE ChangeWrite
    <3>1. "change" \in Writers /\ At("change", "write")
          /\ WriteConfig("change", [proc["change"].copy EXCEPT !["ws"] = proc["change"].to])
      BY <2>1 DEF ChangeWrite, Writers
    <3> QED BY <3>1, WriteKeepsOthers
  <2>2. CASE \E q \in Saves : SaveWrite(q)
    <3>1. PICK q \in Saves : SaveWrite(q)
      BY <2>2
    <3>2. q \in Writers /\ q # "change" /\ At(q, "write")
          /\ WriteConfig(q, [proc[q].copy EXCEPT ![q] = 1 - proc[q].copy[q]])
      BY <3>1 DEF SaveWrite, Writers, Saves
    <3> QED BY <3>2, WriteKeepsOthers, Zenon
  <2>3. CASE UNCHANGED config
    BY <2>3
  <2>4. CASE Change
    BY <2>1, <2>3, <2>4, Zenon DEF Change, CacheExpires, ChangePick, ChangeNext, ChangeUserStat,
       ChangeUserCopy, ChangeParserStat, ChangeCopy, ChangeRemove
  <2>5. CASE ActivateRaw \/ ActivateSeed \/ InitWorkspace \/ ScaffoldLook \/ writeFromTemplate
    BY <2>3, <2>5 DEF ActivateRaw, ActivateSeed, InitWorkspace, ScaffoldLook, writeFromTemplate,
       ensureParserConfigExists, ensureUserConfigExists, SeedFile
  <2>6. CASE \/ ConnectOpen \/ ConnectPick \/ ConnectCancel \/ ConnectSaved
             \/ LoadRecent \/ SetRecent \/ Edit \/ Reload
    BY <2>3, <2>6 DEF ConnectOpen, ConnectPick, ConnectCancel, ConnectSaved,
       LoadRecent, SetRecent, Edit, Reload
  <2>7. CASE \/ \E q \in Saves : Save(q)
             \/ \E q \in Saves \cup {"change"} : ReadConfig(q)
    BY <2>3, <2>7, Zenon DEF Save, ReadConfig
  <2> QED BY <2>2, <2>4, <2>5, <2>6, <2>7 DEF Next
<1> QED BY <1>1, WorkspaceInvariant, PTL DEF Spec, OtherSettingsKept
=============================================================================
