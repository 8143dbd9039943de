--------------------------- MODULE EdgePanelProofs ---------------------------
(***************************************************************************)
(* Proofs about the edge panel, for any number of files, folders and       *)
(* events: whatever happens while a listing or a message is on its way,    *)
(* the tree ends up as the folder is and the log as the ring buffer is.    *)
(***************************************************************************)
EXTENDS EdgePanel, TLAPS

USE SMTT(30), Zenon   \* of every step that names no prover: SMT with 30 s, then Zenon

-----------------------------------------------------------------------------
(* The inductive invariant. *)

(* What is sent to the webview and to the host. *)
Resets == {"root.changed", "initState"}    \* the tree is emptied and asked for
Asks == Resets \cup {"explorer.ok"}        \* the webview asks for a list
Lists == {"explorer.list", "workspace.ensure"}
Clears == {"initState", "cleared"}         \* the log begins anew
Carries == {"initState", "appendLog"}      \* the log gets lines
LogTypes == Clears \cup Carries

Items == (SUBSET Names) \cup {None}
ViewMsgs ==
  [type : Carries, lines : Seq(Nat)] \cup [type : {"list.result"}, items : Items]
  \cup [type : {"root.changed", "cleared", "explorer.ok", "explorer.error", "ui.toggleExplorer"}]
HostMsgs ==
  [type : {"explorer.create", "explorer.delete"}, name : Names]
  \cup [type : {"explorer.list", "workspace.ensure", "ui.ready", "debuglog.clear"}]
Reads == [ws : Spaces, items : Items, coalesced : BOOLEAN]
Hosts ==
  [alive : BOOLEAN, info : Spaces \cup {None}, watch : Spaces \cup {None}, timer : BOOLEAN,
   inflight : BOOLEAN, pending : BOOLEAN, again : Nat, reads : Seq(Reads),
   resolving : Nat, posting : Nat, initing : Nat, sent : BOOLEAN]
Views ==
  [ready : BOOLEAN, root : BOOLEAN, items : Items, explorer : BOOLEAN, log : Seq(Nat)]
Loggers ==
  [buffer : Seq(Nat), sink : BOOLEAN, bound : BOOLEAN, next : Nat,
   flush : Seq(Nat), batch : Seq(Nat), ring : Seq(Nat)]

TypeInv ==
  /\ disk \in [Spaces -> SUBSET Names] /\ ws \in Spaces
  /\ host \in Hosts /\ view \in Views /\ logger \in Loggers
  /\ fs \in BOOLEAN /\ lost \in BOOLEAN /\ events \in Nat
  /\ toView \in Seq(ViewMsgs) /\ toHost \in Seq(HostMsgs)

(* A message of one of the types T waits in the queue q. *)
Has(q, T) == \E k \in 1..Len(q) : q[k].type \in T

(* A message k of q after which none of the types T comes. *)
LastOf(q, k, T) == k \in 1..Len(q) /\ \A j \in 1..Len(q) : j > k => q[j].type \notin T

(* A closed view has no bridge, no sink and no messages. *)
ClosedInv ==
  ~host.alive => /\ host = NoHost /\ view = NoView /\ ~fs
                 /\ toView = <<>> /\ toHost = <<>> /\ ~logger.sink

(* The bridge watches the folder it lists; a pending refresh waits for a   *)
(* listing; a page that is ready has asked for the state, and its tree has *)
(* a root once that has come.                                              *)
HostInv ==
  /\ host.info # None => host.watch = host.info
  /\ host.sent => host.info # None \/ host.resolving > 0 \/ host.initing > 0
  /\ host.pending => host.inflight
  /\ host.inflight => \E i \in 1..Len(host.reads) : host.reads[i].coalesced
  /\ view.ready /\ ~host.sent => Has(toHost, {"ui.ready"})
  /\ host.sent /\ ~view.root => host.initing > 0 \/ Has(toView, Resets)

(* Something on its way makes the bridge list its folder again. *)
Busy(h) ==
  \/ ~h.sent \/ h.initing > 0 \/ h.resolving > 0 \/ h.posting > 0
  \/ h.timer \/ h.again > 0 \/ h.pending
Coming == Busy(host) \/ fs \/ Has(toView, Asks) \/ Has(toHost, Lists)

(* With the messages q still to come, a tree of the items v will show d. *)
Shows(q, v, d) ==
  \/ \E k \in 1..Len(q) : LastOf(q, k, {"list.result"}) /\ q[k].type = "list.result" /\ q[k].items = d
  \/ v = d /\ ~Has(q, {"list.result"})

(* The last listing that is under way has read, or will read, what is on   *)
(* disk now; or the webview has, or will get, it.                          *)
LastRead(h) == h.reads[Len(h.reads)]
Fresh ==
  IF host.reads # <<>>
  THEN LastRead(host).ws = host.info /\ LastRead(host).items \in {None, disk[host.info]}
  ELSE Shows(toView, view.items, disk[host.info])

TreeInv == host.alive /\ ~lost => Coming \/ Fresh

(* With the messages q still to come, a log of the lines s will have x, and *)
(* will end with x.                                                         *)
Elem(s, x) == \E i \in 1..Len(s) : s[i] = x
Ends(s, x) == s # <<>> /\ s[Len(s)] = x
WillHave(q, s, x) ==
  \/ \E k \in 1..Len(q) : LastOf(q, k, Clears) /\ q[k].type \in Carries /\ Elem(q[k].lines, x)
  \/ Elem(s, x) /\ ~Has(q, Clears)
WillEnd(q, s, x) ==
  \/ \E k \in 1..Len(q) : LastOf(q, k, LogTypes) /\ q[k].type \in Carries /\ Ends(q[k].lines, x)
  \/ Ends(s, x) /\ ~Has(q, LogTypes)

(* Every line of the ring is in the batch of the sink, in a message or in  *)
(* the log, and the last of them will be the last there.                   *)
RingKept(l, q, s) ==
  \A i \in 1..Len(l.ring) : Elem(l.batch, l.ring[i]) \/ WillHave(q, s, l.ring[i])
EndKept(l, q, s) ==
  l.ring # <<>> => IF l.batch # <<>> THEN Ends(l.batch, l.ring[Len(l.ring)])
                   ELSE WillEnd(q, s, l.ring[Len(l.ring)])

LogInv ==
  /\ ~logger.bound => ~logger.sink /\ logger.ring = <<>> /\ logger.batch = <<>>
  /\ logger.sink => RingKept(logger, toView, view.log) /\ EndKept(logger, toView, view.log)

PanelInv == TypeInv /\ ClosedInv /\ HostInv /\ TreeInv /\ LogInv

-----------------------------------------------------------------------------
(* Queues: what a message at the end and a message taken change. *)
LEMMA AppendIs ==
  ASSUME NEW S, NEW q \in Seq(S), NEW m \in S
  PROVE  /\ Append(q, m) \in Seq(S) /\ Len(q) \in Nat /\ Len(Append(q, m)) = Len(q) + 1
         /\ \A k \in 1..Len(q) : Append(q, m)[k] = q[k]
         /\ Append(q, m)[Len(q) + 1] = m
  OBVIOUS

LEMMA TailIs ==
  ASSUME NEW S, NEW q \in Seq(S), q # <<>>
  PROVE  /\ Tail(q) \in Seq(S) /\ Head(q) = q[1] /\ Head(q) \in S
         /\ Len(q) \in Nat \ {0} /\ Len(Tail(q)) = Len(q) - 1
         /\ \A k \in 1..(Len(q) - 1) : Tail(q)[k] = q[k + 1]
  OBVIOUS

LEMMA HasAppend ==
  ASSUME NEW S, NEW q \in Seq(S), NEW m \in S, NEW T
  PROVE  Has(Append(q, m), T) <=> Has(q, T) \/ m.type \in T
<1> DEFINE r == Append(q, m)
<1>1. /\ Len(q) \in Nat /\ Len(r) = Len(q) + 1
      /\ \A k \in 1..Len(q) : r[k] = q[k]
      /\ r[Len(q) + 1] = m
  BY AppendIs
<1> HIDE DEF r
<1>2. 1..Len(r) = 1..Len(q) \cup {Len(q) + 1}
  BY <1>1
<1> QED BY <1>1, <1>2, Zenon DEF Has, r

LEMMA HasTail ==
  ASSUME NEW S, NEW q \in Seq(S), q # <<>>, NEW T
  PROVE  Has(q, T) <=> Head(q).type \in T \/ Has(Tail(q), T)
<1> DEFINE r == Tail(q)
           n == Len(q)
<1>1. /\ Head(q) = q[1] /\ n \in Nat \ {0} /\ Len(r) = n - 1
      /\ \A k \in 1..(n - 1) : r[k] = q[k + 1]
  BY TailIs, Zenon
<1> HIDE DEF r, n
<1>2. \A k \in 1..n : k = 1 \/ (k - 1 \in 1..(n - 1) /\ (k - 1) + 1 = k)
  BY <1>1
<1>3. 1 \in 1..n /\ \A k \in 1..(n - 1) : k + 1 \in 1..n
  BY <1>1
<1>4. Has(q, T) => Head(q).type \in T \/ Has(r, T)
  <2>1. ASSUME NEW k \in 1..n, q[k].type \in T PROVE q[1].type \in T \/ \E j \in 1..(n - 1) : r[j].type \in T
    BY <1>1, <1>2, <2>1, Zenon
  <2> QED BY <1>1, <2>1, Zenon DEF Has, n
<1>5. Head(q).type \in T \/ Has(r, T) => Has(q, T)
  BY <1>1, <1>3, Zenon DEF Has, n
<1> QED BY <1>4, <1>5, Zenon DEF r

LEMMA LastAppend ==
  ASSUME NEW S, NEW q \in Seq(S), NEW m \in S, NEW T
  PROVE  /\ \A k : LastOf(q, k, T) /\ m.type \notin T =>
                    LastOf(Append(q, m), k, T) /\ Append(q, m)[k] = q[k]
         /\ LastOf(Append(q, m), Len(q) + 1, T) /\ Append(q, m)[Len(q) + 1] = m
<1> DEFINE r == Append(q, m)
           n == Len(q)
<1>1. /\ n \in Nat /\ Len(r) = n + 1
      /\ \A k \in 1..n : r[k] = q[k]
      /\ r[n + 1] = m
  BY AppendIs
<1> HIDE DEF r, n
<1>2. 1..(n + 1) = 1..n \cup {n + 1}
  BY <1>1
<1>3. \A j \in 1..(n + 1) : ~(j > n + 1)
  BY <1>1
<1>4. LastOf(r, n + 1, T)
  BY <1>1, <1>2, <1>3, Zenon DEF LastOf
<1>5. ASSUME NEW k, LastOf(q, k, T), m.type \notin T PROVE LastOf(r, k, T) /\ r[k] = q[k]
  <2>1. k \in 1..n /\ \A j \in 1..n : j > k => q[j].type \notin T
    BY <1>5, Zenon DEF LastOf, n
  <2>2. \A j \in 1..(n + 1) : j > k => r[j].type \notin T
    BY <1>1, <1>2, <1>5, <2>1, Zenon
  <2> QED BY <1>1, <1>2, <2>1, <2>2, Zenon DEF LastOf
<1> QED BY <1>1, <1>4, <1>5, Zenon DEF r, n

LEMMA LastTail ==
  ASSUME NEW S, NEW q \in Seq(S), q # <<>>, NEW k, NEW T, LastOf(q, k, T)
  PROVE  \/ k = 1 /\ q[k] = Head(q) /\ ~Has(Tail(q), T)
         \/ LastOf(Tail(q), k - 1, T) /\ Tail(q)[k - 1] = q[k]
<1> DEFINE r == Tail(q)
           n == Len(q)
<1>1. /\ Head(q) = q[1] /\ n \in Nat \ {0} /\ Len(r) = n - 1
      /\ \A i \in 1..(n - 1) : r[i] = q[i + 1]
  BY TailIs, Zenon
<1>2. k \in 1..n /\ \A j \in 1..n : j > k => q[j].type \notin T
  BY Zenon DEF LastOf
<1> HIDE DEF r, n
<1>3. \A j \in 1..(n - 1) : j + 1 \in 1..n /\ (j > k - 1 => j + 1 > k)
  BY <1>1, <1>2
<1>4. \A j \in 1..(n - 1) : j > k - 1 => r[j].type \notin T
  BY <1>1, <1>2, <1>3, Zenon
<1>5. CASE k = 1
  <2>1. \A j \in 1..(n - 1) : j > k - 1
    BY <1>1, <1>5
  <2>2. ~Has(r, T)
    BY <1>1, <1>4, <2>1, Zenon DEF Has
  <2> QED BY <1>1, <1>5, <2>2, Zenon DEF r
<1>6. CASE k # 1
  <2>1. k - 1 \in 1..(n - 1) /\ (k - 1) + 1 = k
    BY <1>1, <1>2, <1>6
  <2>2. LastOf(r, k - 1, T)
    BY <1>1, <1>4, <2>1, Zenon DEF LastOf
  <2>3. r[k - 1] = q[k]
    BY <1>1, <2>1, Zenon
  <2> QED BY <2>2, <2>3, Zenon DEF r
<1> QED BY <1>5, <1>6, Zenon

-----------------------------------------------------------------------------
(* What the webview will show, as messages are sent and received. *)
LEMMA ShowsSent ==
  ASSUME NEW S, NEW q \in Seq(S), NEW m \in S, NEW v, NEW d
  PROVE  /\ m.type # "list.result" /\ Shows(q, v, d) => Shows(Append(q, m), v, d)
         /\ m.type = "list.result" /\ m.items = d => Shows(Append(q, m), v, d)
<1> DEFINE r == Append(q, m)
           T == {"list.result"}
<1>1. /\ \A k : LastOf(q, k, T) /\ m.type \notin T => LastOf(r, k, T) /\ r[k] = q[k]
      /\ LastOf(r, Len(q) + 1, T) /\ r[Len(q) + 1] = m
  BY LastAppend, Zenon
<1>2. Has(r, T) <=> Has(q, T) \/ m.type \in T
  BY HasAppend, Zenon
<1> HIDE DEF r
<1>3. ASSUME m.type # "list.result", Shows(q, v, d) PROVE Shows(r, v, d)
  BY <1>1, <1>2, <1>3, Zenon DEF Shows, LastOf
<1>4. ASSUME m.type = "list.result", m.items = d PROVE Shows(r, v, d)
  BY <1>1, <1>4, Zenon DEF Shows, LastOf
<1> QED BY <1>3, <1>4, Zenon DEF r

LEMMA ShowsReceived ==
  ASSUME NEW S, NEW q \in Seq(S), q # <<>>, NEW v, NEW d, Shows(q, v, d)
  PROVE  Shows(Tail(q), IF Head(q).type = "list.result" THEN Head(q).items ELSE v, d)
<1> DEFINE r == Tail(q)
           T == {"list.result"}
           w == IF Head(q).type = "list.result" THEN Head(q).items ELSE v
<1>1. CASE v = d /\ ~Has(q, T)
  <2>1. Head(q).type # "list.result" /\ ~Has(r, T)
    BY <1>1, HasTail, Zenon
  <2> QED BY <1>1, <2>1, Zenon DEF Shows
<1>2. ASSUME NEW k \in 1..Len(q), LastOf(q, k, T), q[k].type = "list.result", q[k].items = d
      PROVE  Shows(r, w, d)
  <2>1. CASE k = 1 /\ q[k] = Head(q) /\ ~Has(r, T)
    <3>1. w = d
      BY <1>2, <2>1, Zenon
    <3> HIDE DEF w
    <3> QED BY <2>1, <3>1, Zenon DEF Shows
  <2>2. CASE LastOf(r, k - 1, T) /\ r[k - 1] = q[k]
    <3> HIDE DEF w, r
    <3> QED BY <1>2, <2>2, Zenon DEF Shows, LastOf
  <2> QED BY <1>2, <2>1, <2>2, LastTail, Zenon
<1> QED BY <1>1, <1>2, Zenon DEF Shows

(* The log of the page after a message. *)
LogAfter(m, s) ==
  IF m.type = "initState" THEN m.lines
  ELSE IF m.type = "appendLog" THEN s \o m.lines
  ELSE IF m.type = "cleared" THEN <<>> ELSE s

LEMMA ConcatIs ==
  ASSUME NEW s \in Seq(Nat), NEW t \in Seq(Nat)
  PROVE  /\ s \o t \in Seq(Nat)
         /\ \A x : Elem(s \o t, x) <=> Elem(s, x) \/ Elem(t, x)
         /\ \A x : Ends(t, x) => Ends(s \o t, x)
         /\ t = <<>> => s \o t = s
         /\ s = <<>> => s \o t = t
<1>1. /\ s \o t \in Seq(Nat) /\ Len(s) \in Nat /\ Len(t) \in Nat /\ Len(s \o t) = Len(s) + Len(t)
      /\ \A i \in 1..Len(s) : (s \o t)[i] = s[i]
      /\ \A i \in 1..Len(t) : (s \o t)[Len(s) + i] = t[i]
  OBVIOUS
<1>2. ASSUME NEW x, Elem(s, x) PROVE Elem(s \o t, x)
  <2>1. PICK i \in 1..Len(s) : s[i] = x
    BY <1>2, Zenon DEF Elem
  <2>2. i \in 1..(Len(s) + Len(t))
    BY <1>1
  <2> QED BY <1>1, <2>1, <2>2, Zenon DEF Elem
<1>3. ASSUME NEW x, Elem(t, x) PROVE Elem(s \o t, x)
  <2>1. PICK i \in 1..Len(t) : t[i] = x
    BY <1>3, Zenon DEF Elem
  <2>2. Len(s) + i \in 1..(Len(s) + Len(t))
    BY <1>1
  <2> QED BY <1>1, <2>1, <2>2, Zenon DEF Elem
<1>4. ASSUME NEW x, Elem(s \o t, x) PROVE Elem(s, x) \/ Elem(t, x)
  <2>1. PICK i \in 1..(Len(s) + Len(t)) : (s \o t)[i] = x
    BY <1>1, <1>4, Zenon DEF Elem
  <2>2. i \in 1..Len(s) \/ (i - Len(s) \in 1..Len(t) /\ Len(s) + (i - Len(s)) = i)
    BY <1>1
  <2> QED BY <1>1, <2>1, <2>2, Zenon DEF Elem
<1>5. ASSUME NEW x, Ends(t, x) PROVE Ends(s \o t, x)
  <2>1. t # <<>> /\ t[Len(t)] = x
    BY <1>5, Zenon DEF Ends
  <2>2. Len(t) \in 1..Len(t) /\ Len(s) + Len(t) # 0
    BY <1>1, <2>1
  <2>3. s \o t # <<>>
    BY <1>1, <2>2
  <2> QED BY <1>1, <2>1, <2>2, <2>3, Zenon DEF Ends
<1>6. /\ t = <<>> => s \o t = s
      /\ s = <<>> => s \o t = t
  OBVIOUS
<1> QED BY <1>1, <1>2, <1>3, <1>4, <1>5, <1>6, Zenon

LEMMA NoElem == (\A x : ~Elem(<<>>, x)) /\ (\A x : ~Ends(<<>>, x))
  BY DEF Elem, Ends

(* A ring buffer keeps lines of the sequence it is cut from, the last too. *)
LEMMA CappedIs ==
  ASSUME NEW s \in Seq(Nat)
  PROVE  /\ Capped(s) \in Seq(Nat)
         /\ \A x : Elem(Capped(s), x) => Elem(s, x)
         /\ s = <<>> => Capped(s) = <<>>
         /\ s # <<>> => Capped(s) # <<>> /\ Ends(s, Capped(s)[Len(Capped(s))])
<1>0. LogMax \in Nat /\ LogMax > 0 /\ Len(s) \in Nat
  BY PanelAssumption
<1>1. CASE ~(Len(s) > LogMax)
  <2>1. Capped(s) = s
    BY <1>1, Zenon DEF Capped
  <2> QED BY <2>1, Zenon DEF Ends
<1>2. CASE Len(s) > LogMax
  <2> DEFINE a == Len(s) - LogMax
             c == SubSeq(s, a + 1, Len(s))
  <2>1. Capped(s) = c
    BY <1>0, <1>2 DEF Capped
  <2>2. a \in Nat /\ a + 1 \in 1..Len(s) /\ a + LogMax = Len(s)
    BY <1>0, <1>2
  <2>3. c \in Seq(Nat) /\ Len(c) = LogMax /\ \A i \in 1..LogMax : c[i] = s[a + i]
    <3> HIDE DEF a
    <3>1. c \in Seq(Nat) /\ Len(c) = Len(s) - (a + 1) + 1
      BY <1>0, <2>2
    <3>2. Len(c) = LogMax
      BY <1>0, <2>2, <3>1
    <3>3. ASSUME NEW i \in 1..LogMax PROVE c[i] = s[a + i]
      BY <1>0, <2>2, <3>3
    <3> QED BY <3>1, <3>2, <3>3, Zenon
  <2> HIDE DEF a, c
  <2>4. LogMax \in 1..LogMax /\ c # <<>> /\ s # <<>>
    BY <1>0, <1>2, <2>3
  <2>5. \A i \in 1..LogMax : a + i \in 1..Len(s)
    BY <1>0, <2>2
  <2>6. \A x : Elem(c, x) => Elem(s, x)
    BY <2>3, <2>5, Zenon DEF Elem
  <2>7. Ends(s, c[Len(c)])
    BY <2>2, <2>3, <2>4, Zenon DEF Ends
  <2> QED BY <2>1, <2>3, <2>4, <2>6, <2>7, Zenon
<1> QED BY <1>1, <1>2, Zenon

LEMMA LogSent ==
  ASSUME NEW S, NEW q \in Seq(S), NEW m \in S, NEW s, NEW x
  PROVE  /\ m.type \notin Clears /\ WillHave(q, s, x) => WillHave(Append(q, m), s, x)
         /\ m.type \in Carries /\ Elem(m.lines, x) => WillHave(Append(q, m), s, x)
         /\ m.type \notin LogTypes /\ WillEnd(q, s, x) => WillEnd(Append(q, m), s, x)
         /\ m.type \in Carries /\ Ends(m.lines, x) => WillEnd(Append(q, m), s, x)
<1> DEFINE r == Append(q, m)
<1>1. \A T : /\ \A k : LastOf(q, k, T) /\ m.type \notin T => LastOf(r, k, T) /\ r[k] = q[k]
             /\ LastOf(r, Len(q) + 1, T) /\ r[Len(q) + 1] = m
  BY LastAppend, Zenon
<1>2. \A T : Has(r, T) <=> Has(q, T) \/ m.type \in T
  BY HasAppend, Zenon
<1> HIDE DEF r
<1>3. \A T, k : LastOf(r, k, T) => k \in 1..Len(r)
  BY Zenon DEF LastOf
<1>4. ASSUME m.type \notin Clears, WillHave(q, s, x) PROVE WillHave(r, s, x)
  BY <1>1, <1>2, <1>3, <1>4, Zenon DEF WillHave
<1>5. ASSUME m.type \in Carries, Elem(m.lines, x) PROVE WillHave(r, s, x)
  BY <1>1, <1>3, <1>5, Zenon DEF WillHave
<1>6. ASSUME m.type \notin LogTypes, WillEnd(q, s, x) PROVE WillEnd(r, s, x)
  BY <1>1, <1>2, <1>3, <1>6, Zenon DEF WillEnd
<1>7. ASSUME m.type \in Carries, Ends(m.lines, x) PROVE WillEnd(r, s, x)
  BY <1>1, <1>3, <1>7, Zenon DEF WillEnd
<1> QED BY <1>4, <1>5, <1>6, <1>7, Zenon DEF r

LEMMA HaveReceived ==
  ASSUME NEW q \in Seq(ViewMsgs), q # <<>>, NEW s \in Seq(Nat), NEW x, WillHave(q, s, x)
  PROVE  WillHave(Tail(q), LogAfter(Head(q), s), x)
<1> DEFINE r == Tail(q)
           m == Head(q)
           t == LogAfter(m, s)
<1>0. m \in ViewMsgs
  BY TailIs, Zenon
<1>1. m.type \in Carries => m.lines \in Seq(Nat)
  BY <1>0 DEF ViewMsgs, Carries
<1>2. m.type \in Carries /\ Elem(m.lines, x) => Elem(t, x)
  <2>1. m.type = "initState" => t = m.lines
    BY Zenon DEF LogAfter
  <2>2. m.type = "appendLog" => t = s \o m.lines
    BY Zenon DEF LogAfter
  <2>3. m.lines \in Seq(Nat) /\ Elem(m.lines, x) => Elem(s \o m.lines, x)
    BY ConcatIs, Zenon
  <2> HIDE DEF m, t
  <2> QED BY <1>1, <2>1, <2>2, <2>3, Zenon DEF Carries
<1>3. m.type \notin Clears /\ Elem(s, x) => Elem(t, x)
  <2>1. m.type \notin Clears => t = s \/ (m.type \in Carries /\ t = s \o m.lines)
    BY Zenon DEF LogAfter, Clears, Carries
  <2>2. m.lines \in Seq(Nat) /\ Elem(s, x) => Elem(s \o m.lines, x)
    BY ConcatIs, Zenon
  <2> HIDE DEF m, t
  <2> QED BY <1>1, <2>1, <2>2, Zenon
<1> HIDE DEF t
<1>4. CASE Elem(s, x) /\ ~Has(q, Clears)
  <2>1. m.type \notin Clears /\ ~Has(r, Clears)
    BY <1>4, HasTail, Zenon
  <2> QED BY <1>3, <1>4, <2>1, Zenon DEF WillHave, t
<1>5. ASSUME NEW k \in 1..Len(q), LastOf(q, k, Clears), q[k].type \in Carries, Elem(q[k].lines, x)
      PROVE  WillHave(r, t, x)
  <2>1. CASE k = 1 /\ q[k] = m /\ ~Has(r, Clears)
    BY <1>2, <1>5, <2>1, Zenon DEF WillHave
  <2>2. CASE LastOf(r, k - 1, Clears) /\ r[k - 1] = q[k]
    <3>1. k - 1 \in 1..Len(r)
      BY <2>2, Zenon DEF LastOf
    <3> HIDE DEF r
    <3> QED BY <1>5, <2>2, <3>1, Zenon DEF WillHave
  <2> QED BY <1>5, <2>1, <2>2, LastTail, Zenon
<1> QED BY <1>4, <1>5, Zenon DEF WillHave, t

LEMMA EndReceived ==
  ASSUME NEW q \in Seq(ViewMsgs), q # <<>>, NEW s \in Seq(Nat), NEW x, WillEnd(q, s, x)
  PROVE  WillEnd(Tail(q), LogAfter(Head(q), s), x)
<1> DEFINE r == Tail(q)
           m == Head(q)
           t == LogAfter(m, s)
<1>0. m \in ViewMsgs
  BY TailIs, Zenon
<1>1. m.type \in Carries => m.lines \in Seq(Nat)
  BY <1>0 DEF ViewMsgs, Carries
<1>2. m.type \in Carries /\ Ends(m.lines, x) => Ends(t, x)
  <2>1. m.type = "initState" => t = m.lines
    BY Zenon DEF LogAfter
  <2>2. m.type = "appendLog" => t = s \o m.lines
    BY Zenon DEF LogAfter
  <2>3. m.lines \in Seq(Nat) /\ Ends(m.lines, x) => Ends(s \o m.lines, x)
    BY ConcatIs, Zenon
  <2> HIDE DEF m, t
  <2> QED BY <1>1, <2>1, <2>2, <2>3, Zenon DEF Carries
<1>3. m.type \notin LogTypes => t = s
  BY Zenon DEF LogAfter, LogTypes, Clears, Carries
<1> HIDE DEF t
<1>4. CASE Ends(s, x) /\ ~Has(q, LogTypes)
  <2>1. m.type \notin LogTypes /\ ~Has(r, LogTypes)
    BY <1>4, HasTail, Zenon
  <2> QED BY <1>3, <1>4, <2>1, Zenon DEF WillEnd, t
<1>5. ASSUME NEW k \in 1..Len(q), LastOf(q, k, LogTypes), q[k].type \in Carries, Ends(q[k].lines, x)
      PROVE  WillEnd(r, t, x)
  <2>1. CASE k = 1 /\ q[k] = m /\ ~Has(r, LogTypes)
    BY <1>2, <1>5, <2>1, Zenon DEF WillEnd
  <2>2. CASE LastOf(r, k - 1, LogTypes) /\ r[k - 1] = q[k]
    <3>1. k - 1 \in 1..Len(r)
      BY <2>2, Zenon DEF LastOf
    <3> HIDE DEF r
    <3> QED BY <1>5, <2>2, <3>1, Zenon DEF WillEnd
  <2> QED BY <1>5, <2>1, <2>2, LastTail, Zenon
<1> QED BY <1>4, <1>5, Zenon DEF WillEnd, t

-----------------------------------------------------------------------------
(* What the operators of the bridge change. *)
LEMMA EnsuredIs ==
  ASSUME NEW h \in Hosts, ws \in Spaces
  PROVE  LET g == Ensured(h)
         IN  /\ g \in Hosts /\ g.info = ws /\ g.watch = ws
             /\ g.alive = h.alive /\ g.timer = h.timer /\ g.inflight = h.inflight
             /\ g.pending = h.pending /\ g.again = h.again /\ g.reads = h.reads
             /\ g.resolving = h.resolving /\ g.posting = h.posting
             /\ g.initing = h.initing /\ g.sent = h.sent
  BY Zenon DEF Ensured, Hosts

(* The folder is resolved when it is not known. *)
Known(h) == IF h.info = None THEN Ensured(h) ELSE h

LEMMA KnownIs ==
  ASSUME NEW h \in Hosts, ws \in Spaces, h.info # None => h.watch = h.info
  PROVE  LET g == Known(h)
         IN  /\ g \in Hosts /\ g.info \in Spaces /\ g.watch = g.info
             /\ h.info # None => g = h
             /\ g.alive = h.alive /\ g.timer = h.timer /\ g.inflight = h.inflight
             /\ g.pending = h.pending /\ g.again = h.again /\ g.reads = h.reads
             /\ g.resolving = h.resolving /\ g.posting = h.posting
             /\ g.initing = h.initing /\ g.sent = h.sent
<1>1. h.info \in Spaces \cup {None}
  BY DEF Hosts
<1>2. CASE h.info = None
  <2>1. Known(h) = Ensured(h)
    BY <1>2, Zenon DEF Known
  <2> QED BY <1>2, <2>1, EnsuredIs
<1>3. CASE h.info # None
  <2>1. Known(h) = h
    BY <1>3, Zenon DEF Known
  <2> QED BY <1>1, <1>3, <2>1, Zenon
<1> QED BY <1>2, <1>3, Zenon

LEMMA ReadIs ==
  ASSUME NEW w \in Spaces, NEW i \in Items, NEW c \in BOOLEAN
  PROVE  [ws |-> w, items |-> i, coalesced |-> c] \in Reads
<1>1. c = TRUE \/ c = FALSE
  BY Zenon
<1>2. CASE c = TRUE
  BY <1>2 DEF Reads
<1>3. CASE c = FALSE
  BY <1>3 DEF Reads
<1> QED BY <1>1, <1>2, <1>3, Zenon

(* A listing joins the others as the last. *)
LEMMA ListingIs ==
  ASSUME NEW h \in Hosts, ws \in Spaces, h.info # None => h.watch = h.info, NEW c \in BOOLEAN
  PROVE  LET g == Listing(h, c)
         IN  /\ g \in Hosts /\ g.info \in Spaces /\ g.watch = g.info
             /\ g.alive = h.alive /\ g.timer = h.timer /\ g.inflight = h.inflight
             /\ g.pending = h.pending /\ g.again = h.again
             /\ g.reads # <<>> /\ LastRead(g).ws = g.info /\ LastRead(g).items = None
             /\ c => \E i \in 1..Len(g.reads) : g.reads[i].coalesced
             /\ (\E i \in 1..Len(h.reads) : h.reads[i].coalesced)
                   => \E i \in 1..Len(g.reads) : g.reads[i].coalesced
             /\ g.resolving = h.resolving /\ g.posting = h.posting
             /\ g.initing = h.initing /\ g.sent = h.sent
<1> DEFINE k == Known(h)
           r == [ws |-> k.info, items |-> None, coalesced |-> c]
           g == [k EXCEPT !.reads = Append(@, r)]
           q == Append(k.reads, r)
<1>1. Listing(h, c) = g
  BY Zenon DEF Listing, Known
<1>2. /\ k \in Hosts /\ k.info \in Spaces /\ k.watch = k.info
      /\ k.alive = h.alive /\ k.timer = h.timer /\ k.inflight = h.inflight
      /\ k.pending = h.pending /\ k.again = h.again /\ k.reads = h.reads
      /\ k.resolving = h.resolving /\ k.posting = h.posting
      /\ k.initing = h.initing /\ k.sent = h.sent
  BY KnownIs, Zenon
<1> HIDE DEF k
<1>3. r \in Reads /\ k.reads \in Seq(Reads) /\ r.ws = k.info /\ r.items = None /\ r.coalesced = c
  <2>1. k.reads \in Seq(Reads)
    BY <1>2 DEF Hosts
  <2>2. r \in Reads
    <3>1. None \in Items
      BY Zenon DEF Items
    <3> QED BY <1>2, <3>1, ReadIs, Zenon
  <2> QED BY <2>1, <2>2
<1> HIDE DEF r
<1>4. /\ q \in Seq(Reads) /\ Len(k.reads) \in Nat /\ Len(q) = Len(k.reads) + 1
      /\ \A i \in 1..Len(k.reads) : q[i] = k.reads[i]
      /\ q[Len(k.reads) + 1] = r
  BY <1>3, AppendIs
<1> HIDE DEF q
<1>5. /\ g \in Hosts /\ g.reads = q /\ g.info = k.info /\ g.watch = k.watch
      /\ g.alive = k.alive /\ g.timer = k.timer /\ g.inflight = k.inflight
      /\ g.pending = k.pending /\ g.again = k.again
      /\ g.resolving = k.resolving /\ g.posting = k.posting
      /\ g.initing = k.initing /\ g.sent = k.sent
  <2>1. g = [k EXCEPT !.reads = q]
    BY <1>2 DEF Hosts, q
  <2> HIDE DEF g
  <2> QED BY <1>2, <1>4, <2>1, Zenon DEF Hosts
<1> HIDE DEF g
<1>6. Len(q) \in 1..Len(q) /\ q # <<>> /\ \A i \in 1..Len(k.reads) : i \in 1..Len(q)
  BY <1>4
<1>7. LastRead(g) = r
  BY <1>4, <1>5, Zenon DEF LastRead
<1>8. c => \E i \in 1..Len(q) : q[i].coalesced
  BY <1>3, <1>4, <1>6, Zenon
<1>9. (\E i \in 1..Len(h.reads) : h.reads[i].coalesced) => \E i \in 1..Len(q) : q[i].coalesced
  BY <1>2, <1>4, <1>6, Zenon
<1> QED BY <1>1, <1>2, <1>3, <1>5, <1>6, <1>7, <1>8, <1>9, Zenon

(* RefreshCoalescer: a refresh that finds a listing under way waits for it, *)
(* any other lists, or sets the timer.                                      *)
LEMMA ExecuteIs ==
  ASSUME NEW h \in Hosts, ws \in Spaces, h.info # None => h.watch = h.info
  PROVE  LET g == Execute(h)
         IN  /\ g \in Hosts /\ (g.info # None => g.watch = g.info)
             /\ h.info # None => g.info # None
             /\ g.alive = h.alive /\ g.timer = h.timer /\ g.inflight
             /\ g.again = h.again /\ g.resolving = h.resolving /\ g.posting = h.posting
             /\ g.initing = h.initing /\ g.sent = h.sent
             /\ h.pending => g.pending
             /\ \/ h.inflight /\ g.pending /\ g.reads = h.reads
                \/ /\ ~h.inflight /\ g.reads # <<>> /\ g.info # None
                   /\ LastRead(g).ws = g.info /\ LastRead(g).items = None
                   /\ \E i \in 1..Len(g.reads) : g.reads[i].coalesced
<1> DEFINE l == Listing(h, TRUE)
<1>1. CASE h.inflight
  <2>1. Execute(h) = [h EXCEPT !.pending = TRUE]
    BY <1>1, Zenon DEF Execute
  <2> QED BY <1>1, <2>1, Zenon DEF Hosts
<1>2. CASE ~h.inflight
  <2>1. Execute(h) = [l EXCEPT !.inflight = TRUE]
    BY <1>2, Zenon DEF Execute
  <2>2. /\ l \in Hosts /\ l.info \in Spaces /\ l.watch = l.info
        /\ l.alive = h.alive /\ l.timer = h.timer
        /\ l.pending = h.pending /\ l.again = h.again
        /\ l.reads # <<>> /\ LastRead(l).ws = l.info /\ LastRead(l).items = None
        /\ \E i \in 1..Len(l.reads) : l.reads[i].coalesced
        /\ l.resolving = h.resolving /\ l.posting = h.posting
        /\ l.initing = h.initing /\ l.sent = h.sent
    BY ListingIs, Zenon
  <2> HIDE DEF l
  <2> DEFINE g == [l EXCEPT !.inflight = TRUE]
  <2>3. /\ g \in Hosts /\ g.info = l.info /\ g.watch = l.watch /\ g.inflight
        /\ g.alive = l.alive /\ g.timer = l.timer /\ g.pending = l.pending /\ g.again = l.again
        /\ g.reads = l.reads /\ g.resolving = l.resolving /\ g.posting = l.posting
        /\ g.initing = l.initing /\ g.sent = l.sent
    BY <2>2, Zenon DEF Hosts
  <2>4. LastRead(g) = LastRead(l)
    BY <2>3, Zenon DEF LastRead
  <2>5. l.info # None
    BY <2>2, PanelAssumption, Zenon
  <2> HIDE DEF g
  <2> QED BY <1>2, <2>1, <2>2, <2>3, <2>4, <2>5, Zenon DEF g
<1> QED BY <1>1, <1>2, Zenon

LEMMA ScheduleIs ==
  ASSUME NEW h \in Hosts
  PROVE  LET g == Schedule(h)
         IN  /\ g \in Hosts /\ g.info = h.info /\ g.watch = h.watch
             /\ g.alive = h.alive /\ g.inflight = h.inflight
             /\ g.again = h.again /\ g.reads = h.reads
             /\ g.resolving = h.resolving /\ g.posting = h.posting
             /\ g.initing = h.initing /\ g.sent = h.sent
             /\ g.timer \/ g.pending
             /\ g.pending => h.pending \/ g.inflight
<1>1. CASE h.inflight
  <2>1. Schedule(h) = [h EXCEPT !.pending = TRUE]
    BY <1>1, Zenon DEF Schedule
  <2> QED BY <1>1, <2>1, Zenon DEF Hosts
<1>2. CASE ~h.inflight
  <2>1. Schedule(h) = [h EXCEPT !.timer = TRUE]
    BY <1>2, Zenon DEF Schedule
  <2> QED BY <1>2, <2>1, Zenon DEF Hosts
<1> QED BY <1>1, <1>2, Zenon

LEMMA BeginIs ==
  ASSUME NEW h \in Hosts
  PROVE  LET g == RefreshBegin(h)
         IN  /\ g \in Hosts /\ g.info = None /\ g.resolving > 0
             /\ g.alive = h.alive /\ g.timer = h.timer /\ g.inflight = h.inflight
             /\ g.pending = h.pending /\ g.again = h.again /\ g.reads = h.reads
             /\ g.posting = h.posting /\ g.initing = h.initing /\ g.sent = h.sent
<1> DEFINE g == [h EXCEPT !.info = None, !.resolving = @ + 1]
<1>1. h.resolving \in Nat
  BY DEF Hosts
<1>2. h.resolving + 1 \in Nat /\ h.resolving + 1 > 0
  BY <1>1
<1>3. g.resolving = h.resolving + 1 /\ g.info = None
  BY DEF Hosts
<1>4. /\ g.alive = h.alive /\ g.timer = h.timer /\ g.inflight = h.inflight
      /\ g.pending = h.pending /\ g.again = h.again /\ g.reads = h.reads
      /\ g.posting = h.posting /\ g.initing = h.initing /\ g.sent = h.sent
  BY DEF Hosts
<1>5. g \in Hosts
  BY <1>2, Zenon DEF Hosts
<1>6. RefreshBegin(h) = g
  BY Zenon DEF RefreshBegin
<1> HIDE DEF g
<1> QED BY <1>2, <1>3, <1>4, <1>5, <1>6, Zenon

(* sendInitIfNotRecent sends, or has sent. *)
LEMMA SendIs ==
  ASSUME NEW h \in Hosts, NEW g \in SendInit(h)
  PROVE  /\ g \in Hosts /\ g.sent /\ (g = h \/ g.initing > 0)
         /\ h.initing > 0 => g.initing > 0
         /\ g.info = h.info /\ g.watch = h.watch
         /\ g.alive = h.alive /\ g.timer = h.timer /\ g.inflight = h.inflight
         /\ g.pending = h.pending /\ g.again = h.again /\ g.reads = h.reads
         /\ g.resolving = h.resolving /\ g.posting = h.posting
<1>1. CASE g = h /\ h.sent
  BY <1>1, Zenon
<1>2. CASE g = [h EXCEPT !.initing = @ + 1, !.sent = TRUE]
  <2>1. h.initing \in Nat
    BY DEF Hosts
  <2>2. h.initing + 1 \in Nat /\ h.initing + 1 > 0
    BY <2>1
  <2>3. g.initing = h.initing + 1 /\ g.sent
    BY <1>2 DEF Hosts
  <2>4. /\ g.info = h.info /\ g.watch = h.watch
        /\ g.alive = h.alive /\ g.timer = h.timer /\ g.inflight = h.inflight
        /\ g.pending = h.pending /\ g.again = h.again /\ g.reads = h.reads
        /\ g.resolving = h.resolving /\ g.posting = h.posting
    BY <1>2 DEF Hosts
  <2>5. g \in Hosts
    BY <1>2, <2>2, Zenon DEF Hosts
  <2> QED BY <2>2, <2>3, <2>4, <2>5, Zenon
<1> QED BY <1>1, <1>2, Zenon DEF SendInit

-----------------------------------------------------------------------------
(* Steps that leave a part of the invariant alone. *)

(* At most one message is sent, of none of the types T. *)
Posted(T) == toView' = toView \/ \E m \in ViewMsgs : m.type \notin T /\ toView' = Append(toView, m)
Asked == toHost' = toHost \/ \E m \in HostMsgs : toHost' = Append(toHost, m)

LEMMA PostedIs ==
  ASSUME toView \in Seq(ViewMsgs), NEW T, Posted(T)
  PROVE  toView' \in Seq(ViewMsgs) /\ \A U : Has(toView, U) => Has(toView', U)
<1>1. ASSUME NEW m \in ViewMsgs, toView' = Append(toView, m)
      PROVE  toView' \in Seq(ViewMsgs) /\ \A U : Has(toView, U) => Has(toView', U)
  BY <1>1, AppendIs, HasAppend, Zenon
<1> QED BY <1>1, Zenon DEF Posted

LEMMA AskedIs ==
  ASSUME toHost \in Seq(HostMsgs), Asked
  PROVE  toHost' \in Seq(HostMsgs) /\ \A U : Has(toHost, U) => Has(toHost', U)
<1>1. ASSUME NEW m \in HostMsgs, toHost' = Append(toHost, m)
      PROVE  toHost' \in Seq(HostMsgs) /\ \A U : Has(toHost, U) => Has(toHost', U)
  BY <1>1, AppendIs, HasAppend, Zenon
<1> QED BY <1>1, Zenon DEF Asked

(* The log and the ring stay; the messages that are sent are not about it. *)
LEMMA LogStays ==
  ASSUME TypeInv, LogInv, Posted(LogTypes), view'.log = view.log,
         logger'.ring = logger.ring, logger'.batch = logger.batch,
         logger'.bound = logger.bound, logger'.sink = logger.sink
  PROVE  LogInv'
<1>1. toView \in Seq(ViewMsgs)
  BY Zenon DEF TypeInv
<1>2. \A m : m.type \notin LogTypes => m.type \notin Clears
  BY Zenon DEF LogTypes
<1>3. \A x : /\ WillHave(toView, view.log, x) => WillHave(toView', view'.log, x)
             /\ WillEnd(toView, view.log, x) => WillEnd(toView', view'.log, x)
  <2>1. CASE toView' = toView
    BY <2>1, Zenon
  <2>2. ASSUME NEW m \in ViewMsgs, m.type \notin LogTypes, toView' = Append(toView, m)
        PROVE  \A x : /\ WillHave(toView, view.log, x) => WillHave(toView', view'.log, x)
                      /\ WillEnd(toView, view.log, x) => WillEnd(toView', view'.log, x)
    BY <1>1, <1>2, <2>2, LogSent, Zenon
  <2> QED BY <2>1, <2>2, Zenon DEF Posted
<1>4. RingKept(logger, toView, view.log) => RingKept(logger', toView', view'.log)
  BY <1>3, Zenon DEF RingKept
<1>5. EndKept(logger, toView, view.log) => EndKept(logger', toView', view'.log)
  BY <1>3, Zenon DEF EndKept
<1> QED BY <1>4, <1>5, Zenon DEF LogInv

(* The listings and what is on disk stay, and nothing that is on its way   *)
(* to start one is forgotten.                                              *)
LEMMA TreeStays ==
  ASSUME TypeInv, TreeInv, Posted({"list.result"}), Asked,
         host'.alive = host.alive, host'.info = host.info, host'.reads = host.reads,
         Busy(host) => Busy(host'), lost => lost', fs => fs' \/ lost',
         disk'[host.info] = disk[host.info], view'.items = view.items
  PROVE  TreeInv'
<1>1. toView \in Seq(ViewMsgs) /\ toHost \in Seq(HostMsgs)
  BY Zenon DEF TypeInv
<1>2. Coming /\ ~lost' => Coming'
  BY <1>1, PostedIs, AskedIs, Zenon DEF Coming
<1>3. Shows(toView, view.items, disk[host.info]) => Shows(toView', view'.items, disk'[host'.info])
  <2>1. CASE toView' = toView
    BY <2>1, Zenon
  <2>2. ASSUME NEW m \in ViewMsgs, m.type \notin {"list.result"}, toView' = Append(toView, m)
        PROVE  Shows(toView, view.items, disk[host.info]) => Shows(toView', view'.items, disk'[host'.info])
    BY <1>1, <2>2, ShowsSent, Zenon
  <2> QED BY <2>1, <2>2, Zenon DEF Posted
<1>4. LastRead(host') = LastRead(host)
  BY Zenon DEF LastRead
<1>5. Fresh => Fresh'
  BY <1>3, <1>4, Zenon DEF Fresh
<1> QED BY <1>2, <1>5, Zenon DEF TreeInv

(* The bridge, and what the page knows of it, stay. *)
LEMMA HostStays ==
  ASSUME TypeInv, HostInv, NEW T, Posted(T), Asked,
         host'.info = host.info, host'.watch = host.watch, host'.sent = host.sent,
         host'.resolving = host.resolving, host'.initing = host.initing,
         host'.pending = host.pending, host'.inflight = host.inflight, host'.reads = host.reads,
         view'.ready = view.ready, view'.root = view.root
  PROVE  HostInv'
<1>1. /\ \A U : Has(toView, U) => Has(toView', U)
      /\ \A U : Has(toHost, U) => Has(toHost', U)
  BY PostedIs, AskedIs, Zenon DEF TypeInv
<1> QED BY <1>1, Zenon DEF HostInv

(* The records keep their types. *)
LEMMA HostTypes ==
  ASSUME NEW h \in Hosts
  PROVE  /\ h.alive \in BOOLEAN /\ h.info \in Spaces \cup {None} /\ h.watch \in Spaces \cup {None}
         /\ h.timer \in BOOLEAN /\ h.inflight \in BOOLEAN /\ h.pending \in BOOLEAN
         /\ h.again \in Nat /\ h.reads \in Seq(Reads) /\ h.resolving \in Nat
         /\ h.posting \in Nat /\ h.initing \in Nat /\ h.sent \in BOOLEAN
  BY DEF Hosts

LEMMA IdleTypes == NoHost \in Hosts /\ NoView \in Views /\ NoLog \in Loggers
  BY DEF NoHost, NoView, NoLog, Hosts, Views, Loggers, Items

-----------------------------------------------------------------------------
(* The invariant holds at first. *)
LEMMA PanelInit == Init => PanelInv
<1> SUFFICES ASSUME Init PROVE PanelInv
  OBVIOUS
<1>1. /\ disk = [s \in Spaces |-> {}] /\ ws = First
      /\ host = NoHost /\ view = NoView /\ logger = NoLog
      /\ fs = FALSE /\ lost = FALSE /\ events = 0
      /\ toView = <<>> /\ toHost = <<>>
  BY Zenon DEF Init
<1>2. TypeInv
  <2>1. disk \in [Spaces -> SUBSET Names] /\ ws \in Spaces
    BY <1>1, PanelAssumption
  <2>2. events \in Nat /\ fs \in BOOLEAN /\ lost \in BOOLEAN
    BY <1>1, Zenon
  <2>3. toView \in Seq(ViewMsgs) /\ toHost \in Seq(HostMsgs)
    BY <1>1
  <2> QED BY <1>1, <2>1, <2>2, <2>3, IdleTypes, Zenon DEF TypeInv
<1>3. ~host.alive /\ host.info = None /\ ~host.sent /\ ~host.pending /\ ~host.inflight /\ ~view.ready
  BY <1>1 DEF NoHost, NoView
<1>4. ~logger.bound /\ ~logger.sink /\ logger.ring = <<>> /\ logger.batch = <<>>
  BY <1>1 DEF NoLog
<1>5. ClosedInv /\ TreeInv
  BY <1>1, <1>3, <1>4, Zenon DEF ClosedInv, TreeInv
<1>6. HostInv
  BY <1>3, Zenon DEF HostInv
<1>7. LogInv
  BY <1>4, Zenon DEF LogInv
<1> QED BY <1>2, <1>5, <1>6, <1>7, Zenon DEF PanelInv

-----------------------------------------------------------------------------
(* The logger. *)
LEMMA LoggerTypes ==
  ASSUME NEW l \in Loggers
  PROVE  /\ l.buffer \in Seq(Nat) /\ l.sink \in BOOLEAN /\ l.bound \in BOOLEAN /\ l.next \in Nat
         /\ l.flush \in Seq(Nat) /\ l.batch \in Seq(Nat) /\ l.ring \in Seq(Nat)
  BY DEF Loggers

LEMMA EmitKeeps ==
  ASSUME PanelInv, Emit
  PROVE  PanelInv'
<1>0. TypeInv /\ ClosedInv /\ HostInv /\ TreeInv /\ LogInv
  BY Zenon DEF PanelInv
<1>1. UNCHANGED <<disk, ws, host, fs, view, toView, toHost, lost>> /\ events' = events + 1
  BY Zenon DEF Emit, Event
<1> DEFINE b == Capped(Append(logger.buffer, logger.next))
           f == IF logger.sink THEN Append(logger.flush, logger.next) ELSE logger.flush
<1>2. logger' = [logger EXCEPT !.buffer = b, !.next = logger.next + 1, !.flush = f]
  BY DEF Emit
<1>3. logger \in Loggers /\ events \in Nat
  BY <1>0, Zenon DEF TypeInv
<1>4. b \in Seq(Nat) /\ f \in Seq(Nat) /\ logger.next + 1 \in Nat
  <2>1. logger.buffer \in Seq(Nat) /\ logger.flush \in Seq(Nat) /\ logger.next \in Nat
    BY <1>3, LoggerTypes, Zenon
  <2>2. Append(logger.buffer, logger.next) \in Seq(Nat) /\ Append(logger.flush, logger.next) \in Seq(Nat)
    BY <2>1
  <2>3. b \in Seq(Nat)
    BY <2>2, CappedIs, Zenon
  <2> HIDE DEF b
  <2> QED BY <2>1, <2>2, <2>3
<1> HIDE DEF b, f
<1>5. /\ logger' \in Loggers /\ logger'.ring = logger.ring /\ logger'.batch = logger.batch
      /\ logger'.bound = logger.bound /\ logger'.sink = logger.sink
  BY <1>2, <1>3, <1>4, Zenon DEF Loggers
<1>6. TypeInv'
  <2>1. events' \in Nat
    BY <1>1, <1>3
  <2> QED BY <1>0, <1>1, <1>5, <2>1, Zenon DEF TypeInv
<1>7. Posted(LogTypes)
  BY <1>1, Zenon DEF Posted
<1>8. LogInv'
  BY <1>0, <1>1, <1>5, <1>7, LogStays, Zenon
<1>9. ClosedInv'
  BY <1>0, <1>1, <1>5, Zenon DEF ClosedInv
<1>10. HostInv' /\ TreeInv'
  BY <1>0, <1>1, Zenon DEF HostInv, TreeInv, Coming, Fresh
<1> QED BY <1>6, <1>8, <1>9, <1>10, Zenon DEF PanelInv

(* What goes to the sink goes to the batch and to the ring alike. *)
LEMMA SunkKeeps ==
  ASSUME NEW l \in Loggers, NEW lines \in Seq(Nat), NEW q, NEW s,
         RingKept(l, q, s), EndKept(l, q, s)
  PROVE  LET k == Sunk(l, lines)
         IN  /\ k \in Loggers /\ k.sink = l.sink /\ k.bound = l.bound
             /\ k.batch = l.batch \o lines /\ k.ring = Capped(l.ring \o lines)
             /\ RingKept(k, q, s) /\ EndKept(k, q, s)
<1> DEFINE b == l.batch \o lines
           c == l.ring \o lines
           r == Capped(c)
           k == [l EXCEPT !.batch = b, !.ring = r]
<1>0. l.batch \in Seq(Nat) /\ l.ring \in Seq(Nat)
  BY LoggerTypes, Zenon
<1>1. /\ b \in Seq(Nat) /\ \A x : Elem(b, x) <=> Elem(l.batch, x) \/ Elem(lines, x)
      /\ \A x : Ends(lines, x) => Ends(b, x)
      /\ lines = <<>> => b = l.batch
  BY <1>0, ConcatIs, Zenon
<1>2. /\ c \in Seq(Nat) /\ \A x : Elem(c, x) <=> Elem(l.ring, x) \/ Elem(lines, x)
      /\ \A x : Ends(lines, x) => Ends(c, x)
      /\ lines = <<>> => c = l.ring
  BY <1>0, ConcatIs, Zenon
<1> HIDE DEF b, c
<1>3. /\ r \in Seq(Nat) /\ \A x : Elem(r, x) => Elem(c, x)
      /\ c = <<>> => r = <<>>
      /\ c # <<>> => r # <<>> /\ Ends(c, r[Len(r)])
  BY <1>2, CappedIs, Zenon
<1> HIDE DEF r
<1>4. Sunk(l, lines) = k
  BY DEF Sunk, Loggers, b, c, r
<1>5. k \in Loggers /\ k.sink = l.sink /\ k.bound = l.bound /\ k.batch = b /\ k.ring = r
  BY <1>1, <1>3, Zenon DEF Loggers
<1> HIDE DEF k
<1>6. RingKept(k, q, s)
  <2> SUFFICES ASSUME NEW i \in 1..Len(r) PROVE Elem(b, r[i]) \/ WillHave(q, s, r[i])
    BY <1>5, Zenon DEF RingKept
  <2>1. Elem(r, r[i])
    BY Zenon DEF Elem
  <2>2. Elem(l.ring, r[i]) \/ Elem(lines, r[i])
    BY <1>2, <1>3, <2>1, Zenon
  <2>3. Elem(l.ring, r[i]) => Elem(l.batch, r[i]) \/ WillHave(q, s, r[i])
    BY Zenon DEF RingKept, Elem
  <2> QED BY <1>1, <2>2, <2>3, Zenon
<1>7. EndKept(k, q, s)
  <2>1. CASE lines = <<>>
    <3>1. b = l.batch /\ c = l.ring
      BY <1>1, <1>2, <2>1, Zenon
    <3>2. CASE r = <<>>
      BY <1>5, <3>2, Zenon DEF EndKept
    <3>3. CASE r # <<>>
      <4>1. l.ring # <<>> /\ r[Len(r)] = l.ring[Len(l.ring)]
        BY <1>3, <3>1, <3>3, Zenon DEF Ends
      <4> QED BY <1>5, <3>1, <3>3, <4>1, Zenon DEF EndKept
    <3> QED BY <3>2, <3>3, Zenon
  <2>2. CASE lines # <<>>
    <3> DEFINE x == lines[Len(lines)]
    <3>1. Ends(lines, x)
      BY <2>2, Zenon DEF Ends
    <3>2. Ends(b, x) /\ Ends(c, x)
      BY <1>1, <1>2, <3>1, Zenon
    <3>3. r # <<>> /\ r[Len(r)] = x /\ b # <<>>
      BY <1>3, <3>2, Zenon DEF Ends
    <3> QED BY <1>5, <3>2, <3>3, Zenon DEF EndKept
  <2> QED BY <2>1, <2>2, Zenon
<1> QED BY <1>4, <1>5, <1>6, <1>7, Zenon DEF b, c, r

LEMMA LoggerFlushKeeps ==
  ASSUME PanelInv, LoggerFlush
  PROVE  PanelInv'
<1>0. TypeInv /\ ClosedInv /\ HostInv /\ TreeInv /\ LogInv
  BY Zenon DEF PanelInv
<1>1. UNCHANGED <<disk, ws, host, fs, view, toView, toHost, lost, events>>
  BY Zenon DEF LoggerFlush
<1>2. logger \in Loggers /\ logger.flush \in Seq(Nat)
  BY <1>0, LoggerTypes, Zenon DEF TypeInv
<1> DEFINE k == Sunk(logger, logger.flush)
<1>a. HostInv' /\ TreeInv'
  BY <1>0, <1>1, Zenon DEF HostInv, TreeInv, Coming, Fresh
<1>3. CASE ~logger.sink
  <2>1. logger' = [logger EXCEPT !.flush = <<>>]
    BY <1>3, Zenon DEF LoggerFlush
  <2>2. /\ logger' \in Loggers /\ logger'.ring = logger.ring /\ logger'.batch = logger.batch
        /\ logger'.bound = logger.bound /\ logger'.sink = logger.sink
    <3>1. <<>> \in Seq(Nat)
      OBVIOUS
    <3> QED BY <1>2, <2>1, <3>1, Zenon DEF Loggers
  <2>3. LogInv'
    BY <1>0, <1>3, <2>2, Zenon DEF LogInv
  <2>4. TypeInv' /\ ClosedInv'
    BY <1>0, <1>1, <2>2, Zenon DEF TypeInv, ClosedInv
  <2> QED BY <1>a, <2>3, <2>4, Zenon DEF PanelInv
<1>4. CASE logger.sink
  <2>1. logger' = [k EXCEPT !.flush = <<>>]
    BY <1>4, Zenon DEF LoggerFlush
  <2>2. RingKept(logger, toView, view.log) /\ EndKept(logger, toView, view.log) /\ logger.bound
    BY <1>0, <1>4, Zenon DEF LogInv
  <2>3. /\ k \in Loggers /\ k.sink = logger.sink /\ k.bound = logger.bound
        /\ RingKept(k, toView, view.log) /\ EndKept(k, toView, view.log)
    BY <1>2, <2>2, SunkKeeps, Zenon
  <2> HIDE DEF k
  <2>4. /\ logger' \in Loggers /\ logger'.ring = k.ring /\ logger'.batch = k.batch
        /\ logger'.bound = k.bound /\ logger'.sink = k.sink
    <3>1. <<>> \in Seq(Nat)
      OBVIOUS
    <3> QED BY <2>1, <2>3, <3>1, Zenon DEF Loggers
  <2>5. RingKept(logger', toView', view'.log) /\ EndKept(logger', toView', view'.log)
    BY <1>1, <2>3, <2>4, Zenon DEF RingKept, EndKept
  <2>6. LogInv'
    BY <2>2, <2>3, <2>4, <2>5, Zenon DEF LogInv
  <2>7. TypeInv' /\ ClosedInv'
    BY <1>0, <1>1, <2>3, <2>4, Zenon DEF TypeInv, ClosedInv
  <2> QED BY <1>a, <2>6, <2>7, Zenon DEF PanelInv
<1> QED BY <1>2, <1>3, <1>4, Zenon

LEMMA SinkFlushKeeps ==
  ASSUME PanelInv, SinkFlush
  PROVE  PanelInv'
<1>0. TypeInv /\ ClosedInv /\ HostInv /\ TreeInv /\ LogInv
  BY Zenon DEF PanelInv
<1> DEFINE m == [type |-> "appendLog", lines |-> logger.batch]
<1>1. /\ UNCHANGED <<disk, ws, host, fs, view, toHost, lost, events>>
      /\ logger.batch # <<>> /\ logger' = [logger EXCEPT !.batch = <<>>]
      /\ toView' = IF host.alive THEN Append(toView, m) ELSE toView
  BY Zenon DEF SinkFlush
<1>2. logger \in Loggers /\ toView \in Seq(ViewMsgs) /\ logger.batch \in Seq(Nat)
  BY <1>0, LoggerTypes, Zenon DEF TypeInv
<1>3. /\ m \in ViewMsgs /\ m.type = "appendLog" /\ m.lines = logger.batch
      /\ m.type \notin Clears \cup {"list.result"} /\ m.type \in Carries
  BY <1>2 DEF ViewMsgs, Carries, Clears
<1>4. /\ logger' \in Loggers /\ logger'.ring = logger.ring /\ logger'.batch = <<>>
      /\ logger'.bound = logger.bound /\ logger'.sink = logger.sink
  <2>1. <<>> \in Seq(Nat)
    OBVIOUS
  <2> QED BY <1>1, <1>2, <2>1, Zenon DEF Loggers
<1> HIDE DEF m
<1>5. Posted({"list.result"}) /\ Asked
  BY <1>1, <1>3, Zenon DEF Posted, Asked
<1>6. TypeInv'
  BY <1>0, <1>1, <1>2, <1>4, <1>5, PostedIs, Zenon DEF TypeInv
<1>7. ClosedInv'
  BY <1>0, <1>1, <1>4, Zenon DEF ClosedInv
<1>8. HostInv'
  BY <1>0, <1>1, <1>5, HostStays, Zenon
<1>9. TreeInv'
  BY <1>0, <1>1, <1>5, TreeStays, Zenon
<1>10. LogInv'
  <2> SUFFICES ASSUME logger.sink
               PROVE  RingKept(logger', toView', view'.log) /\ EndKept(logger', toView', view'.log)
    BY <1>0, <1>4, Zenon DEF LogInv
  <2>1. /\ RingKept(logger, toView, view.log) /\ EndKept(logger, toView, view.log)
        /\ toView' = Append(toView, m)
    BY <1>0, <1>1, Zenon DEF LogInv, ClosedInv
  <2>2. \A x : /\ WillHave(toView, view.log, x) => WillHave(toView', view'.log, x)
               /\ Elem(logger.batch, x) => WillHave(toView', view'.log, x)
               /\ Ends(logger.batch, x) => WillEnd(toView', view'.log, x)
    BY <1>1, <1>2, <1>3, <2>1, LogSent, Zenon
  <2>3. RingKept(logger', toView', view'.log)
    BY <1>4, <2>1, <2>2, Zenon DEF RingKept
  <2>4. EndKept(logger', toView', view'.log)
    BY <1>1, <1>4, <2>1, <2>2, Zenon DEF EndKept
  <2> QED BY <2>3, <2>4, Zenon
<1> QED BY <1>6, <1>7, <1>8, <1>9, <1>10, Zenon DEF PanelInv

-----------------------------------------------------------------------------
(* The view is created and closed. *)
LEMMA ResolveKeeps ==
  ASSUME PanelInv, ResolveWebviewView
  PROVE  PanelInv'
<1>0. TypeInv /\ ClosedInv /\ HostInv /\ TreeInv /\ LogInv
  BY Zenon DEF PanelInv
<1>1. /\ UNCHANGED <<disk, ws, fs, lost, events>> /\ view' = NoView
      /\ toView' = <<>> /\ toHost' = <<>> /\ ~host.alive
      /\ host' = [NoHost EXCEPT !.alive = TRUE]
  BY Zenon DEF ResolveWebviewView
<1>2. /\ host' \in Hosts /\ host'.alive /\ host'.info = None /\ ~host'.sent
      /\ ~host'.pending /\ ~host'.inflight
  <2>1. host' \in Hosts
    BY <1>1, IdleTypes, Zenon DEF Hosts
  <2>2. /\ host'.alive = TRUE /\ host'.info = NoHost.info /\ host'.sent = NoHost.sent
        /\ host'.pending = NoHost.pending /\ host'.inflight = NoHost.inflight
    BY <1>1, IdleTypes DEF Hosts
  <2>3. NoHost.info = None /\ ~NoHost.sent /\ ~NoHost.pending /\ ~NoHost.inflight
    BY DEF NoHost
  <2> QED BY <2>1, <2>2, <2>3, Zenon
<1>3. ~view'.ready /\ view'.log = <<>>
  BY <1>1 DEF NoView
<1>4. logger \in Loggers /\ logger.buffer \in Seq(Nat) /\ ~logger.sink
  BY <1>0, <1>1, LoggerTypes, Zenon DEF TypeInv, ClosedInv
<1>5. logger' \in Loggers /\ LogInv'
  <2>1. CASE logger.bound
    <3>1. logger' = logger
      BY <2>1, Zenon DEF ResolveWebviewView
    <3> QED BY <1>4, <2>1, <3>1, Zenon DEF LogInv
  <2>2. CASE ~logger.bound
    <3> DEFINE k == Sunk(logger, logger.buffer)
    <3>1. logger' = [k EXCEPT !.sink = TRUE, !.bound = TRUE]
      BY <2>2, Zenon DEF ResolveWebviewView
    <3>2. logger.ring = <<>>
      BY <1>0, <2>2, Zenon DEF LogInv
    <3>3. 1..Len(<<>>) = {}
      OBVIOUS
    <3>4. RingKept(logger, toView', view'.log) /\ EndKept(logger, toView', view'.log)
      BY <3>2, <3>3, Zenon DEF RingKept, EndKept
    <3>5. k \in Loggers /\ RingKept(k, toView', view'.log) /\ EndKept(k, toView', view'.log)
      BY <1>4, <3>4, SunkKeeps, Zenon
    <3> HIDE DEF k
    <3>6. logger' \in Loggers /\ logger'.ring = k.ring /\ logger'.batch = k.batch /\ logger'.bound
      BY <3>1, <3>5, Zenon DEF Loggers
    <3>7. RingKept(logger', toView', view'.log) /\ EndKept(logger', toView', view'.log)
      BY <3>5, <3>6, Zenon DEF RingKept, EndKept
    <3> QED BY <3>6, <3>7, Zenon DEF LogInv
  <2> QED BY <2>1, <2>2, Zenon
<1>6. TypeInv'
  <2>1. toView' \in Seq(ViewMsgs) /\ toHost' \in Seq(HostMsgs)
    BY <1>1
  <2> QED BY <1>0, <1>1, <1>2, <1>5, <2>1, IdleTypes, Zenon DEF TypeInv
<1>7. ClosedInv' /\ HostInv' /\ TreeInv'
  BY <1>2, <1>3, Zenon DEF ClosedInv, HostInv, TreeInv, Coming, Busy
<1> QED BY <1>5, <1>6, <1>7, Zenon DEF PanelInv

LEMMA DisposeKeeps ==
  ASSUME PanelInv, OnDidDispose
  PROVE  PanelInv'
<1>0. TypeInv /\ LogInv
  BY Zenon DEF PanelInv
<1>1. /\ UNCHANGED <<disk, ws, lost>> /\ host' = NoHost /\ view' = NoView /\ fs' = FALSE
      /\ toView' = <<>> /\ toHost' = <<>> /\ logger' = [logger EXCEPT !.sink = FALSE]
      /\ events' = events + 1
  BY Zenon DEF OnDidDispose, Event
<1>2. logger \in Loggers /\ events \in Nat
  BY <1>0, Zenon DEF TypeInv
<1>3. /\ ~host'.alive /\ host'.info = None /\ ~host'.sent /\ ~host'.pending
      /\ ~host'.inflight /\ ~view'.ready
  BY <1>1 DEF NoHost, NoView
<1>4. /\ logger' \in Loggers /\ ~logger'.sink /\ logger'.ring = logger.ring
      /\ logger'.batch = logger.batch /\ logger'.bound = logger.bound
  BY <1>1, <1>2, Zenon DEF Loggers
<1>5. TypeInv'
  <2>1. toView' \in Seq(ViewMsgs) /\ toHost' \in Seq(HostMsgs) /\ events' \in Nat
    BY <1>1, <1>2
  <2> QED BY <1>0, <1>1, <1>4, <2>1, IdleTypes, Zenon DEF TypeInv
<1>6. ClosedInv' /\ HostInv' /\ TreeInv'
  BY <1>1, <1>3, <1>4, Zenon DEF ClosedInv, HostInv, TreeInv
<1>7. LogInv'
  BY <1>0, <1>4, Zenon DEF LogInv
<1> QED BY <1>5, <1>6, <1>7, Zenon DEF PanelInv

-----------------------------------------------------------------------------
(* The explorer bridge: only that of an open view has anything to do. *)
LEMMA OpenIf ==
  ASSUME ClosedInv,
         \/ fs \/ host.timer \/ host.again > 0 \/ host.reads # <<>> \/ host.resolving > 0
         \/ host.posting > 0 \/ host.initing > 0 \/ host.info # None
         \/ toView # <<>> \/ toHost # <<>> \/ view.ready
  PROVE  host.alive
<1>1. /\ ~NoHost.timer /\ ~(NoHost.again > 0) /\ NoHost.reads = <<>> /\ ~(NoHost.resolving > 0)
      /\ ~(NoHost.posting > 0) /\ ~(NoHost.initing > 0) /\ NoHost.info = None /\ ~NoView.ready
  BY DEF NoHost, NoView
<1> QED BY <1>1, Zenon DEF ClosedInv

(* As long as the folder is not known, a refresh is on its way. *)
LEMMA UnknownIsBusy ==
  ASSUME HostInv, host.info = None
  PROVE  Busy(host)
  BY Zenon DEF HostInv, Busy

LEMMA DiskChangeKeeps ==
  ASSUME PanelInv, DiskChange
  PROVE  PanelInv'
<1>0. TypeInv /\ ClosedInv /\ HostInv /\ TreeInv /\ LogInv
  BY Zenon DEF PanelInv
<1>1. UNCHANGED <<ws, host, logger, view, toView, toHost, lost>> /\ events' = events + 1
  BY Zenon DEF DiskChange, Event
<1>2. PICK s \in Spaces, n \in Names : disk' = [disk EXCEPT ![s] = Toggled(@, n)] /\ fs' = (fs \/ host.watch = s)
  BY Zenon DEF DiskChange, Touch
<1>3. disk \in [Spaces -> SUBSET Names] /\ events \in Nat /\ host \in Hosts
  BY <1>0, Zenon DEF TypeInv
<1>4. /\ disk' \in [Spaces -> SUBSET Names]
      /\ \A w \in Spaces : w # s => disk'[w] = disk[w]
  <2>1. Toggled(disk[s], n) \in SUBSET Names
    BY <1>3 DEF Toggled
  <2> QED BY <1>2, <1>3, <2>1
<1>5. TypeInv'
  <2>1. events' \in Nat
    BY <1>1, <1>3
  <2>2. fs' \in BOOLEAN
    BY <1>2, Zenon
  <2> QED BY <1>0, <1>1, <1>4, <2>1, <2>2, Zenon DEF TypeInv
<1>6. ClosedInv'
  <2>1. NoHost.watch # s
    BY PanelAssumption DEF NoHost
  <2> QED BY <1>0, <1>1, <1>2, <2>1, Zenon DEF ClosedInv
<1>7. HostInv' /\ LogInv'
  BY <1>0, <1>1, Zenon DEF HostInv, LogInv
<1>8. TreeInv'
  <2>1. CASE fs'
    BY <2>1, Zenon DEF TreeInv, Coming
  <2>2. CASE host.info = None
    BY <1>0, <1>1, <2>2, UnknownIsBusy, Zenon DEF TreeInv, Coming
  <2>3. CASE ~fs' /\ host.info # None
    <3>1. host.info \in Spaces /\ host.info # s
      BY <1>0, <1>2, <1>3, <2>3, HostTypes, Zenon DEF HostInv
    <3>2. disk'[host.info] = disk[host.info] /\ ~fs
      BY <1>2, <1>4, <2>3, <3>1, Zenon
    <3> QED BY <1>0, <1>1, <3>2, Zenon DEF TreeInv, Coming, Fresh
  <2> QED BY <2>1, <2>2, <2>3, Zenon
<1> QED BY <1>5, <1>6, <1>7, <1>8, Zenon DEF PanelInv

LEMMA FsEventKeeps ==
  ASSUME PanelInv, HandleFsEvent
  PROVE  PanelInv'
<1>0. TypeInv /\ ClosedInv /\ HostInv /\ TreeInv /\ LogInv
  BY Zenon DEF PanelInv
<1> DEFINE g == Known(host)
<1>1. /\ UNCHANGED <<disk, ws, logger, view, toView, toHost, lost, events>>
      /\ fs /\ fs' = FALSE /\ host' = Schedule(g)
  BY Zenon DEF HandleFsEvent, Known
<1>2. host \in Hosts /\ ws \in Spaces /\ host.alive
  BY <1>0, <1>1, OpenIf, Zenon DEF TypeInv
<1>3. /\ g \in Hosts /\ g.info \in Spaces /\ g.watch = g.info
      /\ g.alive = host.alive /\ g.inflight = host.inflight
      /\ g.pending = host.pending /\ g.reads = host.reads
      /\ g.initing = host.initing /\ g.sent = host.sent
  BY <1>0, <1>2, KnownIs, Zenon DEF HostInv
<1> HIDE DEF g
<1>4. /\ host' \in Hosts /\ host'.info = g.info /\ host'.watch = g.watch
      /\ host'.alive = g.alive /\ host'.inflight = g.inflight /\ host'.reads = g.reads
      /\ host'.initing = g.initing /\ host'.sent = g.sent
      /\ host'.timer \/ host'.pending
      /\ host'.pending => g.pending \/ host'.inflight
  BY <1>1, <1>3, ScheduleIs, Zenon
<1>5. host'.info # None
  BY <1>3, <1>4, PanelAssumption, Zenon
<1>6. TypeInv' /\ LogInv'
  BY <1>0, <1>1, <1>4, Zenon DEF TypeInv, LogInv
<1>7. ClosedInv' /\ TreeInv'
  BY <1>2, <1>3, <1>4, Zenon DEF ClosedInv, TreeInv, Coming, Busy
<1>8. HostInv'
  BY <1>0, <1>1, <1>3, <1>4, <1>5, Zenon DEF HostInv
<1> QED BY <1>6, <1>7, <1>8, Zenon DEF PanelInv

LEMMA TimerKeeps ==
  ASSUME PanelInv, CoalescerTimer
  PROVE  PanelInv'
<1>0. TypeInv /\ ClosedInv /\ HostInv /\ TreeInv /\ LogInv
  BY Zenon DEF PanelInv
<1>1. UNCHANGED <<disk, ws, fs, logger, view, toView, toHost, lost, events>>
  BY Zenon DEF CoalescerTimer
<1>2. host \in Hosts /\ ws \in Spaces /\ host.alive
  <2>1. host.timer \/ host.again > 0
    BY Zenon DEF CoalescerTimer
  <2> QED BY <1>0, <2>1, OpenIf, Zenon DEF TypeInv
<1>3. PICK h \in Hosts : /\ host' = Execute(h) /\ h.info = host.info /\ h.watch = host.watch
                         /\ h.alive = host.alive /\ h.inflight = host.inflight
                         /\ h.pending = host.pending /\ h.reads = host.reads
                         /\ h.resolving = host.resolving /\ h.initing = host.initing
                         /\ h.sent = host.sent
  <2>1. CASE host.timer /\ host' = Execute([host EXCEPT !.timer = FALSE])
    <3> DEFINE h == [host EXCEPT !.timer = FALSE]
    <3>1. /\ h \in Hosts /\ h.info = host.info /\ h.watch = host.watch
          /\ h.alive = host.alive /\ h.inflight = host.inflight
          /\ h.pending = host.pending /\ h.reads = host.reads
          /\ h.resolving = host.resolving /\ h.initing = host.initing
          /\ h.sent = host.sent
      BY <1>2, Zenon DEF Hosts
    <3> HIDE DEF h
    <3> QED BY <2>1, <3>1, Zenon DEF h
  <2>2. CASE host.again > 0 /\ host' = Execute([host EXCEPT !.again = @ - 1])
    <3> DEFINE h == [host EXCEPT !.again = @ - 1]
    <3>1. host.again - 1 \in Nat
      BY <1>2, <2>2, HostTypes
    <3>2. /\ h \in Hosts /\ h.info = host.info /\ h.watch = host.watch
          /\ h.alive = host.alive /\ h.inflight = host.inflight
          /\ h.pending = host.pending /\ h.reads = host.reads
          /\ h.resolving = host.resolving /\ h.initing = host.initing
          /\ h.sent = host.sent
      BY <1>2, <3>1, Zenon DEF Hosts
    <3> HIDE DEF h
    <3> QED BY <2>2, <3>2, Zenon DEF h
  <2> QED BY <2>1, <2>2, Zenon DEF CoalescerTimer
<1>4. h.info # None => h.watch = h.info
  BY <1>0, <1>3, Zenon DEF HostInv
<1>5. /\ host' \in Hosts /\ (host'.info # None => host'.watch = host'.info)
      /\ h.info # None => host'.info # None
      /\ host'.alive = h.alive /\ host'.inflight /\ host'.resolving = h.resolving
      /\ host'.initing = h.initing /\ host'.sent = h.sent
      /\ \/ h.inflight /\ host'.pending /\ host'.reads = h.reads
         \/ /\ ~h.inflight /\ host'.reads # <<>> /\ host'.info # None
            /\ LastRead(host').ws = host'.info /\ LastRead(host').items = None
            /\ \E i \in 1..Len(host'.reads) : host'.reads[i].coalesced
  <2> DEFINE g == Execute(h)
  <2>1. /\ g \in Hosts /\ (g.info # None => g.watch = g.info)
        /\ h.info # None => g.info # None
        /\ g.alive = h.alive /\ g.inflight /\ g.resolving = h.resolving
        /\ g.initing = h.initing /\ g.sent = h.sent
        /\ \/ h.inflight /\ g.pending /\ g.reads = h.reads
           \/ /\ ~h.inflight /\ g.reads # <<>> /\ g.info # None
              /\ LastRead(g).ws = g.info /\ LastRead(g).items = None
              /\ \E i \in 1..Len(g.reads) : g.reads[i].coalesced
    BY <1>2, <1>3, <1>4, ExecuteIs, Zenon
  <2>2. host' = g
    BY <1>3, Zenon
  <2> QED BY <2>1, <2>2, Zenon
<1>6. TypeInv' /\ LogInv'
  BY <1>0, <1>1, <1>5, Zenon DEF TypeInv, LogInv
<1>7. ClosedInv'
  BY <1>2, <1>3, <1>5, Zenon DEF ClosedInv
<1>8. HostInv'
  BY <1>0, <1>1, <1>3, <1>5, Zenon DEF HostInv
<1>9. TreeInv'
  <2>1. host'.pending => Coming'
    BY Zenon DEF Coming, Busy
  <2>2. host'.reads # <<>> /\ LastRead(host').ws = host'.info /\ LastRead(host').items = None => Fresh'
    BY Zenon DEF Fresh
  <2> QED BY <1>5, <2>1, <2>2, Zenon DEF TreeInv
<1> QED BY <1>6, <1>7, <1>8, <1>9, Zenon DEF PanelInv

LEMMA ListReadKeeps ==
  ASSUME PanelInv, ListRead
  PROVE  PanelInv'
<1>0. TypeInv /\ ClosedInv /\ HostInv /\ TreeInv /\ LogInv
  BY Zenon DEF PanelInv
<1>1. UNCHANGED <<disk, ws, fs, logger, view, toView, toHost, lost, events>>
  BY Zenon DEF ListRead
<1>2. PICK i \in DOMAIN host.reads :
        host.reads[i].items = None /\ host' = [host EXCEPT !.reads[i].items = disk[host.reads[i].ws]]
  BY Zenon DEF ListRead
<1>3. host \in Hosts /\ host.reads \in Seq(Reads) /\ disk \in [Spaces -> SUBSET Names]
  BY <1>0, HostTypes, Zenon DEF TypeInv
<1> DEFINE n == Len(host.reads)
           d == disk[host.reads[i].ws]
           r == [host.reads[i] EXCEPT !.items = d]
           q == [host.reads EXCEPT ![i] = r]
<1>4. n \in Nat /\ DOMAIN host.reads = 1..n /\ i \in 1..n /\ host.reads[i] \in Reads
  BY <1>2, <1>3
<1>5. host.reads[i].ws \in Spaces /\ d \in Items
  <2>1. host.reads[i].ws \in Spaces
    BY <1>4 DEF Reads
  <2> QED BY <1>3, <2>1 DEF Items
<1>6. r \in Reads /\ r.ws = host.reads[i].ws /\ r.items = d /\ r.coalesced = host.reads[i].coalesced
  <2> HIDE DEF d
  <2> QED BY <1>4, <1>5 DEF Reads
<1>7. host' = [host EXCEPT !.reads = q]
  <2>1. [host EXCEPT !.reads[i].items = d] = [host EXCEPT !.reads = q]
    BY <1>3 DEF Hosts
  <2> QED BY <1>2, <2>1, Zenon
<1> HIDE DEF r
<1>8. /\ q \in Seq(Reads) /\ Len(q) = n /\ q[i] = r
      /\ \A j \in 1..n : j # i => q[j] = host.reads[j]
  BY <1>3, <1>4, <1>6
<1> HIDE DEF q, n, d
<1>9. /\ host' \in Hosts /\ host'.reads = q /\ host'.info = host.info /\ host'.watch = host.watch
      /\ host'.alive = host.alive /\ host'.timer = host.timer /\ host'.inflight = host.inflight
      /\ host'.pending = host.pending /\ host'.again = host.again
      /\ host'.resolving = host.resolving /\ host'.posting = host.posting
      /\ host'.initing = host.initing /\ host'.sent = host.sent
  BY <1>3, <1>7, <1>8, Zenon DEF Hosts
<1>10. \A j \in 1..n : q[j].coalesced = host.reads[j].coalesced /\ q[j].ws = host.reads[j].ws
  BY <1>4, <1>6, <1>8, Zenon
<1>11. host.reads # <<>> /\ q # <<>> /\ n \in 1..n
  BY <1>3, <1>4, <1>8 DEF n
<1>12. TypeInv' /\ LogInv'
  BY <1>0, <1>1, <1>9, Zenon DEF TypeInv, LogInv
<1>13. ClosedInv'
  BY <1>0, <1>9, <1>11, OpenIf, Zenon DEF ClosedInv
<1>14. HostInv'
  <2>1. host.inflight => \E j \in 1..n : q[j].coalesced
    BY <1>0, <1>10, Zenon DEF HostInv, n
  <2> QED BY <1>0, <1>1, <1>8, <1>9, <2>1, Zenon DEF HostInv
<1>15. TreeInv'
  <2>1. Coming => Coming'
    BY <1>1, <1>9, Zenon DEF Coming, Busy
  <2>2. LastRead(host') = q[n] /\ LastRead(host) = host.reads[n]
    BY <1>8, <1>9, Zenon DEF LastRead, n
  <2>3. Fresh => host.reads[n].ws = host.info /\ host.reads[n].items \in {None, disk[host.info]}
    BY <1>11, <2>2, Zenon DEF Fresh
  <2>4. CASE n = i
    <3>1. Fresh => q[n].ws = host.info /\ q[n].items = disk[host.info]
      BY <1>6, <1>8, <2>3, <2>4, Zenon DEF d
    <3> QED BY <1>0, <1>1, <1>9, <1>11, <2>1, <2>2, <3>1, Zenon DEF TreeInv, Fresh
  <2>5. CASE n # i
    <3>1. q[n] = host.reads[n]
      BY <1>8, <1>11, <2>5, Zenon
    <3> QED BY <1>0, <1>1, <1>9, <1>11, <2>1, <2>2, <2>3, <3>1, Zenon DEF TreeInv, Fresh
  <2> QED BY <2>4, <2>5, Zenon
<1> QED BY <1>12, <1>13, <1>14, <1>15, Zenon DEF PanelInv

LEMMA ListDoneKeeps ==
  ASSUME PanelInv, ListDone
  PROVE  PanelInv'
<1>0. TypeInv /\ ClosedInv /\ HostInv /\ TreeInv /\ LogInv
  BY Zenon DEF PanelInv
<1> DEFINE r == Head(host.reads)
           t == Tail(host.reads)
           h == [host EXCEPT !.reads = t]
           m == [type |-> "list.result", items |-> r.items]
<1>1. /\ UNCHANGED <<disk, ws, fs, logger, view, toHost, lost, events>>
      /\ host.reads # <<>> /\ r.items # None /\ toView' = Append(toView, m)
      /\ host' = IF r.coalesced THEN Finished(h) ELSE h
  BY DEF ListDone, Post
<1>2. host \in Hosts /\ host.reads \in Seq(Reads) /\ toView \in Seq(ViewMsgs)
  BY <1>0, HostTypes, Zenon DEF TypeInv
<1>3. /\ t \in Seq(Reads) /\ r = host.reads[1] /\ r \in Reads
      /\ Len(host.reads) \in Nat \ {0} /\ Len(t) = Len(host.reads) - 1
      /\ \A k \in 1..(Len(host.reads) - 1) : t[k] = host.reads[k + 1]
  BY <1>1, <1>2, TailIs, Zenon
<1> HIDE DEF r, t
<1>4. r.items \in Items /\ r.coalesced \in BOOLEAN
  BY <1>3 DEF Reads
<1>5. m \in ViewMsgs /\ m.type = "list.result" /\ m.items = r.items
  BY <1>4 DEF ViewMsgs
<1> HIDE DEF m
<1>6. /\ h \in Hosts /\ h.reads = t /\ h.info = host.info /\ h.watch = host.watch
      /\ h.alive = host.alive /\ h.timer = host.timer /\ h.inflight = host.inflight
      /\ h.pending = host.pending /\ h.again = host.again
      /\ h.resolving = host.resolving /\ h.posting = host.posting
      /\ h.initing = host.initing /\ h.sent = host.sent
  BY <1>2, <1>3, Zenon DEF Hosts
<1> HIDE DEF h
<1>7. /\ host' \in Hosts /\ host'.reads = t /\ host'.info = host.info /\ host'.watch = host.watch
      /\ host'.alive = host.alive /\ host'.timer = host.timer
      /\ host'.resolving = host.resolving /\ host'.posting = host.posting
      /\ host'.initing = host.initing /\ host'.sent = host.sent
      /\ \/ r.coalesced /\ ~host'.inflight /\ ~host'.pending
         \/ ~r.coalesced /\ host'.inflight = host.inflight /\ host'.pending = host.pending
      /\ host.again > 0 => host'.again > 0
      /\ host.pending => host'.again > 0 \/ host'.pending
  <2>1. CASE ~r.coalesced
    <3>1. host' = h
      BY <1>1, <2>1, Zenon
    <3> QED BY <1>6, <2>1, <3>1, Zenon
  <2>2. CASE r.coalesced
    <3> DEFINE a == IF h.pending THEN h.again + 1 ELSE h.again
    <3>1. host' = [h EXCEPT !.inflight = FALSE, !.pending = FALSE, !.again = a]
      BY <1>1, <1>6, <2>2 DEF Finished, Hosts
    <3>2. a \in Nat /\ (h.again > 0 => a > 0) /\ (h.pending => a > 0)
      BY <1>6, HostTypes
    <3> HIDE DEF a
    <3>3. /\ host' \in Hosts /\ host'.reads = h.reads /\ host'.info = h.info /\ host'.watch = h.watch
          /\ host'.alive = h.alive /\ host'.timer = h.timer
          /\ host'.resolving = h.resolving /\ host'.posting = h.posting
          /\ host'.initing = h.initing /\ host'.sent = h.sent
          /\ host'.inflight = FALSE /\ host'.pending = FALSE /\ host'.again = a
      BY <1>6, <3>1, <3>2, Zenon DEF Hosts
    <3> QED BY <1>6, <2>2, <3>2, <3>3, Zenon
  <2> QED BY <1>4, <2>1, <2>2, Zenon
<1>8. toView' \in Seq(ViewMsgs) /\ \A U : Has(toView, U) => Has(toView', U)
  BY <1>1, <1>2, <1>5, AppendIs, HasAppend, Zenon
<1>9. TypeInv'
  BY <1>0, <1>1, <1>7, <1>8, Zenon DEF TypeInv
<1>10. ClosedInv'
  BY <1>0, <1>1, <1>7, OpenIf, Zenon DEF ClosedInv
<1>11. HostInv'
  <2>1. ~r.coalesced /\ host.inflight => \E k \in 1..Len(t) : t[k].coalesced
    <3> SUFFICES ASSUME ~r.coalesced, NEW i \in 1..Len(host.reads), host.reads[i].coalesced
                 PROVE  \E k \in 1..Len(t) : t[k].coalesced
      BY <1>0, Zenon DEF HostInv
    <3>1. i # 1
      BY <1>3, Zenon
    <3>2. i - 1 \in 1..(Len(host.reads) - 1) /\ (i - 1) + 1 = i
      BY <1>3, <3>1
    <3> QED BY <1>3, <3>2, Zenon
  <2> QED BY <1>0, <1>1, <1>7, <1>8, <2>1, Zenon DEF HostInv
<1>12. TreeInv'
  <2>1. Coming => Coming'
    BY <1>1, <1>7, <1>8, Zenon DEF Coming, Busy
  <2>2. Fresh => LastRead(host).ws = host.info /\ LastRead(host).items \in {None, disk[host.info]}
    BY <1>1, Zenon DEF Fresh
  <2>3. CASE t = <<>>
    <3>1. Len(host.reads) = 1
      BY <1>3, <2>3
    <3>2. LastRead(host) = r
      BY <1>3, <3>1, Zenon DEF LastRead
    <3>3. Fresh => Shows(toView', view'.items, disk[host.info])
      BY <1>1, <1>2, <1>5, <2>2, <3>2, ShowsSent, Zenon
    <3> QED BY <1>0, <1>1, <1>7, <2>1, <2>3, <3>3, Zenon DEF TreeInv, Fresh
  <2>4. CASE t # <<>>
    <3>1. Len(t) \in 1..(Len(host.reads) - 1) /\ Len(t) + 1 = Len(host.reads)
      BY <1>3, <2>4
    <3>2. LastRead(host') = LastRead(host)
      BY <1>3, <1>7, <3>1, Zenon DEF LastRead
    <3> QED BY <1>0, <1>1, <1>7, <2>1, <2>2, <2>4, <3>2, Zenon DEF TreeInv, Fresh
  <2> QED BY <2>3, <2>4, Zenon
<1>13. LogInv'
  <2>1. m.type \notin LogTypes
    BY <1>5 DEF LogTypes, Clears, Carries
  <2>2. Posted(LogTypes)
    BY <1>1, <1>5, <2>1, Zenon DEF Posted
  <2> QED BY <1>0, <1>1, <2>2, LogStays, Zenon
<1> QED BY <1>9, <1>10, <1>11, <1>12, <1>13, Zenon DEF PanelInv

(* A message about the root or the state makes the webview ask for a list. *)
LEMMA AsksSent ==
  ASSUME TypeInv, NEW m \in ViewMsgs, toView' = Append(toView, m), m.type \in Asks
  PROVE  /\ toView' \in Seq(ViewMsgs) /\ Coming'
         /\ \A U : Has(toView, U) \/ m.type \in U => Has(toView', U)
<1>1. toView \in Seq(ViewMsgs)
  BY Zenon DEF TypeInv
<1>2. toView' \in Seq(ViewMsgs) /\ \A U : Has(toView, U) \/ m.type \in U => Has(toView', U)
  BY <1>1, AppendIs, HasAppend, Zenon
<1> QED BY <1>2, Zenon DEF Coming

LEMMA ResolvedKeeps ==
  ASSUME PanelInv, RefreshResolved
  PROVE  PanelInv'
<1>0. TypeInv /\ ClosedInv /\ HostInv /\ TreeInv /\ LogInv
  BY Zenon DEF PanelInv
<1> DEFINE g == Ensured(host)
<1>1. /\ UNCHANGED <<disk, ws, logger, view, toView, toHost, lost, events>>
      /\ host.resolving > 0 /\ fs' = FALSE
      /\ host' = [g EXCEPT !.resolving = @ - 1, !.posting = @ + 1]
  BY Zenon DEF RefreshResolved
<1>2. host \in Hosts /\ ws \in Spaces /\ host.alive
  BY <1>0, <1>1, OpenIf, Zenon DEF TypeInv
<1>3. /\ g \in Hosts /\ g.info = ws /\ g.watch = ws /\ g.resolving = host.resolving
      /\ g.alive = host.alive /\ g.inflight = host.inflight /\ g.pending = host.pending
      /\ g.reads = host.reads /\ g.initing = host.initing /\ g.sent = host.sent
  BY <1>2, EnsuredIs, Zenon
<1> HIDE DEF g
<1>4. g.resolving - 1 \in Nat /\ g.posting + 1 \in Nat /\ g.posting + 1 > 0
  BY <1>1, <1>3, HostTypes
<1>5. /\ host' \in Hosts /\ host'.info = ws /\ host'.watch = ws /\ host'.posting = g.posting + 1
      /\ host'.alive = host.alive /\ host'.inflight = host.inflight /\ host'.pending = host.pending
      /\ host'.reads = host.reads /\ host'.initing = host.initing /\ host'.sent = host.sent
  BY <1>1, <1>3, <1>4, Zenon DEF Hosts
<1>6. TypeInv' /\ LogInv'
  BY <1>0, <1>1, <1>5, Zenon DEF TypeInv, LogInv
<1>7. ClosedInv' /\ TreeInv'
  BY <1>2, <1>4, <1>5, Zenon DEF ClosedInv, TreeInv, Coming, Busy
<1>8. HostInv'
  <2>1. ws # None
    BY <1>2, PanelAssumption, Zenon
  <2> QED BY <1>0, <1>1, <1>5, <2>1, Zenon DEF HostInv
<1> QED BY <1>6, <1>7, <1>8, Zenon DEF PanelInv

LEMMA RefreshPostKeeps ==
  ASSUME PanelInv, RefreshPost
  PROVE  PanelInv'
<1>0. TypeInv /\ ClosedInv /\ HostInv /\ TreeInv /\ LogInv
  BY Zenon DEF PanelInv
<1> DEFINE m == [type |-> "root.changed"]
<1>1. /\ UNCHANGED <<disk, ws, fs, logger, view, toHost, lost, events>>
      /\ host.posting > 0 /\ host' = [host EXCEPT !.posting = @ - 1]
      /\ toView' = Append(toView, m)
  BY Zenon DEF RefreshPost, Post
<1>2. host \in Hosts /\ host.alive
  BY <1>0, <1>1, OpenIf, Zenon DEF TypeInv
<1>3. m \in ViewMsgs /\ m.type \in Asks /\ m.type \notin LogTypes
  BY DEF ViewMsgs, Asks, Resets, LogTypes, Clears, Carries
<1> HIDE DEF m
<1>4. host.posting - 1 \in Nat
  BY <1>1, <1>2, HostTypes
<1>5. /\ host' \in Hosts /\ host'.info = host.info /\ host'.watch = host.watch
      /\ host'.alive = host.alive /\ host'.inflight = host.inflight /\ host'.pending = host.pending
      /\ host'.reads = host.reads /\ host'.initing = host.initing /\ host'.sent = host.sent
      /\ host'.resolving = host.resolving
  BY <1>1, <1>2, <1>4, Zenon DEF Hosts
<1>6. /\ toView' \in Seq(ViewMsgs) /\ Coming' /\ \A U : Has(toView, U) => Has(toView', U)
  BY <1>0, <1>1, <1>3, AsksSent, Zenon
<1>7. Posted(LogTypes) /\ Asked
  BY <1>1, <1>3, Zenon DEF Posted, Asked
<1>8. TypeInv'
  BY <1>0, <1>1, <1>5, <1>6, Zenon DEF TypeInv
<1>9. LogInv'
  BY <1>0, <1>1, <1>7, LogStays, Zenon
<1>10. ClosedInv' /\ TreeInv'
  BY <1>2, <1>5, <1>6, Zenon DEF ClosedInv, TreeInv
<1>11. HostInv'
  BY <1>0, <1>1, <1>5, <1>7, HostStays, Zenon
<1> QED BY <1>8, <1>9, <1>10, <1>11, Zenon DEF PanelInv

LEMMA CleanupKeeps ==
  ASSUME PanelInv, Cleanup
  PROVE  PanelInv'
<1>0. TypeInv /\ ClosedInv /\ HostInv /\ TreeInv /\ LogInv
  BY Zenon DEF PanelInv
<1>1. /\ UNCHANGED <<disk, ws, logger, view, toView, toHost>> /\ events' = events + 1
      /\ host.info # None /\ host' = [host EXCEPT !.watch = host.info]
      /\ fs' = FALSE /\ lost' = (lost \/ fs)
  BY Zenon DEF Cleanup, Event
<1>2. host \in Hosts /\ host.alive /\ events \in Nat
  BY <1>0, <1>1, OpenIf, Zenon DEF TypeInv
<1>3. host' = host
  <2>1. host.watch = host.info
    BY <1>0, <1>1, Zenon DEF HostInv
  <2> QED BY <1>1, <1>2, <2>1 DEF Hosts
<1>4. TypeInv'
  <2>1. events' \in Nat
    BY <1>1, <1>2
  <2>2. lost' \in BOOLEAN
    BY <1>1, Zenon
  <2> QED BY <1>0, <1>1, <1>3, <2>1, <2>2, Zenon DEF TypeInv
<1>5. ClosedInv' /\ HostInv' /\ LogInv'
  BY <1>0, <1>1, <1>2, <1>3, Zenon DEF ClosedInv, HostInv, LogInv
<1>6. TreeInv'
  BY <1>0, <1>1, <1>3, Zenon DEF TreeInv, Coming, Fresh
<1> QED BY <1>4, <1>5, <1>6, Zenon DEF PanelInv

LEMMA InitSendKeeps ==
  ASSUME PanelInv, InitSend
  PROVE  PanelInv'
<1>0. TypeInv /\ ClosedInv /\ HostInv /\ TreeInv /\ LogInv
  BY Zenon DEF PanelInv
<1> DEFINE m == [type |-> "initState", lines |-> logger.ring]
           h == [host EXCEPT !.initing = @ - 1]
<1>1. /\ UNCHANGED <<disk, ws, fs, logger, view, toHost, lost, events>>
      /\ host.initing > 0 /\ host' = RefreshBegin(h) /\ toView' = Append(toView, m)
  BY Zenon DEF InitSend, Post
<1>2. host \in Hosts /\ host.alive /\ logger.ring \in Seq(Nat) /\ toView \in Seq(ViewMsgs)
  BY <1>0, <1>1, OpenIf, LoggerTypes, Zenon DEF TypeInv
<1>3. m \in ViewMsgs /\ m.type = "initState" /\ m.lines = logger.ring
  BY <1>2 DEF ViewMsgs, Carries
<1>4. m.type \in Asks /\ m.type \in Resets /\ m.type \in Carries
  BY <1>3 DEF Asks, Resets, Carries
<1> HIDE DEF m
<1>5. host.initing - 1 \in Nat
  BY <1>1, <1>2, HostTypes
<1>6. /\ h \in Hosts /\ h.alive = host.alive /\ h.inflight = host.inflight
      /\ h.pending = host.pending /\ h.reads = host.reads /\ h.sent = host.sent
  BY <1>2, <1>5, Zenon DEF Hosts
<1> HIDE DEF h
<1>7. /\ host' \in Hosts /\ host'.info = None /\ host'.resolving > 0
      /\ host'.alive = h.alive /\ host'.inflight = h.inflight
      /\ host'.pending = h.pending /\ host'.reads = h.reads /\ host'.sent = h.sent
  BY <1>1, <1>6, BeginIs, Zenon
<1>8. /\ toView' \in Seq(ViewMsgs) /\ Coming'
      /\ \A U : Has(toView, U) \/ m.type \in U => Has(toView', U)
  BY <1>0, <1>1, <1>3, <1>4, AsksSent, Zenon
<1>9. TypeInv'
  BY <1>0, <1>1, <1>7, <1>8, Zenon DEF TypeInv
<1>10. ClosedInv' /\ TreeInv'
  BY <1>2, <1>6, <1>7, <1>8, Zenon DEF ClosedInv, TreeInv
<1>11. HostInv'
  BY <1>0, <1>1, <1>4, <1>6, <1>7, <1>8, Zenon DEF HostInv
<1>12. LogInv'
  <2> SUFFICES ASSUME logger.sink
               PROVE  RingKept(logger', toView', view'.log) /\ EndKept(logger', toView', view'.log)
    BY <1>0, <1>1, Zenon DEF LogInv
  <2>1. /\ RingKept(logger, toView, view.log) /\ EndKept(logger, toView, view.log)
    BY <1>0, Zenon DEF LogInv
  <2>2. \A x : /\ Elem(logger.ring, x) => WillHave(toView', view'.log, x)
               /\ Ends(logger.ring, x) => WillEnd(toView', view'.log, x)
    BY <1>1, <1>2, <1>3, <1>4, LogSent, Zenon
  <2>3. \A i \in 1..Len(logger.ring) : Elem(logger.ring, logger.ring[i])
    BY Zenon DEF Elem
  <2>4. logger.ring # <<>> => Ends(logger.ring, logger.ring[Len(logger.ring)])
    BY Zenon DEF Ends
  <2>5. RingKept(logger', toView', view'.log)
    BY <1>1, <2>2, <2>3, Zenon DEF RingKept
  <2>6. EndKept(logger', toView', view'.log)
    BY <1>1, <2>1, <2>2, <2>4, Zenon DEF EndKept
  <2> QED BY <2>5, <2>6, Zenon
<1> QED BY <1>9, <1>10, <1>11, <1>12, Zenon DEF PanelInv

LEMMA VisibilityKeeps ==
  ASSUME PanelInv, OnDidChangeVisibility
  PROVE  PanelInv'
<1>0. TypeInv /\ ClosedInv /\ HostInv /\ TreeInv /\ LogInv
  BY Zenon DEF PanelInv
<1>1. /\ UNCHANGED <<disk, ws, fs, logger, view, toView, toHost, lost>> /\ events' = events + 1
      /\ host.alive /\ host' \in SendInit(host)
  BY Zenon DEF OnDidChangeVisibility, Event
<1>2. host \in Hosts /\ events \in Nat
  BY <1>0, Zenon DEF TypeInv
<1>3. /\ host' \in Hosts /\ host'.sent /\ (host' = host \/ host'.initing > 0)
      /\ host'.info = host.info /\ host'.watch = host.watch
      /\ host'.alive = host.alive /\ host'.inflight = host.inflight
      /\ host'.pending = host.pending /\ host'.reads = host.reads
      /\ host'.resolving = host.resolving
  BY <1>1, <1>2, SendIs, Zenon
<1>4. TypeInv' /\ LogInv'
  <2>1. events' \in Nat
    BY <1>1, <1>2
  <2> QED BY <1>0, <1>1, <1>3, <2>1, Zenon DEF TypeInv, LogInv
<1>5. ClosedInv' /\ HostInv'
  BY <1>0, <1>1, <1>3, Zenon DEF ClosedInv, HostInv
<1>6. TreeInv'
  <2>1. CASE host' = host
    BY <1>0, <1>1, <2>1, Zenon DEF TreeInv, Coming, Fresh
  <2>2. CASE host'.initing > 0
    BY <2>2, Zenon DEF TreeInv, Coming, Busy
  <2> QED BY <1>3, <2>1, <2>2, Zenon
<1> QED BY <1>4, <1>5, <1>6, Zenon DEF PanelInv

LEMMA WorkspaceChangedKeeps ==
  ASSUME PanelInv, WorkspaceChanged
  PROVE  PanelInv'
<1>0. TypeInv /\ ClosedInv /\ HostInv /\ TreeInv /\ LogInv
  BY Zenon DEF PanelInv
<1>1. /\ UNCHANGED <<disk, host, fs, logger, view, toView, toHost, lost>> /\ events' = events + 1
      /\ ws' \in Spaces /\ events \in Nat
  BY <1>0, Zenon DEF WorkspaceChanged, Event, TypeInv
<1>2. events' \in Nat
  BY <1>1
<1>3. TypeInv' /\ ClosedInv'
  BY <1>0, <1>1, <1>2, Zenon DEF TypeInv, ClosedInv
<1>4. HostInv' /\ LogInv'
  BY <1>0, <1>1, Zenon DEF HostInv, LogInv
<1>5. TreeInv'
  BY <1>0, <1>1, Zenon DEF TreeInv, Coming, Fresh
<1> QED BY <1>3, <1>4, <1>5, Zenon DEF PanelInv

-----------------------------------------------------------------------------
(* Messages to the host. *)

(* One message of the given type is taken by the host. *)
Taken(m) ==
  /\ m \in HostMsgs /\ toHost' \in Seq(HostMsgs) /\ host.alive
  /\ \A U : Has(toHost, U) <=> m.type \in U \/ Has(toHost', U)

LEMMA TakenIs ==
  ASSUME PanelInv, toHost # <<>>, toHost' = Tail(toHost)
  PROVE  Taken(Head(toHost))
<1>1. toHost \in Seq(HostMsgs) /\ ClosedInv
  BY Zenon DEF PanelInv, TypeInv
<1>2. host.alive
  BY <1>1, OpenIf, Zenon
<1> QED BY <1>1, <1>2, TailIs, HasTail, Zenon DEF Taken

LEMMA ListAskedKeeps ==
  ASSUME PanelInv, NEW m, Taken(m), m.type = "explorer.list", host' = Listing(host, FALSE),
         UNCHANGED <<disk, fs, logger, toView, ws, view, lost, events>>
  PROVE  PanelInv'
<1>0. TypeInv /\ ClosedInv /\ HostInv /\ TreeInv /\ LogInv
  BY Zenon DEF PanelInv
<1>1. /\ toHost' \in Seq(HostMsgs) /\ host.alive
      /\ \A U : Has(toHost, U) <=> m.type \in U \/ Has(toHost', U)
  BY Zenon DEF Taken
<1>2. host \in Hosts /\ ws \in Spaces
  BY <1>0, Zenon DEF TypeInv
<1>3. /\ host' \in Hosts /\ host'.info \in Spaces /\ host'.watch = host'.info
      /\ host'.alive = host.alive /\ host'.inflight = host.inflight /\ host'.pending = host.pending
      /\ host'.reads # <<>> /\ LastRead(host').ws = host'.info /\ LastRead(host').items = None
      /\ (\E i \in 1..Len(host.reads) : host.reads[i].coalesced)
           => \E i \in 1..Len(host'.reads) : host'.reads[i].coalesced
      /\ host'.initing = host.initing /\ host'.sent = host.sent
  BY <1>0, <1>2, ListingIs, Zenon DEF HostInv
<1>4. TypeInv' /\ LogInv'
  BY <1>0, <1>1, <1>3, Zenon DEF TypeInv, LogInv
<1>5. ClosedInv' /\ TreeInv'
  BY <1>1, <1>3, Zenon DEF ClosedInv, TreeInv, Fresh
<1>6. HostInv'
  <2>1. host'.info # None /\ m.type \notin {"ui.ready"}
    BY <1>3, PanelAssumption, Zenon
  <2>2. Has(toHost, {"ui.ready"}) => Has(toHost', {"ui.ready"})
    BY <1>1, <2>1, Zenon
  <2> QED BY <1>0, <1>3, <2>1, <2>2, Zenon DEF HostInv
<1> QED BY <1>4, <1>5, <1>6, Zenon DEF PanelInv

LEMMA EnsureAskedKeeps ==
  ASSUME PanelInv, NEW m, Taken(m), m.type = "workspace.ensure", host' = RefreshBegin(host),
         UNCHANGED <<disk, fs, logger, toView, ws, view, lost, events>>
  PROVE  PanelInv'
<1>0. TypeInv /\ ClosedInv /\ HostInv /\ TreeInv /\ LogInv
  BY Zenon DEF PanelInv
<1>1. /\ toHost' \in Seq(HostMsgs) /\ host.alive
      /\ \A U : Has(toHost, U) <=> m.type \in U \/ Has(toHost', U)
  BY Zenon DEF Taken
<1>2. host \in Hosts
  BY <1>0, Zenon DEF TypeInv
<1>3. /\ host' \in Hosts /\ host'.info = None /\ host'.resolving > 0
      /\ host'.alive = host.alive /\ host'.inflight = host.inflight
      /\ host'.pending = host.pending /\ host'.reads = host.reads
      /\ host'.initing = host.initing /\ host'.sent = host.sent
  BY <1>2, BeginIs, Zenon
<1>4. TypeInv' /\ LogInv'
  BY <1>0, <1>1, <1>3, Zenon DEF TypeInv, LogInv
<1>5. ClosedInv' /\ TreeInv'
  BY <1>1, <1>3, Zenon DEF ClosedInv, TreeInv, Coming, Busy
<1>6. HostInv'
  <2>1. m.type \notin {"ui.ready"}
    BY Zenon
  <2>2. Has(toHost, {"ui.ready"}) => Has(toHost', {"ui.ready"})
    BY <1>1, <2>1, Zenon
  <2> QED BY <1>0, <1>3, <2>2, Zenon DEF HostInv
<1> QED BY <1>4, <1>5, <1>6, Zenon DEF PanelInv

LEMMA ReadyKeeps ==
  ASSUME PanelInv, NEW m, Taken(m), m.type = "ui.ready", host' \in SendInit(host),
         UNCHANGED <<disk, fs, logger, toView, ws, view, lost, events>>
  PROVE  PanelInv'
<1>0. TypeInv /\ ClosedInv /\ HostInv /\ TreeInv /\ LogInv
  BY Zenon DEF PanelInv
<1>1. /\ toHost' \in Seq(HostMsgs) /\ host.alive
      /\ \A U : Has(toHost, U) <=> m.type \in U \/ Has(toHost', U)
  BY Zenon DEF Taken
<1>2. host \in Hosts
  BY <1>0, Zenon DEF TypeInv
<1>3. /\ host' \in Hosts /\ host'.sent /\ (host' = host \/ host'.initing > 0)
      /\ host'.info = host.info /\ host'.watch = host.watch
      /\ host'.alive = host.alive /\ host'.inflight = host.inflight
      /\ host'.pending = host.pending /\ host'.reads = host.reads
      /\ host'.resolving = host.resolving
  BY <1>2, SendIs, Zenon
<1>4. TypeInv' /\ LogInv'
  BY <1>0, <1>1, <1>3, Zenon DEF TypeInv, LogInv
<1>5. ClosedInv' /\ HostInv'
  BY <1>0, <1>1, <1>3, Zenon DEF ClosedInv, HostInv
<1>6. TreeInv'
  <2>1. CASE host' = host
    <3>1. m.type \notin Lists
      BY DEF Lists
    <3>2. Has(toHost, Lists) => Has(toHost', Lists)
      BY <1>1, <3>1, Zenon
    <3> QED BY <1>0, <2>1, <3>2, Zenon DEF TreeInv, Coming, Fresh
  <2>2. CASE host'.initing > 0
    BY <2>2, Zenon DEF TreeInv, Coming, Busy
  <2> QED BY <1>3, <2>1, <2>2, Zenon
<1> QED BY <1>4, <1>5, <1>6, Zenon DEF PanelInv

LEMMA ClearKeeps ==
  ASSUME PanelInv, NEW m, Taken(m), m.type = "debuglog.clear",
         logger' = [logger EXCEPT !.ring = <<>>], Post([type |-> "cleared"]),
         UNCHANGED <<disk, fs, host, ws, view, lost, events>>
  PROVE  PanelInv'
<1>0. TypeInv /\ ClosedInv /\ HostInv /\ TreeInv /\ LogInv
  BY Zenon DEF PanelInv
<1>1. /\ toHost' \in Seq(HostMsgs) /\ host.alive
      /\ \A U : Has(toHost, U) <=> m.type \in U \/ Has(toHost', U)
  BY Zenon DEF Taken
<1> DEFINE c == [type |-> "cleared"]
<1>2. c \in ViewMsgs /\ c.type = "cleared" /\ toView' = Append(toView, c)
  BY DEF ViewMsgs, Post
<1> HIDE DEF c
<1>3. logger \in Loggers /\ toView \in Seq(ViewMsgs)
  BY <1>0, Zenon DEF TypeInv
<1>4. /\ logger' \in Loggers /\ logger'.ring = <<>> /\ logger'.batch = logger.batch
      /\ logger'.bound = logger.bound /\ logger'.sink = logger.sink
  <2>1. <<>> \in Seq(Nat)
    OBVIOUS
  <2> QED BY <1>3, <2>1, Zenon DEF Loggers
<1>5. toView' \in Seq(ViewMsgs) /\ \A U : Has(toView, U) => Has(toView', U)
  BY <1>2, <1>3, AppendIs, HasAppend, Zenon
<1>6. TypeInv'
  BY <1>0, <1>1, <1>4, <1>5, Zenon DEF TypeInv
<1>7. ClosedInv'
  BY <1>1, Zenon DEF ClosedInv
<1>8. m.type \notin {"ui.ready"} /\ m.type \notin Lists
  BY DEF Lists
<1>9. /\ Has(toHost, {"ui.ready"}) => Has(toHost', {"ui.ready"})
      /\ Has(toHost, Lists) => Has(toHost', Lists)
  BY <1>1, <1>8, Zenon
<1>10. HostInv'
  BY <1>0, <1>5, <1>9, Zenon DEF HostInv
<1>11. TreeInv'
  <2>1. Shows(toView, view.items, disk[host.info]) => Shows(toView', view.items, disk[host.info])
    BY <1>2, <1>3, ShowsSent, Zenon
  <2> QED BY <1>0, <1>5, <1>9, <2>1, Zenon DEF TreeInv, Coming, Fresh
<1>12. LogInv'
  <2>1. 1..Len(<<>>) = {}
    OBVIOUS
  <2>2. RingKept(logger', toView', view'.log) /\ EndKept(logger', toView', view'.log)
    BY <1>4, <2>1, Zenon DEF RingKept, EndKept
  <2> QED BY <1>0, <1>4, <2>2, Zenon DEF LogInv
<1> QED BY <1>6, <1>7, <1>10, <1>11, <1>12, Zenon DEF PanelInv

LEMMA ExplorerChangeKeeps ==
  ASSUME PanelInv, NEW m, Taken(m), ExplorerChange(m), UNCHANGED <<ws, view, lost, events>>
  PROVE  PanelInv'
<1>0. TypeInv /\ ClosedInv /\ HostInv /\ TreeInv /\ LogInv
  BY Zenon DEF PanelInv
<1>1. /\ toHost' \in Seq(HostMsgs) /\ host.alive /\ m \in HostMsgs
      /\ \A U : Has(toHost, U) <=> m.type \in U \/ Has(toHost', U)
  BY Zenon DEF Taken
<1> DEFINE h == Known(host)
           there == m.name \in disk[h.info]
           a == [type |-> IF ~there /\ m.type = "explorer.delete" THEN "explorer.error" ELSE "explorer.ok"]
<1>2. /\ m.type \in {"explorer.create", "explorer.delete"} /\ host' = h /\ logger' = logger
      /\ toView' = Append(toView, a)
      /\ IF there = (m.type = "explorer.delete")
         THEN disk' = [disk EXCEPT ![h.info] = Toggled(@, m.name)] /\ fs' = TRUE
         ELSE disk' = disk /\ fs' = fs
  BY DEF ExplorerChange, Known, Post
<1>3. host \in Hosts /\ ws \in Spaces /\ toView \in Seq(ViewMsgs) /\ disk \in [Spaces -> SUBSET Names]
  BY <1>0, Zenon DEF TypeInv
<1>4. /\ h \in Hosts /\ h.info \in Spaces /\ h.watch = h.info
      /\ host.info # None => h = host
      /\ h.alive = host.alive /\ h.timer = host.timer /\ h.inflight = host.inflight
      /\ h.pending = host.pending /\ h.again = host.again /\ h.reads = host.reads
      /\ h.resolving = host.resolving /\ h.posting = host.posting
      /\ h.initing = host.initing /\ h.sent = host.sent
  BY <1>0, <1>3, KnownIs, Zenon DEF HostInv
<1> HIDE DEF h
<1>5. m.name \in Names
  BY <1>1, <1>2 DEF HostMsgs
<1>6. disk' \in [Spaces -> SUBSET Names] /\ fs' \in BOOLEAN
  <2>1. CASE there = (m.type = "explorer.delete")
    <3>1. Toggled(disk[h.info], m.name) \in SUBSET Names
      BY <1>3, <1>4, <1>5 DEF Toggled
    <3>2. disk' = [disk EXCEPT ![h.info] = Toggled(disk[h.info], m.name)] /\ fs' = TRUE
      BY <1>2, <2>1, Zenon
    <3> QED BY <1>3, <1>4, <3>1, <3>2
  <2>2. CASE ~(there = (m.type = "explorer.delete"))
    <3>1. disk' = disk /\ fs' = fs
      BY <1>2, <2>2, Zenon
    <3> QED BY <1>0, <3>1, Zenon DEF TypeInv
  <2> QED BY <2>1, <2>2, Zenon
<1>7. /\ a \in ViewMsgs /\ a.type \in {"explorer.ok", "explorer.error"}
      /\ a.type # "explorer.ok" => ~there /\ m.type = "explorer.delete"
  <2>1. CASE ~there /\ m.type = "explorer.delete"
    <3>1. a = [type |-> "explorer.error"]
      BY <2>1, Zenon
    <3> HIDE DEF a, there
    <3> QED BY <2>1, <3>1 DEF ViewMsgs
  <2>2. CASE ~(~there /\ m.type = "explorer.delete")
    <3>1. a = [type |-> "explorer.ok"]
      BY <2>2, Zenon
    <3> HIDE DEF a, there
    <3> QED BY <2>2, <3>1 DEF ViewMsgs
  <2> QED BY <2>1, <2>2, Zenon
<1> HIDE DEF a
<1>8. a.type \notin LogTypes /\ a.type \notin {"list.result"} /\ (a.type = "explorer.ok" => a.type \in Asks)
  BY <1>7 DEF LogTypes, Clears, Carries, Asks, Resets
<1>9. toView' \in Seq(ViewMsgs) /\ \A U : Has(toView, U) \/ a.type \in U => Has(toView', U)
  BY <1>2, <1>3, <1>7, AppendIs, HasAppend, Zenon
<1>10. TypeInv'
  BY <1>0, <1>1, <1>2, <1>4, <1>6, <1>9, Zenon DEF TypeInv
<1>11. ClosedInv'
  BY <1>1, <1>2, <1>4, Zenon DEF ClosedInv
<1>12. m.type \notin {"ui.ready"} /\ m.type \notin Lists
  BY <1>2 DEF Lists
<1>13. /\ Has(toHost, {"ui.ready"}) => Has(toHost', {"ui.ready"})
       /\ Has(toHost, Lists) => Has(toHost', Lists)
  BY <1>1, <1>12, Zenon
<1>14. HostInv'
  <2>1. h.info # None
    BY <1>4, PanelAssumption, Zenon
  <2> QED BY <1>0, <1>2, <1>4, <1>9, <1>13, <2>1, Zenon DEF HostInv
<1>15. LogInv'
  <2>1. Posted(LogTypes)
    BY <1>2, <1>7, <1>8, Zenon DEF Posted
  <2> QED BY <1>0, <1>2, <2>1, LogStays, Zenon
<1>16. TreeInv'
  <2>1. CASE a.type = "explorer.ok"
    BY <1>8, <1>9, <2>1, Zenon DEF TreeInv, Coming
  <2>2. CASE a.type # "explorer.ok" /\ host.info = None
    BY <1>0, <1>2, <1>4, <2>2, UnknownIsBusy, Zenon DEF TreeInv, Coming, Busy
  <2>3. CASE a.type # "explorer.ok" /\ host.info # None
    <3>1. disk' = disk /\ fs' = fs /\ host' = host
      <4>1. ~(there = (m.type = "explorer.delete"))
        BY <1>7, <2>3, Zenon
      <4> QED BY <1>2, <1>4, <2>3, <4>1, Zenon
    <3>2. Shows(toView, view.items, disk[host.info]) => Shows(toView', view.items, disk[host.info])
      BY <1>2, <1>3, <1>7, <1>8, ShowsSent, Zenon
    <3> QED BY <1>0, <1>9, <1>13, <3>1, <3>2, Zenon DEF TreeInv, Coming, Fresh
  <2> QED BY <2>1, <2>2, <2>3, Zenon
<1> QED BY <1>10, <1>11, <1>14, <1>15, <1>16, Zenon DEF PanelInv

LEMMA HostReceivesKeeps ==
  ASSUME PanelInv, HostReceives
  PROVE  PanelInv'
<1> DEFINE m == Head(toHost)
<1>1. toHost # <<>> /\ toHost' = Tail(toHost) /\ UNCHANGED <<ws, view, lost, events>>
  BY Zenon DEF HostReceives
<1>2. Taken(m)
  BY <1>1, TakenIs, Zenon
<1>3. \/ /\ m.type = "explorer.list" /\ host' = Listing(host, FALSE)
         /\ UNCHANGED <<disk, fs, logger, toView>>
      \/ ExplorerChange(m)
      \/ /\ m.type = "workspace.ensure" /\ host' = RefreshBegin(host)
         /\ UNCHANGED <<disk, fs, logger, toView>>
      \/ /\ m.type = "ui.ready" /\ host' \in SendInit(host)
         /\ UNCHANGED <<disk, fs, logger, toView>>
      \/ /\ m.type = "debuglog.clear" /\ logger' = [logger EXCEPT !.ring = <<>>]
         /\ Post([type |-> "cleared"]) /\ UNCHANGED <<disk, fs, host>>
  BY Zenon DEF HostReceives
<1> HIDE DEF m
<1> QED BY <1>1, <1>2, <1>3, ListAskedKeeps, ExplorerChangeKeeps, EnsureAskedKeeps, ReadyKeeps,
        ClearKeeps, Zenon

-----------------------------------------------------------------------------
(* Messages to the webview. *)

LEMMA ViewTypes ==
  ASSUME NEW v \in Views
  PROVE  /\ v.ready \in BOOLEAN /\ v.root \in BOOLEAN /\ v.items \in Items
         /\ v.explorer \in BOOLEAN /\ v.log \in Seq(Nat)
  BY DEF Views

(* The first message of the webview changes what other ones still find. *)
LEMMA AskIs ==
  ASSUME toHost \in Seq(HostMsgs), NEW a \in HostMsgs, toHost' = Append(toHost, a)
  PROVE  /\ toHost' \in Seq(HostMsgs)
         /\ \A U : Has(toHost, U) \/ a.type \in U => Has(toHost', U)
  BY AppendIs, HasAppend, Zenon

LEMMA ListIsAsked ==
  ASSUME toHost \in Seq(HostMsgs), AskList
  PROVE  /\ toHost' \in Seq(HostMsgs) /\ Has(toHost', Lists)
         /\ \A U : Has(toHost, U) => Has(toHost', U)
<1> DEFINE a == [type |-> "explorer.list"]
<1>1. a \in HostMsgs /\ a.type \in Lists /\ toHost' = Append(toHost, a)
  BY DEF HostMsgs, Lists, AskList, Ask
<1> HIDE DEF a
<1> QED BY <1>1, AskIs, Zenon

LEMMA BootstrapKeeps ==
  ASSUME PanelInv, Bootstrap
  PROVE  PanelInv'
<1>0. TypeInv /\ ClosedInv /\ HostInv /\ TreeInv /\ LogInv
  BY Zenon DEF PanelInv
<1> DEFINE a == [type |-> "ui.ready"]
<1>1. /\ UNCHANGED <<disk, ws, host, fs, logger, toView, lost, events>>
      /\ host.alive /\ view' = [view EXCEPT !.ready = TRUE] /\ toHost' = Append(toHost, a)
  BY Zenon DEF Bootstrap, Ask
<1>2. a \in HostMsgs /\ a.type = "ui.ready"
  BY DEF HostMsgs
<1> HIDE DEF a
<1>3. view \in Views /\ toHost \in Seq(HostMsgs)
  BY <1>0, Zenon DEF TypeInv
<1>4. view' \in Views /\ view'.root = view.root /\ view'.items = view.items /\ view'.log = view.log
  BY <1>1, <1>3, Zenon DEF Views
<1>5. a.type \in {"ui.ready"}
  BY <1>2, Zenon
<1>6. toHost' \in Seq(HostMsgs) /\ Has(toHost', {"ui.ready"}) /\ \A U : Has(toHost, U) => Has(toHost', U)
  BY <1>1, <1>2, <1>3, <1>5, AskIs, Zenon
<1>7. TypeInv' /\ ClosedInv'
  BY <1>0, <1>1, <1>4, <1>6, Zenon DEF TypeInv, ClosedInv
<1>8. HostInv'
  BY <1>0, <1>1, <1>4, <1>6, Zenon DEF HostInv
<1>9. TreeInv' /\ LogInv'
  BY <1>0, <1>1, <1>4, <1>6, Zenon DEF TreeInv, Coming, Fresh, LogInv
<1> QED BY <1>7, <1>8, <1>9, Zenon DEF PanelInv

(* What the page does with a message m. *)
PageTakes(m) ==
  /\ view' \in Views /\ view'.ready = view.ready /\ view'.log = LogAfter(m, view.log)
  /\ toHost' \in Seq(HostMsgs) /\ \A U : Has(toHost, U) => Has(toHost', U)
  /\ view.root \/ m.type \in Resets => view'.root
  /\ m.type \in Asks => Has(toHost', Lists)
  /\ m.type \notin Resets =>
       view'.items = IF m.type = "list.result" /\ view.root THEN m.items ELSE view.items

LEMMA FreshRootIs ==
  ASSUME view \in Views
  PROVE  /\ FreshRoot \in Views /\ FreshRoot.ready = view.ready /\ FreshRoot.root
         /\ FreshRoot.log = view.log
<1>1. None \in Items
  BY Zenon DEF Items
<1> QED BY <1>1, Zenon DEF FreshRoot, Views

LEMMA RootChangedTaken ==
  ASSUME TypeInv, NEW m \in ViewMsgs, OnRootChanged(m)
  PROVE  PageTakes(m)
<1>1. view \in Views /\ toHost \in Seq(HostMsgs)
  BY Zenon DEF TypeInv
<1>2. m.type = "root.changed" /\ view' = FreshRoot /\ AskList
  BY Zenon DEF OnRootChanged
<1>3. m.type \in Resets /\ LogAfter(m, view.log) = view.log
  BY <1>2 DEF Resets, LogAfter
<1> QED BY <1>1, <1>2, <1>3, ListIsAsked, FreshRootIs, Zenon DEF PageTakes

LEMMA InitStateTaken ==
  ASSUME TypeInv, NEW m \in ViewMsgs, OnInitState(m)
  PROVE  PageTakes(m)
<1>1. view \in Views /\ toHost \in Seq(HostMsgs)
  BY Zenon DEF TypeInv
<1>2. m.type = "initState" /\ view' = [FreshRoot EXCEPT !.log = m.lines] /\ AskList
  BY Zenon DEF OnInitState, LogReset
<1>3. m.type \in Resets /\ LogAfter(m, view.log) = m.lines /\ m.lines \in Seq(Nat)
  BY <1>2 DEF Resets, LogAfter, ViewMsgs
<1>4. FreshRoot \in Views /\ FreshRoot.ready = view.ready /\ FreshRoot.root
  BY <1>1, FreshRootIs, Zenon
<1>5. view' \in Views /\ view'.ready = FreshRoot.ready /\ view'.root = FreshRoot.root /\ view'.log = m.lines
  BY <1>2, <1>3, <1>4, Zenon DEF Views
<1> QED BY <1>1, <1>2, <1>3, <1>4, <1>5, ListIsAsked, Zenon DEF PageTakes

LEMMA LogTaken ==
  ASSUME TypeInv, NEW m \in ViewMsgs, OnLog(m)
  PROVE  PageTakes(m)
<1>1. view \in Views /\ toHost \in Seq(HostMsgs) /\ toHost' = toHost
  BY Zenon DEF TypeInv, OnLog
<1>2. \E s \in Seq(Nat) : view' = [view EXCEPT !.log = s] /\ s = LogAfter(m, view.log)
  <2>1. CASE m.type = "appendLog" /\ view' = LogAppend(view, m.lines)
    <3>1. m.lines \in Seq(Nat) /\ view.log \in Seq(Nat)
      BY <1>1, <2>1, ViewTypes DEF ViewMsgs
    <3>2. LogAfter(m, view.log) = view.log \o m.lines
      BY <2>1 DEF LogAfter
    <3>3. view' = [view EXCEPT !.log = view.log \o m.lines]
      BY <2>1 DEF LogAppend
    <3> QED BY <3>1, <3>2, <3>3, ConcatIs, Zenon
  <2>2. CASE m.type = "cleared" /\ view' = LogReset(view, <<>>)
    <3>1. <<>> \in Seq(Nat)
      OBVIOUS
    <3>2. LogAfter(m, view.log) = <<>>
      BY <2>2 DEF LogAfter
    <3> QED BY <2>2, <3>1, <3>2, Zenon DEF LogReset
  <2> QED BY <2>1, <2>2, Zenon DEF OnLog
<1>3. /\ view' \in Views /\ view'.ready = view.ready /\ view'.root = view.root
      /\ view'.items = view.items /\ view'.log = LogAfter(m, view.log)
  <2>1. PICK s \in Seq(Nat) : view' = [view EXCEPT !.log = s] /\ s = LogAfter(m, view.log)
    BY <1>2, Zenon
  <2>2. /\ view' \in Views /\ view'.ready = view.ready /\ view'.root = view.root
        /\ view'.items = view.items /\ view'.log = s
    BY <1>1, <2>1, Zenon DEF Views
  <2> QED BY <2>1, <2>2, Zenon
<1>4. m.type # "list.result" /\ m.type \notin Asks /\ (m.type \in Resets => m.type \in Asks)
  <2>1. m.type \in {"appendLog", "cleared"}
    BY Zenon DEF OnLog
  <2> QED BY <2>1 DEF Asks, Resets
<1> QED BY <1>1, <1>3, <1>4, Zenon DEF PageTakes

LEMMA ListResultTaken ==
  ASSUME TypeInv, NEW m \in ViewMsgs, OnListResult(m)
  PROVE  PageTakes(m)
<1>1. view \in Views /\ toHost \in Seq(HostMsgs) /\ toHost' = toHost /\ m.type = "list.result"
  BY Zenon DEF TypeInv, OnListResult
<1>2. m.items \in Items
  BY <1>1 DEF ViewMsgs, Carries
<1>3. /\ view' \in Views /\ view'.ready = view.ready /\ view'.root = view.root
      /\ view'.items = (IF view.root THEN m.items ELSE view.items) /\ view'.log = view.log
  <2>1. CASE view.root
    <3>1. view' = [view EXCEPT !.items = m.items]
      BY <2>1, Zenon DEF OnListResult, RenderChildren
    <3> QED BY <1>1, <1>2, <2>1, <3>1, Zenon DEF Views
  <2>2. CASE ~view.root
    BY <1>1, <2>2, Zenon DEF OnListResult
  <2> QED BY <2>1, <2>2, Zenon
<1>4. m.type \notin Asks /\ m.type \notin Resets /\ LogAfter(m, view.log) = view.log
  BY <1>1 DEF Asks, Resets, LogAfter
<1> QED BY <1>1, <1>3, <1>4, Zenon DEF PageTakes

LEMMA OkTaken ==
  ASSUME TypeInv, NEW m \in ViewMsgs, OnExplorerOk(m)
  PROVE  PageTakes(m)
<1>1. view \in Views /\ toHost \in Seq(HostMsgs) /\ view' = view
  BY Zenon DEF TypeInv, OnExplorerOk
<1>2. (m.type = "explorer.ok" /\ AskList) \/ (m.type = "explorer.error" /\ toHost' = toHost)
  BY Zenon DEF OnExplorerOk
<1>3. /\ m.type \notin Resets /\ m.type # "list.result" /\ LogAfter(m, view.log) = view.log
      /\ m.type = "explorer.error" => m.type \notin Asks
  BY <1>2 DEF Asks, Resets, LogAfter
<1> QED BY <1>1, <1>2, <1>3, ListIsAsked, Zenon DEF PageTakes

LEMMA ToggleTaken ==
  ASSUME TypeInv, NEW m \in ViewMsgs, OnToggleExplorer(m)
  PROVE  PageTakes(m)
<1>1. view \in Views /\ toHost \in Seq(HostMsgs)
  BY Zenon DEF TypeInv
<1> DEFINE a == [type |-> "workspace.ensure"]
           b == [type |-> "explorer.list"]
<1>2. /\ m.type = "ui.toggleExplorer"
      /\ view' = [view EXCEPT !.explorer = ~@, !.root = @ \/ ~view.explorer]
      /\ toHost' = IF view.explorer THEN toHost ELSE toHost \o <<a, b>>
  BY Zenon DEF OnToggleExplorer
<1>3. toHost' \in Seq(HostMsgs) /\ \A U : Has(toHost, U) => Has(toHost', U)
  <2>1. a \in HostMsgs /\ b \in HostMsgs
    BY DEF HostMsgs
  <2> HIDE DEF a, b
  <2>2. toHost \o <<a, b>> = Append(Append(toHost, a), b)
    BY <1>1, <2>1
  <2>3. Append(toHost, a) \in Seq(HostMsgs) /\ Append(Append(toHost, a), b) \in Seq(HostMsgs)
    BY <1>1, <2>1, AppendIs, Zenon
  <2>4. \A U : Has(toHost, U) => Has(Append(toHost, a), U)
    BY <1>1, <2>1, HasAppend, Zenon
  <2>5. \A U : Has(Append(toHost, a), U) => Has(Append(Append(toHost, a), b), U)
    BY <2>1, <2>3, HasAppend, Zenon
  <2> QED BY <1>1, <1>2, <2>2, <2>3, <2>4, <2>5, Zenon
<1>4. /\ view' \in Views /\ view'.ready = view.ready /\ (view.root => view'.root)
      /\ view'.items = view.items /\ view'.log = view.log
  <2> DEFINE e == ~view.explorer
             t == view.root \/ ~view.explorer
  <2>1. e \in BOOLEAN /\ t \in BOOLEAN /\ (view.root => t)
    BY Zenon
  <2>2. view' = [view EXCEPT !.explorer = e, !.root = t]
    BY <1>2, Zenon
  <2> HIDE DEF e, t
  <2>3. view' \in Views
    BY <1>1, <2>1, <2>2, Zenon DEF Views
  <2>4. /\ view'.ready = view.ready /\ view'.root = t
        /\ view'.items = view.items /\ view'.log = view.log
    BY <1>1, <2>2 DEF Views
  <2> QED BY <2>1, <2>3, <2>4, Zenon
<1>5. m.type \notin Asks /\ m.type \notin Resets /\ m.type # "list.result" /\ LogAfter(m, view.log) = view.log
  BY <1>2 DEF Asks, Resets, LogAfter
<1> QED BY <1>3, <1>4, <1>5, Zenon DEF PageTakes

LEMMA ViewReceivesKeeps ==
  ASSUME PanelInv, ViewReceives
  PROVE  PanelInv'
<1>0. TypeInv /\ ClosedInv /\ HostInv /\ TreeInv /\ LogInv
  BY Zenon DEF PanelInv
<1> DEFINE m == Head(toView)
<1>1. /\ toView # <<>> /\ toView' = Tail(toView) /\ view.ready
      /\ UNCHANGED <<disk, ws, host, fs, logger, lost, events>>
      /\ \/ OnRootChanged(m) \/ OnInitState(m) \/ OnLog(m)
         \/ OnListResult(m) \/ OnExplorerOk(m) \/ OnToggleExplorer(m)
  BY Zenon DEF ViewReceives
<1>2. toView \in Seq(ViewMsgs) /\ view \in Views
  BY <1>0, Zenon DEF TypeInv
<1>3. /\ m \in ViewMsgs /\ toView' \in Seq(ViewMsgs)
      /\ \A U : Has(toView, U) <=> m.type \in U \/ Has(toView', U)
  BY <1>1, <1>2, TailIs, HasTail, Zenon
<1>4. /\ \A v, d : Shows(toView, v, d)
          => Shows(toView', IF m.type = "list.result" THEN m.items ELSE v, d)
  BY <1>1, <1>2, ShowsReceived, Zenon
<1>5. \A x : /\ WillHave(toView, view.log, x) => WillHave(toView', LogAfter(m, view.log), x)
             /\ WillEnd(toView, view.log, x) => WillEnd(toView', LogAfter(m, view.log), x)
  BY <1>1, <1>2, HaveReceived, EndReceived, ViewTypes, Zenon
<1> HIDE DEF m
<1>6. PageTakes(m)
  BY <1>0, <1>1, <1>3, RootChangedTaken, InitStateTaken, LogTaken, ListResultTaken, OkTaken,
     ToggleTaken, Zenon
<1>7. /\ view' \in Views /\ view'.ready = view.ready /\ view'.log = LogAfter(m, view.log)
      /\ toHost' \in Seq(HostMsgs) /\ \A U : Has(toHost, U) => Has(toHost', U)
      /\ view.root \/ m.type \in Resets => view'.root
      /\ m.type \in Asks => Has(toHost', Lists)
      /\ m.type \notin Resets =>
           view'.items = IF m.type = "list.result" /\ view.root THEN m.items ELSE view.items
  BY <1>6, Zenon DEF PageTakes
<1>8. host.alive
  BY <1>0, <1>1, OpenIf, Zenon
<1>9. TypeInv' /\ ClosedInv'
  BY <1>0, <1>1, <1>3, <1>7, <1>8, Zenon DEF TypeInv, ClosedInv
<1>10. HostInv'
  BY <1>0, <1>1, <1>3, <1>7, Zenon DEF HostInv
<1>11. LogInv'
  <2>1. logger.sink => RingKept(logger, toView', view'.log) /\ EndKept(logger, toView', view'.log)
    BY <1>0, <1>5, <1>7, Zenon DEF LogInv, RingKept, EndKept
  <2> QED BY <1>0, <1>1, <2>1, Zenon DEF LogInv
<1>12. TreeInv'
  <2>0. SUFFICES ASSUME ~lost, ~Coming'
                 PROVE  Fresh'
    BY <1>1, Zenon DEF TreeInv
  <2>1. m.type \notin Asks /\ ~Busy(host) /\ ~Has(toView', Asks)
    BY <1>1, <1>7, <2>0, Zenon DEF Coming
  <2>2. ~Coming
    BY <1>1, <1>3, <1>7, <2>0, <2>1, Zenon DEF Coming
  <2>3. Fresh
    BY <1>0, <1>8, <2>0, <2>2, Zenon DEF TreeInv
  <2>4. CASE host.reads # <<>>
    BY <1>1, <2>3, <2>4, Zenon DEF Fresh
  <2>5. CASE host.reads = <<>>
    <3>1. Resets \subseteq Asks
      BY Zenon DEF Asks
    <3>2. ~Has(toView, Resets)
      BY <1>3, <2>1, <3>1, Zenon DEF Has
    <3>3. view.root
      BY <1>0, <2>1, <3>2, Zenon DEF HostInv, Busy
    <3>4. view'.items = IF m.type = "list.result" THEN m.items ELSE view.items
      BY <1>7, <2>1, <3>1, <3>3, Zenon
    <3>5. Shows(toView, view.items, disk[host.info])
      BY <2>3, <2>5, Zenon DEF Fresh
    <3>6. Shows(toView', view'.items, disk[host.info])
      BY <1>4, <3>4, <3>5, Zenon
    <3> QED BY <1>1, <2>5, <3>6, Zenon DEF Fresh
  <2> QED BY <2>4, <2>5, Zenon
<1> QED BY <1>9, <1>10, <1>11, <1>12, Zenon DEF PanelInv

LEMMA UserActsKeeps ==
  ASSUME PanelInv, UserActs
  PROVE  PanelInv'
<1>0. TypeInv /\ ClosedInv /\ HostInv /\ TreeInv /\ LogInv
  BY Zenon DEF PanelInv
<1>1. /\ UNCHANGED <<disk, ws, host, fs, logger, view, lost>> /\ events' = events + 1 /\ view.ready
      /\ events \in Nat /\ toView \in Seq(ViewMsgs) /\ toHost \in Seq(HostMsgs)
  BY <1>0, Zenon DEF UserActs, Event, TypeInv
<1>2. Posted(LogTypes) /\ Posted({"list.result"}) /\ Asked
  <2>1. CASE \E n \in Names : Ask([type |-> IF n \in view.items THEN "explorer.delete"
                                             ELSE "explorer.create", name |-> n])
                              /\ UNCHANGED toView
    <3>1. PICK n \in Names : /\ UNCHANGED toView
                             /\ Ask([type |-> IF n \in view.items THEN "explorer.delete"
                                              ELSE "explorer.create", name |-> n])
      BY <2>1, Zenon
    <3> DEFINE a == [type |-> IF n \in view.items THEN "explorer.delete" ELSE "explorer.create", name |-> n]
    <3>2. a \in HostMsgs
      BY DEF HostMsgs
    <3>3. toHost' = Append(toHost, a)
      BY <3>1, Zenon DEF Ask
    <3> QED BY <3>1, <3>2, <3>3, Zenon DEF Posted, Asked
  <2>2. CASE Ask([type |-> "debuglog.clear"]) /\ UNCHANGED toView
    <3>1. [type |-> "debuglog.clear"] \in HostMsgs
      BY DEF HostMsgs
    <3> QED BY <2>2, <3>1, Zenon DEF Posted, Asked, Ask
  <2>3. CASE Post([type |-> "ui.toggleExplorer"]) /\ UNCHANGED toHost
    <3> DEFINE a == [type |-> "ui.toggleExplorer"]
    <3>1. a \in ViewMsgs /\ a.type \notin LogTypes /\ a.type \notin {"list.result"}
      BY DEF ViewMsgs, LogTypes, Clears, Carries
    <3>2. toView' = Append(toView, a)
      BY <2>3, Zenon DEF Post
    <3> HIDE DEF a
    <3> QED BY <2>3, <3>1, <3>2, Zenon DEF Posted, Asked
  <2> QED BY <2>1, <2>2, <2>3, Zenon DEF UserActs
<1>3. host.alive
  BY <1>0, <1>1, OpenIf, Zenon
<1>4. toView' \in Seq(ViewMsgs) /\ toHost' \in Seq(HostMsgs)
  BY <1>1, <1>2, PostedIs, AskedIs, Zenon
<1>5. events' \in Nat
  BY <1>1
<1>6. TypeInv' /\ ClosedInv'
  BY <1>0, <1>1, <1>3, <1>4, <1>5, Zenon DEF TypeInv, ClosedInv
<1>7. HostInv'
  BY <1>0, <1>1, <1>2, HostStays, Zenon
<1>8. TreeInv'
  BY <1>0, <1>1, <1>2, TreeStays, Zenon
<1>9. LogInv'
  BY <1>0, <1>1, <1>2, LogStays, Zenon
<1> QED BY <1>6, <1>7, <1>8, <1>9, Zenon DEF PanelInv

-----------------------------------------------------------------------------
(* The theorems. *)

LEMMA PanelNext ==
  ASSUME PanelInv, [Next]_vars
  PROVE  PanelInv'
<1>1. CASE System
  <2>1. CASE LoggerFlush
    BY <2>1, LoggerFlushKeeps, Zenon
  <2>2. CASE SinkFlush
    BY <2>2, SinkFlushKeeps, Zenon
  <2>3. CASE ResolveWebviewView
    BY <2>3, ResolveKeeps, Zenon
  <2>4. CASE HandleFsEvent
    BY <2>4, FsEventKeeps, Zenon
  <2>5. CASE CoalescerTimer
    BY <2>5, TimerKeeps, Zenon
  <2>6. CASE ListRead
    BY <2>6, ListReadKeeps, Zenon
  <2>7. CASE ListDone
    BY <2>7, ListDoneKeeps, Zenon
  <2>8. CASE RefreshResolved
    BY <2>8, ResolvedKeeps, Zenon
  <2>9. CASE RefreshPost
    BY <2>9, RefreshPostKeeps, Zenon
  <2>10. CASE InitSend
    BY <2>10, InitSendKeeps, Zenon
  <2>11. CASE HostReceives
    BY <2>11, HostReceivesKeeps, Zenon
  <2>12. CASE Bootstrap
    BY <2>12, BootstrapKeeps, Zenon
  <2>13. CASE ViewReceives
    BY <2>13, ViewReceivesKeeps, Zenon
  <2> QED BY <1>1, <2>1, <2>2, <2>3, <2>4, <2>5, <2>6, <2>7, <2>8, <2>9, <2>10, <2>11, <2>12,
          <2>13, Zenon DEF System
<1>2. CASE Environment
  <2>1. CASE Emit
    BY <2>1, EmitKeeps, Zenon
  <2>2. CASE OnDidDispose
    BY <2>2, DisposeKeeps, Zenon
  <2>3. CASE DiskChange
    BY <2>3, DiskChangeKeeps, Zenon
  <2>4. CASE Cleanup
    BY <2>4, CleanupKeeps, Zenon
  <2>5. CASE OnDidChangeVisibility
    BY <2>5, VisibilityKeeps, Zenon
  <2>6. CASE WorkspaceChanged
    BY <2>6, WorkspaceChangedKeeps, Zenon
  <2>7. CASE UserActs
    BY <2>7, UserActsKeeps, Zenon
  <2> QED BY <1>2, <2>1, <2>2, <2>3, <2>4, <2>5, <2>6, <2>7, Zenon DEF Environment
<1>3. CASE UNCHANGED vars
  <2>1. UNCHANGED <<disk, ws, host, fs, logger, view, toView, toHost, lost, events>>
    BY <1>3, Zenon DEF vars
  <2>2. TypeInv /\ ClosedInv /\ HostInv /\ TreeInv /\ LogInv
    BY Zenon DEF PanelInv
  <2>3. TypeInv' /\ ClosedInv'
    BY <2>1, <2>2, Zenon DEF TypeInv, ClosedInv
  <2>4. HostInv' /\ LogInv'
    BY <2>1, <2>2, Zenon DEF HostInv, LogInv
  <2>5. TreeInv'
    BY <2>1, <2>2, Zenon DEF TreeInv, Coming, Fresh
  <2> QED BY <2>3, <2>4, <2>5, Zenon DEF PanelInv
<1> QED BY <1>1, <1>2, <1>3, Zenon DEF Next

(* The inductive invariant holds of every behaviour of the panel, for any  *)
(* files, folders and ring size and any number of events.                  *)
THEOREM PanelInvariant == Spec => []PanelInv
<1>1. PanelInv /\ [Next]_vars => PanelInv'
  BY PanelNext, Zenon
<1> QED BY <1>1, PanelInit, PTL DEF Spec

LEMMA TreeFromInv ==
  ASSUME PanelInv
  PROVE  TreeShowsDisk
<1>0. TypeInv /\ HostInv /\ TreeInv
  BY Zenon DEF PanelInv
<1>1. SUFFICES ASSUME Quiet, ~lost
               PROVE  host.info # None /\ view.items = disk[host.info]
  BY Zenon DEF TreeShowsDisk
<1>2. /\ host.alive /\ view.ready /\ ~fs /\ ~host.timer /\ host.again = 0 /\ host.reads = <<>>
      /\ host.resolving = 0 /\ host.posting = 0 /\ host.initing = 0
      /\ toView = <<>> /\ toHost = <<>>
  BY <1>1, Zenon DEF Quiet
<1>3. ~(0 > 0) /\ 1..Len(<<>>) = {}
  OBVIOUS
<1>4. /\ ~(host.resolving > 0) /\ ~(host.posting > 0) /\ ~(host.initing > 0) /\ ~(host.again > 0)
      /\ \A T : ~Has(toView, T) /\ ~Has(toHost, T)
  BY <1>2, <1>3, Zenon DEF Has
<1>5. host.sent /\ ~host.pending
  BY <1>0, <1>2, <1>3, <1>4, Zenon DEF HostInv
<1>6. ~Coming
  BY <1>2, <1>4, <1>5, Zenon DEF Coming, Busy
<1>7. Shows(toView, view.items, disk[host.info])
  BY <1>0, <1>1, <1>2, <1>6, Zenon DEF TreeInv, Fresh
<1>8. view.items = disk[host.info]
  BY <1>2, <1>3, <1>7, Zenon DEF Shows
<1>9. host.info # None
  BY <1>0, <1>4, <1>5, Zenon DEF HostInv
<1> QED BY <1>8, <1>9, Zenon

LEMMA LogFromInv ==
  ASSUME PanelInv
  PROVE  LogShowsRing
<1>0. TypeInv /\ LogInv
  BY Zenon DEF PanelInv
<1>1. SUFFICES ASSUME Quiet, logger.sink
               PROVE  /\ \A i \in DOMAIN logger.ring :
                           \E k \in DOMAIN view.log : view.log[k] = logger.ring[i]
                      /\ logger.ring # <<>> =>
                           view.log[Len(view.log)] = logger.ring[Len(logger.ring)]
  BY Zenon DEF LogShowsRing
<1>2. toView = <<>> /\ logger.batch = <<>>
  BY <1>1, Zenon DEF Quiet
<1>3. 1..Len(<<>>) = {}
  OBVIOUS
<1>4. RingKept(logger, toView, view.log) /\ EndKept(logger, toView, view.log)
  BY <1>0, <1>1, Zenon DEF LogInv
<1>5. \A i \in 1..Len(logger.ring) : Elem(view.log, logger.ring[i])
  BY <1>2, <1>3, <1>4, NoElem, Zenon DEF RingKept, WillHave
<1>6. logger.ring # <<>> => Ends(view.log, logger.ring[Len(logger.ring)])
  BY <1>2, <1>3, <1>4, Zenon DEF EndKept, WillEnd
<1>7. logger.ring \in Seq(Nat) /\ view.log \in Seq(Nat)
  BY <1>0, LoggerTypes, ViewTypes, Zenon DEF TypeInv
<1>8. DOMAIN logger.ring = 1..Len(logger.ring) /\ DOMAIN view.log = 1..Len(view.log)
  BY <1>7
<1> QED BY <1>5, <1>6, <1>8, Zenon DEF Elem, Ends

(* Whenever the panel is at rest and no event died with a watcher, the     *)
(* tree shows the bridge's folder as it is on disk: for any files and      *)
(* folders, and any create or delete at any point of a refresh.            *)
THEOREM TreeAlwaysShowsDisk == Spec => []TreeShowsDisk
  BY PanelInvariant, TreeFromInv, PTL

(* Whenever the panel is at rest and its sink is registered, every line of *)
(* the ring buffer is in the debug log and the newest is its last one.     *)
THEOREM LogAlwaysShowsRing == Spec => []LogShowsRing
  BY PanelInvariant, LogFromInv, PTL


=============================================================================
