---------------------------- MODULE ViewerProofs ----------------------------
(***************************************************************************)
(* Proofs about what the log viewer is sent.                               *)
(*                                                                         *)
(* The pagination service (LogPaging), under any number of bridge          *)
(* handlers, filters, scan windows, user inputs and opens: a version names *)
(* one view, a cached total is one of the current view, and the filter     *)
(* that the user chose last is the one the service ends with.              *)
(*                                                                         *)
(* The panel, its bridge and the progress of merges (MergeProgress), for   *)
(* any number of calls, panels, lines and failures.                        *)
(***************************************************************************)
EXTENDS LogPaging, MergeProgress, TLAPS

USE SMTT(30), Zenon   \* of every step that names no prover: SMT with 30 s, then Zenon

(* The fields of the service and of a handler in flight. *)
SvcFields(s) ==
  s = [k \in {"version", "dir", "warm", "reader", "filter", "cache"} |-> s[k]]

IsSvc(s) == SvcFields(s) /\ s.version \in Nat /\ s.warm \in BOOLEAN

IsJob(j) ==
  j = [k \in {"kind", "at", "left", "reader", "match", "seen", "warm", "key", "total"} |-> j[k]]

(* A key was taken at the present version or before. *)
TakenBy(key, s) == key.version \in Nat /\ key.version <= s.version

(* Entries were stored by scans that began at the present version or       *)
(* before; those of the present key were counted in the present view.      *)
GoodCache(s) ==
  \A c \in s.cache : TakenBy(c.key, s) /\ (c.key = Key(s) => c.total = {ViewOf(s)})

(* A scan of getFilteredTotal whose key is still the present one has seen  *)
(* the present view only, and will see no other in its next window.        *)
GoodScan(s, j) ==
  j.kind # "idle" /\ j.at = "total" /\ j.left > 0 =>
    /\ TakenBy(j.key, s)
    /\ j.key = Key(s) => ~s.warm /\ j.reader = s.reader /\ j.match = TRUE /\ j.seen \subseteq {ViewOf(s)}

Names(n, s) ==
  /\ \E S : n \in Seq(S)
  /\ Len(n) = s.version + 1
  /\ n[Len(n)] = ViewOf(s)

GoodJob(s, j) == (j = Idle \/ IsJob(j)) /\ GoodScan(s, j)

PagingInv ==
  /\ IsSvc(svc) /\ GoodCache(svc) /\ Names(named, svc)
  /\ job = [h \in Handlers \cup {Main} |-> job[h]]
  /\ \A h \in Handlers \cup {Main} : GoodJob(svc, job[h])

(* What the service may become in one step. *)
SvcStep(s, t) ==
  /\ IsSvc(t) /\ GoodCache(t)
  /\ \/ t.version = s.version /\ t.warm = s.warm /\ t.reader = s.reader /\ t.filter = s.filter
     \/ t.version = s.version + 1

LEMMA AppendNames ==
  ASSUME NEW S, NEW n \in Seq(S), NEW e
  PROVE  /\ Append(n, e) \in Seq(S \cup {e})
         /\ Len(Append(n, e)) = Len(n) + 1
         /\ Append(n, e)[Len(n) + 1] = e
<1>1. n \in Seq(S \cup {e})
  OBVIOUS
<1> QED BY <1>1

(* Every operation of the service takes one such step: it leaves the       *)
(* service alone or moves to the next version, where no old key is valid.  *)
LEMMA BumpStep ==
  ASSUME NEW s, IsSvc(s), GoodCache(s),
         NEW t, SvcFields(t), t.version = s.version + 1, t.warm \in BOOLEAN,
         t.cache = s.cache \/ t.cache = {}
  PROVE  SvcStep(s, t)
<1>1. IsSvc(t)
  BY DEF IsSvc
<1>2. ASSUME NEW c \in t.cache PROVE TakenBy(c.key, t) /\ c.key # Key(t)
  <2>1. c \in s.cache
    BY <1>2
  <2>2. c.key.version \in Nat /\ c.key.version <= s.version
    BY <2>1 DEF GoodCache, TakenBy
  <2>3. Key(t).version = s.version + 1 /\ s.version \in Nat
    BY DEF Key, IsSvc
  <2> QED BY <2>2, <2>3 DEF TakenBy
<1>3. GoodCache(t)
  BY <1>2 DEF GoodCache
<1> QED BY <1>1, <1>3 DEF SvcStep

LEMMA SetFilterStep ==
  ASSUME NEW s, IsSvc(s), GoodCache(s), NEW f
  PROVE  SvcStep(s, SetFilter(s, f))
<1>1. CASE f = s.filter
  BY <1>1 DEF SetFilter, SvcStep
<1>2. CASE f # s.filter
  <2> DEFINE t == SetFilter(s, f)
  <2>1. SvcFields(t) /\ t.version = s.version + 1 /\ t.warm = s.warm /\ t.cache = {}
    BY <1>2, Zenon DEF SetFilter, Bump, Invalidate, IsSvc, SvcFields
  <2> HIDE DEF t
  <2>2. SvcStep(s, t)
    BY <2>1, BumpStep DEF IsSvc
  <2> QED BY <2>2 DEF t
<1> QED BY <1>1, <1>2

LEMMA SeedWarmupStep ==
  ASSUME NEW s, IsSvc(s), GoodCache(s)
  PROVE  SvcStep(s, SeedWarmup(s))
<1> DEFINE t == SeedWarmup(s)
<1>1. SvcFields(t) /\ t.version = s.version + 1 /\ t.warm = TRUE /\ t.cache = s.cache
  BY Zenon DEF SeedWarmup, Bump, IsSvc, SvcFields
<1> HIDE DEF t
<1>2. SvcStep(s, t)
  BY <1>1, BumpStep, Zenon
<1> QED BY <1>2 DEF t

LEMMA ClearWarmupStep ==
  ASSUME NEW s, IsSvc(s), GoodCache(s)
  PROVE  SvcStep(s, ClearWarmup(s))
<1>1. CASE s.warm
  <2> DEFINE t == ClearWarmup(s)
  <2>1. SvcFields(t) /\ t.version = s.version + 1 /\ t.warm = FALSE /\ t.cache = s.cache
    BY <1>1, Zenon DEF ClearWarmup, Bump, IsSvc, SvcFields
  <2> HIDE DEF t
  <2>2. SvcStep(s, t)
    BY <2>1, BumpStep, Zenon
  <2> QED BY <2>2 DEF t
<1>2. CASE ~s.warm
  BY <1>2 DEF ClearWarmup, SvcStep
<1> QED BY <1>1, <1>2

LEMMA InstallStep ==
  ASSUME NEW s, IsSvc(s), GoodCache(s), NEW reader
  PROVE  SvcStep(s, Install(s, reader))
<1> DEFINE t == Install(s, reader)
<1>1. SvcFields(t) /\ t.version = s.version + 1 /\ t.warm = s.warm /\ t.cache = {}
  BY Zenon DEF Install, Bump, Invalidate, IsSvc, SvcFields
<1> HIDE DEF t
<1>2. SvcStep(s, t)
  BY <1>1, BumpStep DEF IsSvc
<1> QED BY <1>2 DEF t

(* Storing a total under a key keeps the cache good if the total is the    *)
(* present view's or the key is not the present one.                       *)
LEMMA StoreStep ==
  ASSUME NEW s, IsSvc(s), NEW key, NEW total,
         TakenBy(key, s), key = Key(s) => total = {ViewOf(s)}
  PROVE  SvcStep(s, Store(s, key, total))
<1> DEFINE t == Store(s, key, total)
<1>1. /\ SvcFields(t) /\ t.cache = {[key |-> key, total |-> total]}
      /\ t.version = s.version /\ t.warm = s.warm /\ t.reader = s.reader /\ t.filter = s.filter
  BY DEF Store, IsSvc, SvcFields
<1> HIDE DEF t
<1>2. IsSvc(t)
  BY <1>1 DEF IsSvc
<1>3. Key(t) = Key(s) /\ ViewOf(t) = ViewOf(s)
  BY <1>1 DEF Key, ViewOf
<1>4. GoodCache(t)
  BY <1>1, <1>3 DEF GoodCache, TakenBy
<1> QED BY <1>1, <1>2, <1>4 DEF SvcStep, t

LEMMA CacheWarmStep ==
  ASSUME NEW s, IsSvc(s), GoodCache(s)
  PROVE  SvcStep(s, CacheWarm(s))
<1>1. TakenBy(Key(s), s)
  BY DEF TakenBy, Key, IsSvc
<1>2. SvcStep(s, Store(s, Key(s), {ViewOf(s)}))
  BY <1>1, StoreStep
<1> QED BY <1>2 DEF CacheWarm, SvcStep

(* Setting the filter and counting the warm buffer are one step together,  *)
(* since the second keeps version and view.                                *)
LEMMA CacheWarmKeeps ==
  ASSUME NEW s, IsSvc(s)
  PROVE  /\ CacheWarm(s).version = s.version /\ CacheWarm(s).warm = s.warm
         /\ CacheWarm(s).reader = s.reader /\ CacheWarm(s).filter = s.filter
BY DEF CacheWarm, Store, IsSvc, SvcFields

LEMMA StepThenCacheWarm ==
  ASSUME NEW s, NEW t, SvcStep(s, t)
  PROVE  SvcStep(s, CacheWarm(t))
BY CacheWarmStep, CacheWarmKeeps DEF SvcStep

-----------------------------------------------------------------------------
(* A step of the service keeps what is known of the scans in flight: a key *)
(* stays the present one only if the view stays.                           *)
LEMMA StepKeepsJob ==
  ASSUME NEW s, IsSvc(s), NEW t, SvcStep(s, t), NEW j, GoodJob(s, j)
  PROVE  GoodJob(t, j)
<1>1. SUFFICES ASSUME j.kind # "idle", j.at = "total", j.left > 0
               PROVE  /\ TakenBy(j.key, t)
                      /\ j.key = Key(t) => /\ ~t.warm /\ j.reader = t.reader /\ j.match = TRUE
                                          /\ j.seen \subseteq {ViewOf(t)}
  BY Zenon DEF GoodJob, GoodScan
<1>2. /\ TakenBy(j.key, s)
      /\ j.key = Key(s) => /\ ~s.warm /\ j.reader = s.reader /\ j.match = TRUE
                          /\ j.seen \subseteq {ViewOf(s)}
  BY <1>1 DEF GoodJob, GoodScan
<1>3. s.version \in Nat /\ t.version \in Nat
  BY DEF IsSvc, SvcStep
<1>4. CASE t.version = s.version + 1
  <2>1. TakenBy(j.key, t) /\ j.key.version # t.version
    BY <1>2, <1>3, <1>4 DEF TakenBy
  <2>2. Key(t).version = t.version
    BY DEF Key
  <2> QED BY <2>1, <2>2
<1>5. CASE /\ t.version = s.version /\ t.warm = s.warm
           /\ t.reader = s.reader /\ t.filter = s.filter
  <2>1. Key(t) = Key(s) /\ ViewOf(t) = ViewOf(s) /\ TakenBy(j.key, t)
    BY <1>2, <1>5 DEF Key, ViewOf, TakenBy
  <2> QED BY <1>2, <1>5, <2>1
<1> QED BY <1>4, <1>5, Zenon DEF SvcStep

LEMMA StepKeepsNames ==
  ASSUME PagingInv, NEW t, SvcStep(svc, t), SvcBecomes(t)
  PROVE  svc' = t /\ Names(named', t)
<1>1. /\ svc' = t
      /\ named' = IF t.version = svc.version THEN named ELSE Append(named, ViewOf(t))
  BY DEF SvcBecomes
<1>2. PICK S : named \in Seq(S)
  BY DEF PagingInv, Names
<1>3. svc.version \in Nat /\ Len(named) = svc.version + 1 /\ named[Len(named)] = ViewOf(svc)
  BY DEF PagingInv, Names, IsSvc
<1>4. CASE t.version = svc.version + 1
  <2>1. named' = Append(named, ViewOf(t))
    BY <1>1, <1>3, <1>4
  <2>2. /\ named' \in Seq(S \cup {ViewOf(t)}) /\ Len(named') = Len(named) + 1
        /\ named'[Len(named')] = ViewOf(t)
    BY <1>2, <2>1, AppendNames
  <2>3. Len(named') = t.version + 1
    BY <1>3, <1>4, <2>2
  <2> QED BY <1>1, <2>2, <2>3 DEF Names
<1>5. CASE /\ t.version = svc.version /\ t.warm = svc.warm
           /\ t.reader = svc.reader /\ t.filter = svc.filter
  <2>1. named' = named /\ ViewOf(t) = ViewOf(svc)
    BY <1>1, <1>5 DEF ViewOf
  <2> QED BY <1>1, <1>2, <1>3, <1>5, <2>1 DEF Names
<1> QED BY <1>4, <1>5 DEF SvcStep

(* The shape of every step that concerns the service: the service takes a  *)
(* step and at most one handler changes, to a good one.                    *)
LEMMA KeepsInv ==
  ASSUME PagingInv, NEW t, SvcStep(svc, t), SvcBecomes(t),
         \/ job' = job
         \/ \E h \in Handlers \cup {Main} : \E j : job' = [job EXCEPT ![h] = j] /\ GoodJob(t, j)
  PROVE  PagingInv'
<1>1. svc' = t /\ Names(named', t)
  BY StepKeepsNames
<1>2. IsSvc(t) /\ GoodCache(t)
  BY DEF SvcStep
<1>3. \A h \in Handlers \cup {Main} : GoodJob(t, job[h])
  BY StepKeepsJob DEF PagingInv
<1>4. job = [h \in Handlers \cup {Main} |-> job[h]]
  BY DEF PagingInv
<1>5. /\ job' = [h \in Handlers \cup {Main} |-> job'[h]]
      /\ \A h \in Handlers \cup {Main} : GoodJob(t, job'[h])
  <2>1. CASE job' = job
    BY <1>3, <1>4, <2>1
  <2>2. ASSUME NEW h \in Handlers \cup {Main}, NEW j, job' = [job EXCEPT ![h] = j], GoodJob(t, j)
        PROVE  /\ job' = [k \in Handlers \cup {Main} |-> job'[k]]
               /\ \A k \in Handlers \cup {Main} : GoodJob(t, job'[k])
    <3>1. job' = [k \in Handlers \cup {Main} |-> IF k = h THEN j ELSE job[k]]
      BY <1>4, <2>2, Zenon
    <3> QED BY <1>3, <2>2, <3>1, Zenon
  <2> QED BY <2>1, <2>2
<1> QED BY <1>1, <1>2, <1>5 DEF PagingInv, Names

(* The same when the service stands still. *)
LEMMA StillKeepsInv ==
  ASSUME PagingInv, UNCHANGED <<svc, named>>,
         \/ job' = job
         \/ \E h \in Handlers \cup {Main} : \E j : job' = [job EXCEPT ![h] = j] /\ GoodJob(svc, j)
  PROVE  PagingInv'
<1>1. SvcStep(svc, svc)
  BY DEF SvcStep, PagingInv
<1>2. SvcBecomes(svc)
  BY DEF SvcBecomes
<1> QED BY <1>1, <1>2, KeepsInv

-----------------------------------------------------------------------------
(* The handlers *)
LEMMA IdleGood == ASSUME NEW s PROVE GoodJob(s, Idle)
BY DEF GoodJob, GoodScan, Idle

LEMMA NewJobIsJob ==
  ASSUME NEW kind, NEW at, NEW warm, NEW key, NEW total
  PROVE  IsJob(NewJob(kind, at, warm, key, total))
BY Zenon DEF IsJob, NewJob

LEMMA BeginReadGood ==
  ASSUME NEW s, NEW t, NEW j, IsJob(j)
  PROVE  GoodJob(t, BeginRead(s, j))
<1> DEFINE r == BeginRead(s, j)
<1>1. IsJob(r) /\ r.at = "read"
  BY Zenon DEF BeginRead, IsJob
<1> HIDE DEF r
<1>2. GoodJob(t, r)
  BY <1>1 DEF GoodJob, GoodScan
<1> QED BY <1>2 DEF r

LEMMA BeginTotalGood ==
  ASSUME NEW s, IsSvc(s), NEW j, IsJob(j)
  PROVE  GoodJob(s, BeginTotal(s, j))
<1> DEFINE known == [j EXCEPT !.at = "total", !.left = 0, !.key = Key(s)]
           r == BeginTotal(s, j)
<1>1. IsJob(known) /\ known.left = 0 /\ known.key = Key(s)
  BY Zenon DEF IsJob
<1>2. \/ \E total : r = [known EXCEPT !.total = total]
      \/ /\ ~s.warm
         /\ r = [known EXCEPT !.left = Windows, !.reader = s.reader, !.match = TRUE, !.seen = {}]
  BY Zenon DEF BeginTotal
<1> HIDE DEF known, r
<1>3. ASSUME NEW total, r = [known EXCEPT !.total = total] PROVE GoodJob(s, r)
  <2>1. IsJob(r) /\ r.left = 0
    BY <1>1, <1>3 DEF IsJob
  <2> QED BY <2>1 DEF GoodJob, GoodScan
<1>4. ASSUME ~s.warm,
             r = [known EXCEPT !.left = Windows, !.reader = s.reader, !.match = TRUE, !.seen = {}]
      PROVE  GoodJob(s, r)
  <2>1. IsJob(r) /\ r.key = Key(s) /\ r.reader = s.reader /\ r.match = TRUE /\ r.seen = {}
    BY <1>1, <1>4, Zenon DEF IsJob
  <2>2. TakenBy(r.key, s)
    BY <2>1 DEF TakenBy, Key, IsSvc
  <2> QED BY <1>4, <2>1, <2>2 DEF GoodJob, GoodScan
<1>5. GoodJob(s, r)
  BY <1>2, <1>3, <1>4, Zenon
<1> QED BY <1>5 DEF r

(* A message starts a handler: page, filter and ready. *)
LEMMA ReceiveKeeps ==
  ASSUME PagingInv, NEW h \in Handlers, Receive(h)
  PROVE  PagingInv'
<1> DEFINE m == Head(toHost)
           blank(kind) == NewJob(kind, "read", svc.warm, Key(svc), {})
           set == SetFilter(svc, m.filter)
<1>0. IsSvc(svc) /\ GoodCache(svc) /\ h \in Handlers \cup {Main}
  BY DEF PagingInv
<1>1. CASE job' = [job EXCEPT ![h] = BeginRead(svc, blank("page"))] /\ UNCHANGED <<svc, named>>
  <2>1. GoodJob(svc, BeginRead(svc, blank("page")))
    BY NewJobIsJob, BeginReadGood
  <2> QED BY <1>0, <1>1, <2>1, StillKeepsInv, Zenon
<1>2. CASE job' = [job EXCEPT ![h] = BeginTotal(set, blank("filter"))] /\ SvcBecomes(CacheWarm(set))
  <2>1. SvcStep(svc, set)
    BY <1>0, SetFilterStep
  <2>2. IsSvc(set) /\ GoodCache(set)
    BY <2>1 DEF SvcStep
  <2>3. SvcStep(svc, CacheWarm(set)) /\ SvcStep(set, CacheWarm(set))
    BY <2>1, <2>2, StepThenCacheWarm, CacheWarmStep
  <2>4. GoodJob(set, BeginTotal(set, blank("filter")))
    BY <2>2, NewJobIsJob, BeginTotalGood
  <2>5. GoodJob(CacheWarm(set), BeginTotal(set, blank("filter")))
    BY <2>2, <2>3, <2>4, StepKeepsJob
  <2> QED BY <1>0, <1>2, <2>3, <2>5, KeepsInv, Zenon
<1>3. CASE job' = [job EXCEPT ![h] = BeginTotal(svc, blank("kick"))] /\ SvcBecomes(CacheWarm(svc))
  <2>1. SvcStep(svc, CacheWarm(svc))
    BY <1>0, CacheWarmStep
  <2>2. GoodJob(svc, BeginTotal(svc, blank("kick")))
    BY <1>0, NewJobIsJob, BeginTotalGood
  <2>3. GoodJob(CacheWarm(svc), BeginTotal(svc, blank("kick")))
    BY <1>0, <2>1, <2>2, StepKeepsJob
  <2> QED BY <1>0, <1>3, <2>1, <2>3, KeepsInv, Zenon
<1> QED BY <1>1, <1>2, <1>3 DEF Receive

(* A window is read: a scan with the present key has seen the present view *)
(* only, so what it stores is good; an overtaken one stores its mixed      *)
(* count under a key that is no longer valid.                              *)
LEMMA ScanWindowKeeps ==
  ASSUME PagingInv, NEW h \in Handlers \cup {Main}, ScanWindow(h)
  PROVE  PagingInv'
<1> DEFINE j == job[h]
           seen == j.seen \cup {SeenNow(j)}
<1>1. PICK rest :
        LET scanned == [j EXCEPT !.left = rest, !.seen = seen, !.reader = svc.reader]
        IN  IF rest = 0 /\ j.at = "total"
            THEN /\ job' = [job EXCEPT ![h] = [scanned EXCEPT !.total = seen]]
                 /\ SvcBecomes(Store(svc, j.key, seen))
            ELSE job' = [job EXCEPT ![h] = scanned] /\ UNCHANGED <<svc, named>>
  BY Zenon DEF ScanWindow
<1> DEFINE scanned == [j EXCEPT !.left = rest, !.seen = seen, !.reader = svc.reader]
           over == [scanned EXCEPT !.total = seen]
<1>2. IsSvc(svc) /\ GoodJob(svc, j) /\ j.kind # "idle" /\ j.left > 0
  BY DEF PagingInv, ScanWindow
<1>3. IsJob(j)
  BY <1>2 DEF GoodJob, Idle
<1>4. /\ IsJob(scanned) /\ scanned.at = j.at /\ scanned.left = rest /\ scanned.key = j.key
      /\ scanned.reader = svc.reader /\ scanned.match = j.match /\ scanned.seen = seen
  BY <1>3, Zenon DEF IsJob
<1>5. IsJob(over) /\ over.left = rest
  BY <1>3, Zenon DEF IsJob
<1>6. ASSUME j.at = "total"
      PROVE  /\ TakenBy(j.key, svc)
             /\ j.key = Key(svc) => ~svc.warm /\ j.match = TRUE /\ seen = {ViewOf(svc)}
  <2>1. /\ TakenBy(j.key, svc)
        /\ j.key = Key(svc) => /\ ~svc.warm /\ j.reader = svc.reader /\ j.match = TRUE
                              /\ j.seen \subseteq {ViewOf(svc)}
    BY <1>2, <1>6 DEF GoodJob, GoodScan
  <2>2. ASSUME j.key = Key(svc) PROVE SeenNow(j) = ViewOf(svc)
    <3>1. svc.warm = FALSE
      BY <1>2, <2>1, <2>2, Zenon DEF IsSvc
    <3>2. SeenNow(j) = View(FALSE, svc.reader, svc.filter)
      BY <2>1, <2>2, Zenon DEF SeenNow
    <3> QED BY <3>1, <3>2, Zenon DEF ViewOf
  <2> QED BY <2>1, <2>2
<1> HIDE DEF j, scanned, over, seen
<1>7. CASE rest = 0 /\ j.at = "total"
  <2>1. SvcStep(svc, Store(svc, j.key, seen))
    BY <1>2, <1>6, <1>7, StoreStep, Zenon
  <2>2. GoodJob(Store(svc, j.key, seen), over)
    BY <1>5, <1>7 DEF GoodJob, GoodScan
  <2>3. job' = [job EXCEPT ![h] = over] /\ SvcBecomes(Store(svc, j.key, seen))
    BY <1>1, <1>7 DEF over, scanned
  <2> QED BY <2>1, <2>2, <2>3, KeepsInv, Zenon
<1>8. CASE ~(rest = 0 /\ j.at = "total")
  <2>1. GoodJob(svc, scanned)
    BY <1>4, <1>6, Zenon DEF GoodJob, GoodScan
  <2>2. job' = [job EXCEPT ![h] = scanned] /\ UNCHANGED <<svc, named>>
    BY <1>1, <1>8, Zenon DEF scanned
  <2> QED BY <2>1, <2>2, StillKeepsInv, Zenon
<1> QED BY <1>7, <1>8

LEMMA AnswerKeeps ==
  ASSUME PagingInv, NEW h \in Handlers,
         AnswerPage(h) \/ FilterHead(h) \/ AnswerFilter(h) \/ AnswerKick(h)
  PROVE  PagingInv'
<1>0. UNCHANGED <<svc, named>> /\ h \in Handlers \cup {Main}
  BY DEF AnswerPage, FilterHead, AnswerFilter, AnswerKick
<1>1. CASE job' = [job EXCEPT ![h] = Idle]
  BY <1>0, <1>1, IdleGood, StillKeepsInv, Zenon
<1>2. CASE FilterHead(h)
  <2>1. job' = [job EXCEPT ![h] = BeginRead(svc, job[h])]
    <3>1. job = [k \in Handlers \cup {Main} |-> job[k]]
      BY DEF PagingInv
    <3> QED BY <1>0, <1>2, <3>1 DEF FilterHead
  <2>2. IsJob(job[h])
    BY <1>0, <1>2 DEF PagingInv, GoodJob, FilterHead, Idle
  <2>3. GoodJob(svc, BeginRead(svc, job[h]))
    BY <2>2, BeginReadGood
  <2> QED BY <1>0, <2>1, <2>3, StillKeepsInv, Zenon
<1> QED BY <1>1, <1>2, Zenon DEF AnswerPage, AnswerFilter, AnswerKick

LEMMA SessionKeeps ==
  ASSUME PagingInv, SessionStep
  PROVE  PagingInv'
<1>0. IsSvc(svc) /\ GoodCache(svc) /\ Main \in Handlers \cup {Main}
  BY DEF PagingInv
<1>1. CASE SeedWarm
  <2>1. SvcBecomes(SeedWarmup(svc)) /\ job' = job
    BY <1>1 DEF SeedWarm, Quiet
  <2> QED BY <1>0, <2>1, SeedWarmupStep, KeepsInv
<1>2. CASE FinishInMemory
  <2>1. PICK s \in {svc, SeedWarmup(svc)} : SvcBecomes(s) /\ job' = job
    BY <1>2 DEF FinishInMemory, Quiet
  <2>2. SvcStep(svc, s)
    BY <1>0, <2>1, SeedWarmupStep DEF SvcStep
  <2> QED BY <2>1, <2>2, KeepsInv
<1>3. CASE OpenedEarly \/ FinalOpened \/ Reloaded
  <2>1. PICK reader : SvcBecomes(Install(svc, reader)) /\ job' = job
    BY <1>3 DEF OpenedEarly, FinalOpened, Reloaded, Quiet
  <2> QED BY <1>0, <2>1, InstallStep, KeepsInv
<1>4. CASE Reload
  <2>1. PICK s \in {svc, ClearWarmup(svc)} : SvcBecomes(s) /\ job' = job
    BY <1>4 DEF Reload, Quiet
  <2>2. SvcStep(svc, s)
    BY <1>0, <2>1, ClearWarmupStep DEF SvcStep
  <2> QED BY <2>1, <2>2, KeepsInv
<1>5. CASE ReadTail
  <2> DEFINE blank == NewJob("tail", "read", svc.warm, Key(svc), {})
  <2>1. job' = [job EXCEPT ![Main] = BeginRead(svc, blank)] /\ UNCHANGED <<svc, named>>
    BY <1>5 DEF ReadTail
  <2>2. GoodJob(svc, BeginRead(svc, blank))
    BY NewJobIsJob, BeginReadGood
  <2> QED BY <1>0, <2>1, <2>2, StillKeepsInv, Zenon
<1>6. CASE Finish
  <2>1. job' = [job EXCEPT ![Main] = Idle] /\ UNCHANGED <<svc, named>>
    BY <1>6 DEF Finish
  <2> QED BY <1>0, <2>1, IdleGood, StillKeepsInv, Zenon
<1>7. CASE \/ NoWarmup \/ DeliverWarm \/ MergeFiles \/ StreamInitial \/ OpenEarly
           \/ OpenEarlyFails \/ MergeOver \/ FinalOpen \/ FinalOpenFails
  <2>1. UNCHANGED <<svc, named, job>>
    BY <1>7 DEF NoWarmup, DeliverWarm, MergeFiles, StreamInitial, OpenEarly, OpenEarlyFails,
                MergeOver, FinalOpen, FinalOpenFails, Quiet, Fault
  <2> QED BY <2>1, StillKeepsInv
<1> QED BY <1>1, <1>2, <1>3, <1>4, <1>5, <1>6, <1>7 DEF SessionStep

LEMMA PagingInvInit == Init => PagingInv
<1> SUFFICES ASSUME Init PROVE PagingInv
  OBVIOUS
<1>1. SvcFields(svc) /\ svc.version = 0 /\ svc.warm = FALSE /\ svc.cache = {}
  BY Zenon DEF Init, SvcFields
<1>2. IsSvc(svc) /\ GoodCache(svc)
  <2>1. svc.warm \in BOOLEAN /\ GoodCache(svc)
    BY <1>1, Zenon DEF GoodCache
  <2>2. svc.version \in Nat
    BY <1>1
  <2> QED BY <1>1, <2>1, <2>2 DEF IsSvc
<1>3. Names(named, svc)
  <2>1. named = <<ViewOf(svc)>>
    BY DEF Init
  <2>2. named \in Seq({ViewOf(svc)}) /\ Len(named) = 1 /\ named[1] = ViewOf(svc)
    BY <2>1
  <2> QED BY <1>1, <2>2 DEF Names
<1>4. /\ job = [h \in Handlers \cup {Main} |-> job[h]]
      /\ \A h \in Handlers \cup {Main} : job[h] = Idle
  BY DEF Init
<1> QED BY <1>2, <1>3, <1>4, IdleGood DEF PagingInv

LEMMA PagingInvNext == PagingInv /\ [Next]_vars => PagingInv'
<1> SUFFICES ASSUME PagingInv, [Next]_vars PROVE PagingInv'
  OBVIOUS
<1>1. CASE SessionStep
  BY <1>1, SessionKeeps
<1>2. ASSUME NEW h \in Handlers, BridgeStep(h) PROVE PagingInv'
  BY <1>2, ReceiveKeeps, AnswerKeeps DEF BridgeStep
<1>3. ASSUME NEW h \in DOMAIN job, ScanWindow(h) PROVE PagingInv'
  <2>1. h \in Handlers \cup {Main}
    BY <1>3 DEF PagingInv
  <2> QED BY <1>3, <2>1, ScanWindowKeeps
<1>4. CASE ViewerReceive \/ UserStep \/ Rest \/ UNCHANGED vars
  <2>1. UNCHANGED <<svc, named, job>>
    BY <1>4, Zenon DEF ViewerReceive, UserStep, Scroll, ApplyFilter, Rest, vars
  <2> QED BY <2>1, StillKeepsInv
<1> QED BY <1>1, <1>2, <1>3, <1>4 DEF Next

(* However many handlers, opens and filters are in flight, equal versions  *)
(* of PaginationService mean equal views: every change of warm mode,       *)
(* reader or filter comes with a bump.                                     *)
THEOREM VersionsNameViews == Spec => []VersionNamesView
<1>1. PagingInv => VersionNamesView
  BY DEF PagingInv, Names, VersionNamesView
<1> QED BY <1>1, PagingInvInit, PagingInvNext, PTL DEF Spec

(* However a scan of getFilteredTotal is overtaken, a total that can be    *)
(* taken from the cache was counted in the current view alone.             *)
THEOREM CachedTotalsAreFresh == Spec => []CacheFresh
<1>1. PagingInv => CacheFresh
  BY DEF PagingInv, GoodCache, CacheFresh, Cached
<1> QED BY <1>1, PagingInvInit, PagingInvNext, PTL DEF Spec

-----------------------------------------------------------------------------
(* The filter on its way from the viewer to the service *)

HostMsg == [type : {"page", "filter", "ready"}, filter : Filters \cup {NoFilter}]

ViewerFields(v) == v = [k \in {"cur", "rows", "total", "ready", "pending", "want"} |-> v[k]]

(* A service with filter cur has filter f once it has the messages q. *)
Ends(f, cur, q) ==
  \/ cur = f /\ \A i \in DOMAIN q : q[i].type # "filter"
  \/ \E i \in DOMAIN q : /\ q[i].type = "filter" /\ q[i].filter = f
                         /\ \A j \in DOMAIN q : j > i => q[j].type # "filter"

(* The last filter that was sent is the wanted one; before the viewer may  *)
(* send any, the wanted one is held back, and the message that will        *)
(* release it is the next.                                                 *)
FilterFlow ==
  /\ viewer.ready => Ends(viewer.want, svc.filter, toHost)
  /\ ~viewer.ready => /\ toView # <<>> /\ Head(toView).type = "state"
                      /\ \A i \in DOMAIN toHost : toHost[i].type # "filter"
                      /\ \/ viewer.pending = {viewer.want}
                         \/ viewer.pending = {} /\ svc.filter = viewer.want

FlowTypes ==
  /\ toHost \in Seq(HostMsg)
  /\ \E S : toView \in Seq(S)
  /\ ViewerFields(viewer) /\ viewer.ready \in BOOLEAN
  /\ viewer.want \in Filters \cup {NoFilter}

LEMMA EndsAppend ==
  ASSUME NEW q \in Seq(HostMsg), NEW m \in HostMsg, NEW f, NEW cur
  PROVE  /\ m.type = "filter" => Ends(m.filter, cur, Append(q, m))
         /\ m.type # "filter" /\ Ends(f, cur, q) => Ends(f, cur, Append(q, m))
<1> DEFINE r == Append(q, m)
           n == Len(q) + 1
<1>1. /\ DOMAIN r = 1..n /\ DOMAIN q = 1..Len(q) /\ Len(q) \in Nat /\ r[n] = m
      /\ \A i \in 1..Len(q) : r[i] = q[i]
  OBVIOUS
<1> HIDE DEF r
<1>2. n \in DOMAIN r /\ (\A j \in DOMAIN r : ~(j > n)) /\ \A j \in DOMAIN r : j = n \/ j \in DOMAIN q
  BY <1>1
<1>3. m.type = "filter" => Ends(m.filter, cur, r)
  BY <1>1, <1>2 DEF Ends
<1>4. ASSUME m.type # "filter", Ends(f, cur, q) PROVE Ends(f, cur, r)
  <2>1. CASE cur = f /\ \A i \in DOMAIN q : q[i].type # "filter"
    BY <1>1, <1>2, <1>4, <2>1 DEF Ends
  <2>2. ASSUME NEW i \in DOMAIN q, q[i].type = "filter", q[i].filter = f,
               \A j \in DOMAIN q : j > i => q[j].type # "filter"
        PROVE  Ends(f, cur, r)
    <3>1. i \in DOMAIN r /\ r[i] = q[i]
      BY <1>1
    <3>2. \A j \in DOMAIN r : j > i => r[j].type # "filter"
      BY <1>1, <1>2, <1>4, <2>2, Zenon
    <3> QED BY <2>2, <3>1, <3>2 DEF Ends
  <2> QED BY <1>4, <2>1, <2>2 DEF Ends
<1> QED BY <1>3, <1>4 DEF r

LEMMA EndsTail ==
  ASSUME NEW q \in Seq(HostMsg), q # <<>>, NEW f, NEW cur, Ends(f, cur, q)
  PROVE  /\ Head(q).type # "filter" => Ends(f, cur, Tail(q))
         /\ Head(q).type = "filter" => Ends(f, Head(q).filter, Tail(q))
<1> DEFINE r == Tail(q)
           n == Len(q)
<1>1. /\ DOMAIN r = 1..(n - 1) /\ DOMAIN q = 1..n /\ n \in Nat \ {0} /\ Head(q) = q[1]
      /\ \A i \in 1..(n - 1) : r[i] = q[i + 1]
  OBVIOUS
<1> HIDE DEF r, n
<1>2. ASSUME NEW c, NEW i \in DOMAIN q, i > 1, q[i].type = "filter", q[i].filter = f,
             \A j \in DOMAIN q : j > i => q[j].type # "filter"
      PROVE  Ends(f, c, r)
  <2>1. i - 1 \in DOMAIN r /\ r[i - 1] = q[i]
    BY <1>1, <1>2
  <2>2. ASSUME NEW j \in DOMAIN r, j > i - 1 PROVE r[j].type # "filter"
    <3>1. j + 1 \in DOMAIN q /\ j + 1 > i /\ r[j] = q[j + 1]
      BY <1>1, <1>2, <2>2
    <3> QED BY <1>2, <3>1
  <2> QED BY <1>2, <2>1, <2>2 DEF Ends
<1>3. ASSUME NEW c, c = f, \A j \in DOMAIN q : j > 1 => q[j].type # "filter"
      PROVE  Ends(f, c, r)
  <2>1. ASSUME NEW j \in DOMAIN r PROVE r[j].type # "filter"
    <3>1. j + 1 \in DOMAIN q /\ j + 1 > 1 /\ r[j] = q[j + 1]
      BY <1>1
    <3> QED BY <1>3, <3>1
  <2> QED BY <1>3, <2>1 DEF Ends
<1>4. CASE cur = f /\ \A i \in DOMAIN q : q[i].type # "filter"
  <2>1. Head(q).type # "filter"
    BY <1>1, <1>4
  <2> QED BY <1>3, <1>4, <2>1 DEF r
<1>5. ASSUME NEW i \in DOMAIN q, q[i].type = "filter", q[i].filter = f,
             \A j \in DOMAIN q : j > i => q[j].type # "filter"
      PROVE  /\ Head(q).type # "filter" => Ends(f, cur, r)
             /\ Head(q).type = "filter" => Ends(f, Head(q).filter, r)
  <2>1. CASE i = 1
    BY <1>1, <1>3, <1>5, <2>1
  <2>2. CASE i > 1
    BY <1>2, <1>5, <2>2
  <2> QED BY <1>1, <2>1, <2>2
<1> QED BY <1>4, <1>5 DEF Ends, r

(* The message with the filter that was held back. *)
LEMMA HeldBackFacts ==
  ASSUME NEW v
  PROVE  /\ v.ready \/ v.pending = {} => HeldBack(v) = <<>>
         /\ \A f : ~v.ready /\ v.pending = {f} => HeldBack(v) = <<FilterMsg(f)>>
<1>1. ASSUME NEW f, v.pending = {f} PROVE (CHOOSE g \in v.pending : TRUE) = f
  BY <1>1
<1> QED BY <1>1 DEF HeldBack

(* The filter after each operation of the service. *)
LEMMA FilterOf ==
  ASSUME NEW s, IsSvc(s)
  PROVE  /\ \A f : SetFilter(s, f).filter = f
         /\ SeedWarmup(s).filter = s.filter /\ ClearWarmup(s).filter = s.filter
         /\ \A r : Install(s, r).filter = s.filter
         /\ \A k, t : Store(s, k, t).filter = s.filter
         /\ CacheWarm(s).filter = s.filter
<1> USE DEF IsSvc, SvcFields, Bump, Invalidate
<1>1. \A f : SetFilter(s, f).filter = f
  BY DEF SetFilter
<1>2. SeedWarmup(s).filter = s.filter /\ ClearWarmup(s).filter = s.filter
  BY DEF SeedWarmup, ClearWarmup
<1>3. \A r : Install(s, r).filter = s.filter
  BY DEF Install
<1>4. \A k, t : Store(s, k, t).filter = s.filter
  BY DEF Store
<1>5. CacheWarm(s).filter = s.filter
  BY <1>4 DEF CacheWarm
<1> QED BY <1>1, <1>2, <1>3, <1>4, <1>5

(* Messages are added behind those that are under way. *)
Sends == \/ toView' = toView
         \/ \E msgs : (\E S : msgs \in Seq(S)) /\ toView' = toView \o msgs

LEMMA SendsKeep ==
  ASSUME FlowTypes, Sends
  PROVE  /\ \E S : toView' \in Seq(S)
         /\ toView # <<>> => toView' # <<>> /\ Head(toView') = Head(toView)
<1>1. CASE toView' = toView
  BY <1>1 DEF FlowTypes
<1>2. ASSUME NEW msgs, NEW S, msgs \in Seq(S), toView' = toView \o msgs
      PROVE  /\ \E T : toView' \in Seq(T)
             /\ toView # <<>> => toView' # <<>> /\ Head(toView') = Head(toView)
  <2>1. PICK T : toView \in Seq(T)
    BY DEF FlowTypes
  <2>2. toView \in Seq(S \cup T) /\ msgs \in Seq(S \cup T)
    BY <1>2, <2>1
  <2>3. toView' \in Seq(S \cup T)
    BY <1>2, <2>2
  <2>4. ASSUME toView # <<>> PROVE toView' # <<>> /\ Head(toView') = Head(toView)
    <3>1. Len(toView) > 0 /\ Len(toView') = Len(toView) + Len(msgs) /\ Len(msgs) \in Nat
          /\ toView'[1] = toView[1]
      BY <1>2, <2>2, <2>4
    <3>2. toView' # <<>>
      BY <2>2, <2>3, <3>1
    <3> QED BY <2>2, <2>3, <2>4, <3>1, <3>2
  <2> QED BY <2>3, <2>4
<1> QED BY <1>1, <1>2 DEF Sends

(* A step that takes no message from the viewer keeps the flow. *)
LEMMA SilentKeeps ==
  ASSUME FlowTypes, FilterFlow, svc'.filter = svc.filter, UNCHANGED <<toHost, viewer>>, Sends
  PROVE  FlowTypes' /\ FilterFlow'
<1>1. /\ \E S : toView' \in Seq(S)
      /\ toView # <<>> => toView' # <<>> /\ Head(toView') = Head(toView)
  BY SendsKeep
<1>2. FlowTypes'
  BY <1>1, Zenon DEF FlowTypes
<1>3. FilterFlow'
  BY <1>1, Zenon DEF FilterFlow, Ends
<1> QED BY <1>2, <1>3

(* The steps of the session and the answers of the handlers. *)
LEMMA SessionSilent ==
  ASSUME PagingInv, SessionStep
  PROVE  svc'.filter = svc.filter /\ UNCHANGED <<toHost, viewer>> /\ Sends
<1>0. IsSvc(svc)
  BY Zenon DEF PagingInv
<1>1. CASE SeedWarm \/ OpenedEarly \/ FinalOpened \/ Reload \/ Reloaded
  <2>1. UNCHANGED <<toHost, viewer, toView>>
    BY <1>1 DEF SeedWarm, OpenedEarly, FinalOpened, Reload, Reloaded, Quiet
  <2>2. svc' \in {svc, SeedWarmup(svc), ClearWarmup(svc)} \/ \E r : svc' = Install(svc, r)
    BY <1>1 DEF SeedWarm, OpenedEarly, FinalOpened, Reload, Reloaded, SvcBecomes
  <2> QED BY <1>0, <2>1, <2>2, FilterOf DEF Sends
<1>2. CASE NoWarmup \/ MergeFiles \/ OpenEarly \/ OpenEarlyFails \/ MergeOver \/ FinalOpen
           \/ FinalOpenFails \/ ReadTail
  <2>1. UNCHANGED <<svc, toHost, viewer, toView>>
    BY <1>2 DEF NoWarmup, MergeFiles, OpenEarly, OpenEarlyFails, MergeOver, FinalOpen,
                FinalOpenFails, ReadTail, Quiet, Fault
  <2> QED BY <2>1 DEF Sends
<1>3. CASE DeliverWarm \/ StreamInitial
  <2>1. UNCHANGED <<svc, toHost, viewer>>
    BY <1>3 DEF DeliverWarm, StreamInitial, Quiet
  <2>2. toView' = toView \/ \E m : toView' = toView \o <<m>>
    BY <1>3, Zenon DEF DeliverWarm, StreamInitial, Send
  <2>3. \A m : <<m>> \in Seq({m})
    OBVIOUS
  <2> QED BY <2>1, <2>2, <2>3, Zenon DEF Sends
<1>4. CASE FinishInMemory
  <2>1. PICK s \in {svc, SeedWarmup(svc)} :
          /\ svc' = s
          /\ toView' = toView \o <<RefreshMsg("session", {WarmView}, svc.version),
                                   RefreshMsg("session", {WarmView}, s.version)>>
    BY <1>4 DEF FinishInMemory, SvcBecomes, Send
  <2>2. UNCHANGED <<toHost, viewer>>
    BY <1>4 DEF FinishInMemory, Quiet
  <2>3. \A m, n : <<m, n>> \in Seq({m, n})
    OBVIOUS
  <2>4. svc'.filter = svc.filter
    BY <1>0, <2>1, FilterOf
  <2> QED BY <2>1, <2>2, <2>3, <2>4, Zenon DEF Sends
<1>5. CASE Finish
  <2>1. UNCHANGED <<svc, toHost, viewer>>
    BY <1>5 DEF Finish
  <2> DEFINE a == Message("saved", "session", {}, {Stream}, svc.version)
             b == RefreshMsg("session", {View(FALSE, 2, NoFilter)}, svc.version)
             c == Batch("session", job[Main].seen, {View(FALSE, 2, NoFilter)})
  <2>2. \E sent \in {<<>>, <<c>>} : toView' = toView \o (sent \o <<a, b>>)
    BY <1>5, Zenon DEF Finish, Send
  <2> HIDE DEF a, b, c
  <2>3. <<>> \o <<a, b>> \in Seq({a, b, c}) /\ <<c>> \o <<a, b>> \in Seq({a, b, c})
    <3>1. <<>> \in Seq({a, b, c}) /\ <<c>> \in Seq({a, b, c}) /\ <<a, b>> \in Seq({a, b, c})
      OBVIOUS
    <3> QED BY <3>1
  <2>4. Sends
    BY <2>2, <2>3, Zenon DEF Sends
  <2> QED BY <2>1, <2>4
<1> QED BY <1>1, <1>2, <1>3, <1>4, <1>5 DEF SessionStep

LEMMA AnswersSilent ==
  ASSUME NEW h \in Handlers, AnswerPage(h) \/ FilterHead(h) \/ AnswerFilter(h) \/ AnswerKick(h)
  PROVE  UNCHANGED <<svc, toHost, viewer>> /\ Sends
<1>1. UNCHANGED <<svc, toHost, viewer>>
  BY Zenon DEF AnswerPage, FilterHead, AnswerFilter, AnswerKick
<1>2. CASE AnswerPage(h) \/ FilterHead(h)
  <2>1. toView' = toView \/ \E m : toView' = toView \o <<m>>
    BY <1>2, Zenon DEF AnswerPage, FilterHead, Send
  <2>2. \A m : <<m>> \in Seq({m})
    OBVIOUS
  <2> QED BY <1>1, <2>1, <2>2, Zenon DEF Sends
<1>3. CASE AnswerFilter(h)
  <2>1. \E a, b, c : toView' = toView \o <<a, b, c>>
    BY <1>3, Zenon DEF AnswerFilter, Send
  <2>2. \A a, b, c : <<a, b, c>> \in Seq({a, b, c})
    OBVIOUS
  <2> QED BY <1>1, <2>1, <2>2, Zenon DEF Sends
<1>4. CASE AnswerKick(h)
  <2>1. PICK a, b : toView' = toView \o (<<a>> \o <<b>>) \/ toView' = toView \o (<<a>> \o <<>>)
    BY <1>4, Zenon DEF AnswerKick, Send
  <2>2. <<a>> \o <<b>> \in Seq({a, b}) /\ <<a>> \o <<>> \in Seq({a, b})
    <3>1. <<a>> \in Seq({a, b}) /\ <<b>> \in Seq({a, b}) /\ <<>> \in Seq({a, b})
      OBVIOUS
    <3> QED BY <3>1
  <2> QED BY <1>1, <2>1, <2>2, Zenon DEF Sends
<1> QED BY <1>2, <1>3, <1>4

(* The bridge takes a message: a filter becomes that of the service. *)
LEMMA ReceiveFlow ==
  ASSUME PagingInv, FlowTypes, FilterFlow, NEW h \in Handlers, Receive(h)
  PROVE  FlowTypes' /\ FilterFlow'
<1> DEFINE m == Head(toHost)
           set == SetFilter(svc, m.filter)
<1>0. /\ toHost \in Seq(HostMsg) /\ toHost # <<>> /\ m \in HostMsg /\ toHost' = Tail(toHost)
      /\ UNCHANGED <<viewer, toView>> /\ IsSvc(svc) /\ GoodCache(svc)
  BY DEF FlowTypes, Receive, PagingInv
<1>1. /\ toHost' \in Seq(HostMsg)
      /\ \A i \in DOMAIN toHost' : i + 1 \in DOMAIN toHost /\ toHost'[i] = toHost[i + 1]
      /\ m = toHost[1] /\ 1 \in DOMAIN toHost
  BY <1>0
<1>2. FlowTypes'
  BY <1>0, <1>1 DEF FlowTypes
<1>3. svc'.filter = IF m.type = "filter" THEN m.filter ELSE svc.filter
  <2>1. CASE m.type = "page" /\ UNCHANGED <<svc, named>>
    BY <2>1
  <2>2. CASE m.type = "filter" /\ SvcBecomes(CacheWarm(set))
    <3>1. IsSvc(set)
      BY <1>0, SetFilterStep, Zenon DEF SvcStep
    <3>2. set.filter = m.filter
      BY <1>0, FilterOf
    <3>3. svc' = CacheWarm(set)
      BY <2>2 DEF SvcBecomes
    <3> HIDE DEF set
    <3> QED BY <2>2, <3>1, <3>2, <3>3, FilterOf, ZenonT(30)
  <2>3. CASE m.type = "ready" /\ SvcBecomes(CacheWarm(svc))
    BY <1>0, <2>3, FilterOf, Zenon DEF SvcBecomes
  <2> QED BY <2>1, <2>2, <2>3, Zenon DEF Receive
<1> HIDE DEF m
<1>4. CASE viewer.ready
  <2>1. Ends(viewer.want, svc.filter, toHost)
    BY <1>4 DEF FilterFlow
  <2>2. Ends(viewer.want, svc'.filter, Tail(toHost))
    BY <1>0, <1>3, <2>1, EndsTail, ZenonT(30) DEF m
  <2>3. Ends(viewer.want, svc.filter, toHost)'
    BY <1>0, <2>2, Zenon DEF Ends
  <2> QED BY <1>0, <1>2, <1>4, <2>3, Zenon DEF FilterFlow
<1>5. CASE ~viewer.ready
  <2>1. m.type # "filter" /\ \A i \in DOMAIN toHost' : toHost'[i].type # "filter"
    BY <1>1, <1>5 DEF FilterFlow
  <2>2. svc'.filter = svc.filter
    BY <1>3, <2>1
  <2> QED BY <1>0, <1>2, <1>5, <2>1, <2>2, Zenon DEF FilterFlow
<1> QED BY <1>4, <1>5, Zenon

(* The viewer takes a message: the first of them releases the filter that  *)
(* was held back.                                                          *)
LEMMA ViewerFlow ==
  ASSUME FlowTypes, FilterFlow, ViewerReceive
  PROVE  FlowTypes' /\ FilterFlow'
<1> DEFINE m == Head(toView)
<1>0. /\ toHost \in Seq(HostMsg) /\ ViewerFields(viewer) /\ viewer.ready \in BOOLEAN
      /\ viewer.want \in Filters \cup {NoFilter} /\ toView # <<>> /\ svc' = svc
  BY DEF FlowTypes, ViewerReceive
<1>1. \E S : toView' \in Seq(S)
  <2>1. PICK S : toView \in Seq(S)
    BY DEF FlowTypes
  <2>2. toView' \in Seq(S)
    BY <1>0, <2>1 DEF ViewerReceive
  <2> QED BY <2>2
<1>2. PageMsg \in HostMsg /\ PageMsg.type # "filter"
  BY Zenon DEF PageMsg, HostMsg
\* The queue with what was held back.
<1>3. /\ toHost \o HeldBack(viewer) \in Seq(HostMsg)
      /\ Ends(viewer.want, svc.filter, toHost \o HeldBack(viewer))
  <2>1. CASE HeldBack(viewer) = <<>>
    <3>1. toHost \o <<>> = toHost
      BY <1>0
    <3>2. Ends(viewer.want, svc.filter, toHost)
      <4>1. CASE viewer.ready
        BY <4>1 DEF FilterFlow
      <4>2. CASE ~viewer.ready /\ viewer.pending = {viewer.want}
        <5>1. <<FilterMsg(viewer.want)>> = <<>>
          BY <2>1, <4>2, HeldBackFacts, Zenon
        <5>2. Len(<<FilterMsg(viewer.want)>>) = 1 /\ Len(<<>>) = 0
          BY Zenon
        <5> QED BY <5>1, <5>2
      <4>3. CASE ~viewer.ready /\ svc.filter = viewer.want
        BY <4>3 DEF FilterFlow, Ends
      <4> QED BY <4>1, <4>2, <4>3, Zenon DEF FilterFlow
    <3> QED BY <1>0, <2>1, <3>1, <3>2
  <2>2. CASE ~viewer.ready /\ viewer.pending = {viewer.want}
    <3> DEFINE f == FilterMsg(viewer.want)
    <3>1. f \in HostMsg /\ f.type = "filter" /\ f.filter = viewer.want
      BY <1>0 DEF FilterMsg, HostMsg
    <3>2. HeldBack(viewer) = <<f>>
      BY <2>2, HeldBackFacts
    <3> HIDE DEF f
    <3>3. toHost \o <<f>> = Append(toHost, f) /\ Append(toHost, f) \in Seq(HostMsg)
      BY <1>0, <3>1
    <3>4. Ends(viewer.want, svc.filter, Append(toHost, f))
      BY <1>0, <3>1, EndsAppend, Zenon
    <3> QED BY <3>2, <3>3, <3>4, Zenon
  <2>3. viewer.ready \/ viewer.pending = {} => HeldBack(viewer) = <<>>
    BY HeldBackFacts
  <2> QED BY <2>1, <2>2, <2>3 DEF FilterFlow
<1>4. /\ (toHost \o HeldBack(viewer)) \o <<PageMsg>> \in Seq(HostMsg)
      /\ Ends(viewer.want, svc.filter, (toHost \o HeldBack(viewer)) \o <<PageMsg>>)
  <2> DEFINE q == toHost \o HeldBack(viewer)
  <2>1. q \in Seq(HostMsg) /\ Ends(viewer.want, svc.filter, q)
    BY <1>3
  <2> HIDE DEF q
  <2>2. q \o <<PageMsg>> = Append(q, PageMsg) /\ Append(q, PageMsg) \in Seq(HostMsg)
    BY <1>2, <2>1
  <2>3. Ends(viewer.want, svc.filter, Append(q, PageMsg))
    BY <1>2, <2>1, EndsAppend
  <2> QED BY <2>2, <2>3, Zenon DEF q
<1>5. CASE m.type \in {"state", "batch", "refresh"}
  <2>1. /\ viewer'.ready = TRUE /\ viewer'.want = viewer.want /\ ViewerFields(viewer)'
    BY <1>0, <1>5, Zenon DEF ViewerReceive, Readied, ViewerFields
  <2>2. toHost' = toHost \o HeldBack(viewer) \/ toHost' = (toHost \o HeldBack(viewer)) \o <<PageMsg>>
    BY <1>5 DEF ViewerReceive
  <2>3. toHost' \in Seq(HostMsg) /\ Ends(viewer.want, svc.filter, toHost')
    BY <1>3, <1>4, <2>2, Zenon
  <2>4. Ends(viewer.want, svc.filter, toHost)'
    BY <1>0, <2>1, <2>3, Zenon DEF Ends
  <2>5. viewer'.ready \in BOOLEAN
    BY <2>1, Zenon
  <2>6. FlowTypes'
    BY <1>0, <1>1, <2>1, <2>3, <2>5 DEF FlowTypes
  <2>7. FilterFlow'
    BY <2>1, <2>4, ZenonT(30) DEF FilterFlow
  <2> QED BY <2>6, <2>7
<1>6. CASE m.type \in {"saved", "response"}
  <2>1. viewer.ready = TRUE
    BY <1>0, <1>6 DEF FilterFlow
  <2>2. /\ viewer'.ready = viewer.ready /\ viewer'.want = viewer.want /\ ViewerFields(viewer)'
        /\ toHost' = toHost
    BY <1>0, <1>6, Zenon DEF ViewerReceive, ViewerFields
  <2>3. Ends(viewer.want, svc.filter, toHost)'
    BY <1>0, <2>1, <2>2, ZenonT(30) DEF Ends, FilterFlow
  <2>4. FlowTypes'
    BY <1>0, <1>1, <2>2 DEF FlowTypes
  <2>5. FilterFlow'
    BY <2>1, <2>2, <2>3, Zenon DEF FilterFlow
  <2> QED BY <2>4, <2>5
<1> QED BY <1>5, <1>6 DEF ViewerReceive

(* The user chooses a filter or scrolls. *)
LEMMA UserFlow ==
  ASSUME FlowTypes, FilterFlow, UserStep
  PROVE  FlowTypes' /\ FilterFlow'
<1>0. /\ toHost \in Seq(HostMsg) /\ ViewerFields(viewer) /\ viewer.ready \in BOOLEAN
      /\ viewer.want \in Filters \cup {NoFilter} /\ UNCHANGED <<svc, toView>>
  BY Zenon DEF FlowTypes, UserStep, Scroll, ApplyFilter
<1>1. CASE Scroll
  <2>1. PageMsg \in HostMsg /\ PageMsg.type # "filter"
    BY DEF PageMsg, HostMsg
  <2>2. toHost' = Append(toHost, PageMsg) /\ viewer' = viewer
    BY <1>1 DEF Scroll
  <2>3. toHost' \in Seq(HostMsg)
    BY <1>0, <2>1, <2>2
  <2>4. FlowTypes'
    BY <1>0, <2>2, <2>3 DEF FlowTypes
  <2>5. ASSUME viewer.ready PROVE Ends(viewer.want, svc.filter, toHost)'
    <3>1. Ends(viewer.want, svc.filter, Append(toHost, PageMsg))
      BY <1>0, <2>1, <2>5, EndsAppend, Zenon DEF FilterFlow
    <3> QED BY <1>0, <2>2, <3>1, Zenon DEF Ends
  <2>6. ASSUME ~viewer.ready, NEW i \in DOMAIN toHost' PROVE toHost'[i].type # "filter"
    <3>1. \A j \in DOMAIN toHost : toHost[j].type # "filter"
      BY <2>6, ZenonT(30) DEF FilterFlow
    <3>2. (i \in DOMAIN toHost /\ toHost'[i] = toHost[i]) \/ toHost'[i] = PageMsg
      BY <1>0, <2>2
    <3> QED BY <2>1, <3>1, <3>2
  <2>7. FilterFlow'
    BY <1>0, <2>2, <2>5, <2>6, Zenon DEF FilterFlow
  <2> QED BY <2>4, <2>7
<1>2. ASSUME NEW f \in Filters \cup {NoFilter}, ApplyFilter(f) PROVE FlowTypes' /\ FilterFlow'
  <2>1. FilterMsg(f) \in HostMsg /\ FilterMsg(f).type = "filter" /\ FilterMsg(f).filter = f
    BY DEF FilterMsg, HostMsg
  <2>2. /\ viewer'.ready = viewer.ready /\ viewer'.want = f /\ ViewerFields(viewer)'
        /\ viewer'.pending = IF viewer.ready THEN {} ELSE {f}
        /\ toHost' = IF viewer.ready THEN Append(toHost, FilterMsg(f)) ELSE toHost
    BY <1>0, <1>2, Zenon DEF ApplyFilter, ViewerFields
  <2>3. toHost' \in Seq(HostMsg)
    BY <1>0, <2>1, <2>2
  <2>4. FlowTypes'
    BY <1>0, <2>2, <2>3, Zenon DEF FlowTypes
  <2>5. ASSUME viewer.ready PROVE Ends(viewer.want, svc.filter, toHost)'
    <3>1. Ends(f, svc.filter, Append(toHost, FilterMsg(f)))
      BY <1>0, <2>1, EndsAppend, Zenon
    <3> QED BY <1>0, <2>2, <2>5, <3>1, ZenonT(30) DEF Ends
  <2>6. FilterFlow'
    BY <1>0, <2>2, <2>5, Zenon DEF FilterFlow
  <2> QED BY <2>4, <2>6
<1> QED BY <1>1, <1>2 DEF UserStep

LEMMA FlowInit == Init => FlowTypes /\ FilterFlow
<1> SUFFICES ASSUME Init PROVE FlowTypes /\ FilterFlow
  OBVIOUS
<1>1. /\ toHost = <<ReadyMsg>> /\ toView = <<StateMsg({ViewOf(svc)})>>
      /\ viewer.ready = FALSE /\ viewer.pending = {} /\ viewer.want = NoFilter
      /\ ViewerFields(viewer) /\ svc.filter = NoFilter
  BY Zenon DEF Init, ViewerFields
<1>2. ReadyMsg \in HostMsg /\ ReadyMsg.type = "ready"
  BY Zenon DEF ReadyMsg, HostMsg
<1>3. /\ toHost \in Seq(HostMsg) /\ DOMAIN toHost = {1} /\ toHost[1] = ReadyMsg
  BY <1>1, <1>2
<1>4. /\ toView \in Seq({StateMsg({ViewOf(svc)})}) /\ toView # <<>>
      /\ Head(toView) = StateMsg({ViewOf(svc)})
  BY <1>1
<1>5. Head(toView).type = "state"
  BY <1>4 DEF StateMsg, Message
<1>6. viewer.ready \in BOOLEAN
  BY <1>1, Zenon
<1>7. FlowTypes
  BY <1>1, <1>3, <1>4, <1>6, Zenon DEF FlowTypes
<1>8. FilterFlow
  BY <1>1, <1>2, <1>3, <1>4, <1>5, ZenonT(30) DEF FilterFlow
<1> QED BY <1>7, <1>8

LEMMA FlowNext == PagingInv /\ FlowTypes /\ FilterFlow /\ [Next]_vars => FlowTypes' /\ FilterFlow'
<1> SUFFICES ASSUME PagingInv, FlowTypes, FilterFlow, [Next]_vars PROVE FlowTypes' /\ FilterFlow'
  OBVIOUS
<1>1. CASE SessionStep
  BY <1>1, SessionSilent, SilentKeeps
<1>2. ASSUME NEW h \in Handlers, BridgeStep(h) PROVE FlowTypes' /\ FilterFlow'
  <2>1. CASE Receive(h)
    BY <2>1, ReceiveFlow
  <2>2. CASE ~Receive(h)
    <3>1. UNCHANGED <<svc, toHost, viewer>> /\ Sends
      BY <1>2, <2>2, AnswersSilent DEF BridgeStep
    <3>2. svc'.filter = svc.filter /\ UNCHANGED <<toHost, viewer>>
      BY <3>1, Zenon
    <3> QED BY <3>1, <3>2, SilentKeeps
  <2> QED BY <2>1, <2>2
<1>3. ASSUME NEW h \in DOMAIN job, ScanWindow(h) PROVE FlowTypes' /\ FilterFlow'
  <2>1. UNCHANGED <<toHost, viewer, toView>>
    BY <1>3 DEF ScanWindow
  <2>2. svc' = svc \/ \E k, t : svc' = Store(svc, k, t)
    BY <1>3, Zenon DEF ScanWindow, SvcBecomes
  <2>3. svc'.filter = svc.filter
    BY <2>2, FilterOf DEF PagingInv
  <2> QED BY <2>1, <2>3, SilentKeeps DEF Sends
<1>4. CASE ViewerReceive \/ UserStep
  BY <1>4, ViewerFlow, UserFlow
<1>5. CASE Rest \/ UNCHANGED vars
  <2>1. UNCHANGED <<svc, toHost, viewer, toView>>
    BY <1>5 DEF Rest, vars
  <2> QED BY <2>1, SilentKeeps DEF Sends
<1> QED BY <1>1, <1>2, <1>3, <1>4, <1>5 DEF Next

(* When all is quiet the service has the filter the user chose last,       *)
(* however many were chosen, also before the viewer might send any and     *)
(* setReadyForFilter released the one it held back.                        *)
THEOREM FilterIsNotLost == Spec => []FilterNotLost
<1>1. FilterFlow => FilterNotLost
  <2> SUFFICES ASSUME FilterFlow, Settled PROVE svc.filter = viewer.want
    BY DEF FilterNotLost
  <2>1. toHost = <<>> /\ toView = <<>>
    BY DEF Settled
  <2>2. Ends(viewer.want, svc.filter, <<>>)
    BY <2>1, Zenon DEF FilterFlow
  <2>3. DOMAIN <<>> = {}
    OBVIOUS
  <2> QED BY <2>2, <2>3, ZenonT(30) DEF Ends
<1> QED BY <1>1, PagingInvInit, PagingInvNext, FlowInit, FlowNext, PTL DEF Spec
-----------------------------------------------------------------------------
(***************************************************************************)
(* The panel, its bridge and the progress of merges.                       *)
(***************************************************************************)

CallFields == {"kind", "at", "panel", "rep", "guess", "left", "emitted", "done", "tasks"}
ViewFields == {"allow", "done", "total", "open", "rows"}

(* The state has the fields the code gives it. *)
Shape ==
  /\ call = [c \in Calls |-> call[c]]
  /\ \A c \in Calls : call[c] = [k \in CallFields |-> call[c][k]]
  /\ view = [k \in ViewFields |-> view[k]]

(* The panel a call waits for was created by that call alone, and nobody   *)
(* listens on it until the call goes on.                                   *)
PanelInv ==
  /\ opened \in Nat
  /\ panel \in {0, opened}
  /\ bridge \in {0, panel}
  /\ listeners \in {0, 1}
  /\ \A c \in Calls : call[c].at = "page" =>
       /\ call[c].panel \in 1..opened
       /\ call[c].panel = panel => listeners = 0
       /\ \A d \in Calls \ {c} : call[d].at = "page" => call[d].panel # call[c].panel

(* A message that leaves the rows alone once estimates are not allowed. *)
KeepsRows(m) == m.type \in {"progress", "done"}

(* The last refresh is shown, or under way, and nothing that came after it *)
(* changes the rows.                                                       *)
ToldInv ==
  told # None =>
    \/ /\ view.rows = told /\ view.allow = FALSE
       /\ \A i \in DOMAIN wire : KeepsRows(wire[i])
    \/ \E i \in DOMAIN wire :
         /\ wire[i].type = "refresh" /\ wire[i].warm = FALSE /\ wire[i].total = told
         /\ \A k \in (i + 1)..Len(wire) : KeepsRows(wire[k])

Types == {"batch", "refresh", "saved", "start", "done", "progress"}

(* Nothing is under way to a panel that is not there. *)
WireInv ==
  /\ \E S : wire \in Seq(S)
  /\ \A i \in DOMAIN wire : wire[i].type \in Types
  /\ panel = 0 => wire = <<>> /\ told = None /\ tick.timer = FALSE

-----------------------------------------------------------------------------
(* What a step that starts no waiting for a page does to the calls. *)
CallsKeep ==
  /\ call' = [d \in Calls |-> call'[d]]
  /\ \A d \in Calls : call'[d] = [k \in CallFields |-> call'[d][k]]
  /\ \A d \in Calls : call'[d].at = "page" =>
       call[d].at = "page" /\ call'[d].panel = call[d].panel

(* One call gets new fields and does not wait for a page that it did not   *)
(* wait for before.                                                        *)
LEMMA CallSet ==
  ASSUME Shape, NEW c \in Calls, NEW j, call' = [call EXCEPT ![c] = j],
         j = [k \in CallFields |-> j[k]],
         j.at = "page" => call[c].at = "page" /\ j.panel = call[c].panel
  PROVE  CallsKeep
<1>1. call' = [d \in Calls |-> IF d = c THEN j ELSE call[d]]
  BY DEF Shape
<1>2. \A d \in Calls : call'[d] = IF d = c THEN j ELSE call[d]
  BY <1>1
<1>3. call' = [d \in Calls |-> call'[d]]
  BY <1>1, Zenon
<1>4. \A d \in Calls : call[d] = [k \in CallFields |-> call[d][k]]
  BY DEF Shape
<1> QED BY <1>2, <1>3, <1>4 DEF CallsKeep

LEMMA EndedShape ==
  ASSUME NEW j, j = [k \in CallFields |-> j[k]]
  PROVE  /\ Ended(j) = [k \in CallFields |-> Ended(j)[k]]
         /\ Ended(j).at = j.at /\ Ended(j).panel = j.panel
BY Zenon DEF Ended, CallFields

LEMMA StepKeeps ==
  ASSUME Shape, NEW c \in Calls, NEW at, at # "page", Step(c, at)
  PROVE  CallsKeep
<1> DEFINE e == IF at = "over" THEN Ended(call[c]) ELSE call[c]
           j == [e EXCEPT !.at = at]
<1>1. e = [k \in CallFields |-> e[k]]
  BY EndedShape DEF Shape
<1>2. call' = [call EXCEPT ![c] = j]
  BY DEF Step, Shape
<1> HIDE DEF e
<1>3. j = [k \in CallFields |-> j[k]] /\ j.at = at
  BY <1>1 DEF CallFields
<1> HIDE DEF j
<1> QED BY <1>2, <1>3, CallSet, Zenon

LEMMA LeftShape ==
  ASSUME NEW j, j = [k \in CallFields |-> j[k]]
  PROVE  /\ Left(j) = [k \in CallFields |-> Left(j)[k]]
         /\ Left(j).at = j.at /\ Left(j).panel = j.panel
<1> DEFINE i == [j EXCEPT !.tasks = @ - 1]
<1>1. i = [k \in CallFields |-> i[k]] /\ i.at = j.at /\ i.panel = j.panel
  BY DEF CallFields
<1>2. Left(j) = i \/ Left(j) = Ended(i)
  BY Zenon DEF Left
<1> HIDE DEF i
<1> QED BY <1>1, <1>2, EndedShape

(* No step of a merge waits for a page. *)
LEMMA MergeKeepsCalls ==
  ASSUME Shape, NEW c \in Calls, MergeStep(c)
  PROVE  CallsKeep
<1>0. call[c] = [k \in CallFields |-> call[c][k]] /\ call = [d \in Calls |-> call[d]]
  BY DEF Shape
<1>1. ASSUME NEW lines, NEW guess, Announce(c, lines, guess) PROVE CallsKeep
  <2> DEFINE j == [call[c] EXCEPT !.at = "warm", !.left = lines, !.guess = guess]
  <2>1. call' = [call EXCEPT ![c] = j]
    BY <1>0, <1>1, Zenon DEF Announce
  <2>2. j = [k \in CallFields |-> j[k]] /\ j.at = "warm"
    BY <1>0, Zenon DEF CallFields
  <2> HIDE DEF j
  <2> QED BY <2>1, <2>2, CallSet
<1>2. ASSUME NEW lines, AnnounceUnknown(c, lines) PROVE CallsKeep
  <2> DEFINE j == [call[c] EXCEPT !.at = "warm", !.left = lines]
  <2>1. call' = [call EXCEPT ![c] = j]
    BY <1>0, <1>2, Zenon DEF AnnounceUnknown
  <2>2. j = [k \in CallFields |-> j[k]] /\ j.at = "warm"
    BY <1>0, Zenon DEF CallFields
  <2> HIDE DEF j
  <2> QED BY <2>1, <2>2, CallSet
<1>3. ASSUME NEW w, WarmUp(c, w) PROVE CallsKeep
  <2> DEFINE j == [call[c] EXCEPT !.at = "decide", !.done = w]
  <2>1. call' = [call EXCEPT ![c] = j]
    BY <1>0, <1>3, Zenon DEF WarmUp
  <2>2. j = [k \in CallFields |-> j[k]] /\ j.at = "decide"
    BY <1>0, Zenon DEF CallFields
  <2> HIDE DEF j
  <2> QED BY <2>1, <2>2, CallSet
<1>4. CASE NoWarmUp(c) \/ Decide(c) \/ PreWarm(c) \/ PreWarmed(c) \/ SkipT1(c)
             \/ NoFiles(c) \/ SortTypes(c)
  <2>1. \E at : at # "page" /\ Step(c, at)
    BY <1>4, Zenon DEF NoWarmUp, Decide, PreWarm, PreWarmed, SkipT1, NoFiles, SortTypes
  <2> QED BY <2>1, StepKeeps
<1>5. ASSUME NEW shown, EmitBatch(c, shown) PROVE CallsKeep
  <2> DEFINE e == call[c].emitted + 1
             j == [call[c] EXCEPT !.left = @ - 1, !.emitted = e, !.done = e, !.tasks = @ + 1]
  <2>1. call' = [call EXCEPT ![c] = j] /\ call[c].at = "emit"
    BY <1>0, <1>5, Zenon DEF EmitBatch
  <2>2. j = [k \in CallFields |-> j[k]] /\ j.at = call[c].at
    BY <1>0, Zenon DEF CallFields
  <2> HIDE DEF j
  <2> QED BY <2>1, <2>2, CallSet
<1>6. CASE MergeThrough(c)
  <2> DEFINE j == [call[c] EXCEPT !.at = "store", !.done = call[c].emitted]
  <2>1. call' = [call EXCEPT ![c] = j]
    BY <1>0, <1>6, Zenon DEF MergeThrough
  <2>2. j = [k \in CallFields |-> j[k]] /\ j.at = "store"
    BY <1>0, Zenon DEF CallFields
  <2> HIDE DEF j
  <2> QED BY <2>1, <2>2, CallSet
<1>7. ASSUME NEW merged, SessionEnds(c, merged) PROVE CallsKeep
  BY <1>7, StepKeeps DEF SessionEnds
<1> QED BY <1>1, <1>2, <1>3, <1>4, <1>5, <1>6, <1>7, Zenon DEF MergeStep

LEMMA BatchKeepsCalls ==
  ASSUME Shape, NEW c \in Calls, BatchStored(c) \/ BatchFails(c)
  PROVE  CallsKeep
<1>0. call[c] = [k \in CallFields |-> call[c][k]] /\ call = [d \in Calls |-> call[d]]
  BY DEF Shape
<1>1. CASE BatchStored(c)
  <2> DEFINE i == [call[c] EXCEPT !.done = @ + 1]
  <2>1. i = [k \in CallFields |-> i[k]] /\ i.at = call[c].at /\ i.panel = call[c].panel
    BY <1>0 DEF CallFields
  <2>2. call' = [call EXCEPT ![c] = Left(i)]
    BY <1>1, Zenon DEF BatchStored
  <2> HIDE DEF i
  <2> QED BY <2>1, <2>2, LeftShape, CallSet
<1>2. CASE BatchFails(c)
  <2>1. call' = [call EXCEPT ![c] = Left(call[c])]
    BY <1>0, <1>2, Zenon DEF BatchFails
  <2> QED BY <1>0, <2>1, LeftShape, CallSet
<1> QED BY <1>1, <1>2

(* A call that goes on with the viewer open. *)
LEMMA EnterKeeps ==
  ASSUME Shape, NEW c \in Calls, NEW kind, NEW rep, Enter(c, kind, rep)
  PROVE  CallsKeep /\ call'[c].at # "page"
<1>0. call[c] = [k \in CallFields |-> call[c][k]] /\ call = [d \in Calls |-> call[d]]
  BY DEF Shape
<1> DEFINE a == IF kind = "merge" THEN "root" ELSE "over"
           r == IF kind = "merge" THEN rep ELSE 0
           j == [call[c] EXCEPT !.at = a, !.kind = kind, !.rep = r]
<1>1. call' = [call EXCEPT ![c] = j]
  BY <1>0, Zenon DEF Enter
<1>2. a # "page"
  OBVIOUS
<1> HIDE DEF a, r
<1>3. j = [k \in CallFields |-> j[k]] /\ j.at = a
  BY <1>0, Zenon DEF CallFields
<1>4. call'[c] = j
  BY <1>0, <1>1, Zenon
<1> HIDE DEF j
<1> QED BY <1>1, <1>2, <1>3, <1>4, CallSet

-----------------------------------------------------------------------------
(* A step that leaves the panel alone and makes no call wait for a page. *)
LEMMA PanelKept ==
  ASSUME PanelInv, CallsKeep, UNCHANGED <<panel, opened, bridge, listeners>>
  PROVE  PanelInv'
BY ZenonT(30) DEF PanelInv, CallsKeep

LEMMA PanelNext ==
  ASSUME Shape, PanelInv, [ProgressNext]_progressVars
  PROVE  PanelInv' /\ call' = [c \in Calls |-> call'[c]]
           /\ \A c \in Calls : call'[c] = [k \in CallFields |-> call'[c][k]]
<1>0. call = [d \in Calls |-> call[d]] /\ \A d \in Calls : call[d] = [k \in CallFields |-> call[d][k]]
  BY Zenon DEF Shape
<1> DEFINE Goal == PanelInv' /\ call' = [c \in Calls |-> call'[c]]
           /\ \A c \in Calls : call'[c] = [k \in CallFields |-> call'[c][k]]
<1>1. CallsKeep /\ UNCHANGED <<panel, opened, bridge, listeners>> => Goal
  BY PanelKept, Zenon DEF CallsKeep
<1>2. ASSUME NEW c \in Calls, NEW kind, EnterOpen(c, kind) PROVE Goal
  BY <1>1, <1>2, EnterKeeps DEF EnterOpen
<1>3. ASSUME NEW c \in Calls, NEW kind, CreatePanel(c, kind) PROVE Goal
  <2> DEFINE n == opened + 1
             j == [call[c] EXCEPT !.at = "page", !.kind = kind, !.panel = n]
  <2>1. /\ opened' = n /\ panel' = n /\ listeners' = 0 /\ bridge' = bridge /\ panel = 0
        /\ call' = [call EXCEPT ![c] = j]
    BY <1>0, <1>3, Zenon DEF CreatePanel
  <2>2. j = [k \in CallFields |-> j[k]] /\ j.at = "page" /\ j.panel = n
    BY <1>0, Zenon DEF CallFields
  <2> HIDE DEF j
  <2>3. call' = [d \in Calls |-> IF d = c THEN j ELSE call[d]]
    BY <1>0, <2>1
  <2>4. \A d \in Calls : call'[d] = IF d = c THEN j ELSE call[d]
    BY <2>3
  <2>5. call' = [d \in Calls |-> call'[d]]
    BY <2>3
  <2>6. \A d \in Calls : call'[d] = [k \in CallFields |-> call'[d][k]]
    BY <1>0, <2>2, <2>4, Zenon
  <2>7. PanelInv'
    BY <2>1, <2>2, <2>4 DEF PanelInv
  <2> QED BY <2>5, <2>6, <2>7
<1>4. ASSUME NEW c \in Calls, PageLoaded(c) PROVE Goal
  <2>1. CallsKeep /\ call'[c].at # "page"
    BY <1>4, EnterKeeps, Zenon DEF PageLoaded
  <2>2. /\ call[c].at = "page" /\ panel = call[c].panel /\ bridge' = panel
        /\ listeners' = listeners + 1 /\ UNCHANGED <<panel, opened>>
    BY <1>4, Zenon DEF PageLoaded
  <2>3. PanelInv'
    BY <2>1, <2>2 DEF PanelInv, CallsKeep
  <2> QED BY <2>1, <2>3, Zenon DEF CallsKeep
<1>5. ASSUME NEW c \in Calls, PageOfClosed(c) \/ ReadConfig(c) \/ SessionFails(c) PROVE Goal
  <2>1. \E at : at # "page" /\ Step(c, at)
    BY <1>5, Zenon DEF PageOfClosed, ReadConfig, SessionFails
  <2>2. UNCHANGED <<panel, opened, bridge, listeners>>
    BY <1>5 DEF PageOfClosed, ReadConfig, SessionFails, Keep
  <2> QED BY <1>1, <2>1, <2>2, StepKeeps, Zenon
<1>6. ASSUME NEW c \in Calls, MergeStep(c) PROVE Goal
  <2>1. UNCHANGED <<panel, opened, bridge, listeners>>
    BY <1>6, Zenon DEF MergeStep, Announce, AnnounceUnknown, WarmUp, NoWarmUp, Decide, PreWarm,
       PreWarmed, SkipT1, NoFiles, SortTypes, EmitBatch, MergeThrough, SessionEnds, Keep
  <2> QED BY <1>1, <1>6, <2>1, MergeKeepsCalls
<1>7. ASSUME NEW c \in Calls, BatchStored(c) \/ BatchFails(c) PROVE Goal
  <2>1. UNCHANGED <<panel, opened, bridge, listeners>>
    BY <1>7, Zenon DEF BatchStored, BatchFails, Keep
  <2> QED BY <1>1, <1>7, <2>1, BatchKeepsCalls
<1>8. CASE ClosePanel
  <2>1. call' = call /\ panel' = 0 /\ bridge' = 0 /\ listeners' = 0 /\ opened' = opened
    BY <1>8, Zenon DEF ClosePanel
  <2> QED BY <1>0, <2>1 DEF PanelInv
<1>9. CASE Tick \/ ViewerShows \/ UNCHANGED progressVars
  <2>1. UNCHANGED <<panel, opened, bridge, listeners, call>>
    BY <1>9 DEF Tick, ViewerShows, progressVars
  <2> QED BY <1>0, <1>1, <2>1 DEF CallsKeep
<1> QED BY <1>2, <1>3, <1>4, <1>5, <1>6, <1>7, <1>8, <1>9, Zenon DEF ProgressNext, Start, PanelStep

-----------------------------------------------------------------------------
(* What a message does to the rows and to the gate on estimates. *)
LEMMA BarKeepsRows ==
  ASSUME NEW v, NEW m, v = [k \in ViewFields |-> v[k]]
  PROVE  /\ Bar(v, m) = [k \in ViewFields |-> Bar(v, m)[k]]
         /\ Bar(v, m).rows = v.rows /\ Bar(v, m).allow = v.allow
<1> DEFINE total == IF m.total = None THEN v.total ELSE m.total
           base  == IF m.reset THEN 0 ELSE v.done
           done  == IF m.done = None THEN base + m.inc ELSE m.done
           open  == m.active /\ ~(total > 0 /\ done >= total)
           b == [v EXCEPT !.total = total, !.done = done, !.open = open]
<1>1. Bar(v, m) = b
  BY DEF Bar
<1> HIDE DEF total, done, open
<1>2. b = [k \in ViewFields |-> b[k]] /\ b.rows = v.rows /\ b.allow = v.allow
  BY Zenon DEF ViewFields
<1> HIDE DEF b
<1> QED BY <1>1, <1>2

LEMMA SealRows ==
  ASSUME NEW v, NEW t, v = [k \in ViewFields |-> v[k]]
  PROVE  /\ Seal(v) = [k \in ViewFields |-> Seal(v)[k]]
         /\ Seal(v).rows = v.rows /\ Seal(v).allow = FALSE
         /\ Rows(v, t) = [k \in ViewFields |-> Rows(v, t)[k]]
         /\ Rows(v, t).allow = v.allow /\ (t # None => Rows(v, t).rows = t)
BY Zenon DEF Seal, Rows, ViewFields

LEMMA EstimateShape ==
  ASSUME NEW v, NEW t, v = [k \in ViewFields |-> v[k]]
  PROVE  /\ Estimate(v, t) = [k \in ViewFields |-> Estimate(v, t)[k]]
         /\ v.allow = FALSE => Estimate(v, t) = v
BY DEF Estimate, ViewFields

LEMMA ShownRows ==
  ASSUME NEW v, NEW m, v = [k \in ViewFields |-> v[k]], m.type \in Types
  PROVE  /\ Shown(v, m) = [k \in ViewFields |-> Shown(v, m)[k]]
         /\ KeepsRows(m) /\ v.allow = FALSE => Shown(v, m).rows = v.rows /\ Shown(v, m).allow = FALSE
         /\ m.type = "refresh" /\ m.warm = FALSE /\ m.total # None =>
              Shown(v, m).rows = m.total /\ Shown(v, m).allow = FALSE
<1>1. CASE m.type = "batch"
  <2>1. Shown(v, m) = Seal(Rows(v, m.total)) /\ ~KeepsRows(m)
    BY <1>1, Zenon DEF Shown, KeepsRows
  <2> QED BY <1>1, <2>1, SealRows, Zenon
<1>2. CASE m.type = "refresh"
  <2> DEFINE u == IF m.warm THEN v ELSE Seal(v)
             w == Rows(u, m.total)
  <2>1. Shown(v, m) = BarFull(w, m.total) /\ ~KeepsRows(m)
    BY <1>2 DEF Shown, KeepsRows
  <2>2. u = [k \in ViewFields |-> u[k]] /\ (m.warm = FALSE => u.allow = FALSE)
    BY SealRows, Zenon
  <2> HIDE DEF u
  <2>3. w = [k \in ViewFields |-> w[k]] /\ w.allow = u.allow /\ (m.total # None => w.rows = m.total)
    <3>1. \A t1 : /\ Rows(u, t1) = [k \in ViewFields |-> Rows(u, t1)[k]]
                  /\ Rows(u, t1).allow = u.allow /\ (t1 # None => Rows(u, t1).rows = t1)
      BY <2>2, SealRows, ZenonT(40)
    <3> QED BY <3>1
  <2> HIDE DEF w
  <2>4. /\ BarFull(w, m.total) = [k \in ViewFields |-> BarFull(w, m.total)[k]]
        /\ BarFull(w, m.total).rows = w.rows /\ BarFull(w, m.total).allow = w.allow
    BY <2>3, BarKeepsRows, Zenon DEF BarFull
  <2> QED BY <2>1, <2>2, <2>3, <2>4
<1>3. CASE m.type = "saved"
  <2> DEFINE w == Rows(Seal(v), m.total)
  <2>1. Shown(v, m) = BarFull(w, m.total) /\ ~KeepsRows(m)
    BY <1>3 DEF Shown, KeepsRows
  <2>2. w = [k \in ViewFields |-> w[k]]
    BY SealRows, Zenon
  <2> HIDE DEF w
  <2>3. BarFull(w, m.total) = [k \in ViewFields |-> BarFull(w, m.total)[k]]
    BY <2>2, BarKeepsRows, Zenon DEF BarFull
  <2> QED BY <1>3, <2>1, <2>3
<1>4. CASE m.type = "start"
  <2>1. Shown(v, m) = [v EXCEPT !.allow = TRUE] /\ ~KeepsRows(m)
    BY <1>4 DEF Shown, KeepsRows
  <2>2. [v EXCEPT !.allow = TRUE] = [k \in ViewFields |-> [v EXCEPT !.allow = TRUE][k]]
    BY Zenon DEF ViewFields
  <2> QED BY <1>4, <2>1, <2>2
<1>5. CASE m.type = "done"
  BY <1>5, SealRows, Zenon DEF Shown
<1>6. CASE m.type = "progress"
  <2>1. Shown(v, m) = Estimate(Bar(v, m), m.total)
    BY <1>6 DEF Shown
  <2> DEFINE b == Bar(v, m)
  <2>2. b = [k \in ViewFields |-> b[k]] /\ b.rows = v.rows /\ b.allow = v.allow
    BY BarKeepsRows
  <2> HIDE DEF b
  <2>3. /\ Estimate(b, m.total) = [k \in ViewFields |-> Estimate(b, m.total)[k]]
        /\ b.allow = FALSE => Estimate(b, m.total) = b
    BY <2>2, EstimateShape, Zenon
  <2>4. Shown(v, m) = Estimate(b, m.total)
    BY <2>1, Zenon DEF b
  <2> QED BY <1>6, <2>2, <2>3, <2>4
<1> QED BY <1>1, <1>2, <1>3, <1>4, <1>5, <1>6, Zenon DEF Types

-----------------------------------------------------------------------------
(* A list of messages. *)
Messages(q) ==
  /\ \E S : q \in Seq(S)
  /\ \A i \in DOMAIN q : q[i].type \in Types

(* What a step of a merge sends: nothing without a panel, and after a      *)
(* message that changes the rows no closing stage alone.                   *)
Sendable(q) ==
  /\ Messages(q)
  /\ panel = 0 => q = <<>>
  /\ \/ q = <<>>
     \/ \A i \in DOMAIN q : q[i].type = "done"
     \/ q[Len(q)].type # "done" /\ (q[Len(q)].type = "refresh" => q[Len(q)].warm \in BOOLEAN)

LEMMA MessagesConcat ==
  ASSUME NEW p, NEW q, Messages(p), Messages(q)
  PROVE  Messages(p \o q)
<1>1. PICK S : p \in Seq(S)
  BY DEF Messages
<1>2. PICK T : q \in Seq(T)
  BY DEF Messages
<1>3. p \in Seq(S \cup T) /\ q \in Seq(S \cup T)
  BY <1>1, <1>2
<1>4. p \o q \in Seq(S \cup T)
  BY <1>3
<1>5. ASSUME NEW i \in DOMAIN (p \o q) PROVE (p \o q)[i].type \in Types
  <2>1. \/ i \in DOMAIN p /\ (p \o q)[i] = p[i]
        \/ i - Len(p) \in DOMAIN q /\ (p \o q)[i] = q[i - Len(p)]
    BY <1>3
  <2> QED BY <2>1, Zenon DEF Messages
<1> QED BY <1>4, <1>5, Zenon DEF Messages

(* Lists that end in a message that is not a closing stage. *)
LEMMA EndsIn ==
  ASSUME NEW p, Messages(p), NEW a, NEW b, a.type \in Types, b.type \in Types
  PROVE  /\ Messages(p \o <<a, b>>) /\ p \o <<a, b>> # <<>>
         /\ (p \o <<a, b>>)[Len(p \o <<a, b>>)] = b
<1>1. PICK S : p \in Seq(S)
  BY DEF Messages
<1>2. <<a, b>> \in Seq({a, b}) /\ DOMAIN <<a, b>> = {1, 2} /\ <<a, b>>[1] = a /\ <<a, b>>[2] = b
  OBVIOUS
<1>3. Messages(<<a, b>>)
  BY <1>2, Zenon DEF Messages
<1>4. p \in Seq(S \cup {a, b}) /\ <<a, b>> \in Seq(S \cup {a, b}) /\ Len(<<a, b>>) = 2
  BY <1>1
<1>5. Len(p \o <<a, b>>) = Len(p) + 2 /\ (p \o <<a, b>>)[Len(p) + 2] = b
  BY <1>4
<1> QED BY <1>3, <1>4, <1>5, MessagesConcat

LEMMA NoMessages == Messages(<<>>)
<1>1. <<>> \in Seq({}) /\ DOMAIN <<>> = {}
  OBVIOUS
<1> QED BY <1>1 DEF Messages

LEMMA FirstBatchSends ==
  ASSUME PanelInv, NEW total
  PROVE  Sendable(FirstBatch(total)) /\ (bridge = 0 => FirstBatch(total) = <<>>)
<1> DEFINE m == BatchMsg(total)
<1>1. m.type = "batch"
  BY DEF BatchMsg
<1>2. /\ FirstBatch(total) = <<>> \/ FirstBatch(total) = <<m>>
      /\ bridge = 0 => FirstBatch(total) = <<>>
  BY Zenon DEF FirstBatch, Sent
<1>3. panel = 0 => bridge = 0
  BY DEF PanelInv
<1> HIDE DEF m
<1>4. <<m>> \in Seq({m}) /\ DOMAIN <<m>> = {1} /\ <<m>>[1] = m /\ Len(<<m>>) = 1
  OBVIOUS
<1> QED BY <1>1, <1>2, <1>3, <1>4, NoMessages, Zenon DEF Sendable, Messages, Types

LEMMA StagedSends ==
  ASSUME NEW c
  PROVE  /\ Sendable(Staged(c, <<"done">>))
         /\ \A i \in DOMAIN Staged(c, <<"done">>) : Staged(c, <<"done">>)[i].type = "done"
         /\ Sendable(Staged(c, <<"start">>))
         /\ Sendable(Staged(c, <<"done", "start", "start">>))
<1> DEFINE d == StageMsg("done")
           s == StageMsg("start")
<1>1. d.type = "done" /\ s.type = "start"
  BY DEF StageMsg
<1>2. ~Reaches(c) => /\ Staged(c, <<"done">>) = <<>> /\ Staged(c, <<"start">>) = <<>>
                     /\ Staged(c, <<"done", "start", "start">>) = <<>>
  BY DEF Staged
<1>3. Reaches(c) => panel # 0
  BY DEF Reaches
<1>4. Reaches(c) => /\ Staged(c, <<"done">>) = <<d>> /\ Staged(c, <<"start">>) = <<s>>
                    /\ Staged(c, <<"done", "start", "start">>) = <<d, s, s>>
  BY DEF Staged
<1> HIDE DEF d, s
<1>5. /\ <<d>> \in Seq({d}) /\ DOMAIN <<d>> = {1} /\ <<d>>[1] = d
      /\ <<s>> \in Seq({s}) /\ DOMAIN <<s>> = {1} /\ <<s>>[1] = s /\ Len(<<s>>) = 1
      /\ <<d, s, s>> \in Seq({d, s}) /\ DOMAIN <<d, s, s>> = {1, 2, 3} /\ Len(<<d, s, s>>) = 3
      /\ <<d, s, s>>[1] = d /\ <<d, s, s>>[2] = s /\ <<d, s, s>>[3] = s
  OBVIOUS
<1>6. DOMAIN <<>> = {}
  OBVIOUS
<1>7. CASE Reaches(c)
  BY <1>1, <1>3, <1>4, <1>5, <1>7, Zenon DEF Sendable, Messages, Types
<1>8. CASE ~Reaches(c)
  BY <1>2, <1>6, <1>8, NoMessages, Zenon DEF Sendable
<1> QED BY <1>7, <1>8

(* The lists that end a session. *)
LEMMA LastSends ==
  ASSUME PanelInv, NEW c, NEW p, NEW a, NEW b, Messages(p), bridge = 0 => p = <<>>,
         a.type \in Types, b.type = "refresh", b.warm \in BOOLEAN
  PROVE  Sendable((p \o Staged(c, <<"done">>)) \o Sent(<<a, b>>))
<1> DEFINE t == Staged(c, <<"done">>)
           q == p \o t
<1>0. panel = 0 => bridge = 0
  BY Zenon DEF PanelInv
<1>1. Sendable(t) /\ \A i \in DOMAIN t : t[i].type = "done"
  BY StagedSends, Zenon
<1> HIDE DEF t
<1>2. Messages(q)
  BY <1>1, MessagesConcat, Zenon DEF Sendable
<1>3. CASE bridge = 0
  <2>1. PICK S : t \in Seq(S)
    BY <1>1 DEF Sendable, Messages
  <2>2. p = <<>> /\ Sent(<<a, b>>) = <<>>
    BY <1>3 DEF Sent
  <2>3. (<<>> \o t) \o <<>> = t
    BY <2>1
  <2> QED BY <1>1, <2>2, <2>3, Zenon DEF t
<1>4. CASE bridge # 0
  <2> HIDE DEF q
  <2>1. Sent(<<a, b>>) = <<a, b>>
    BY <1>4, Zenon DEF Sent
  <2>2. /\ Messages(q \o <<a, b>>) /\ q \o <<a, b>> # <<>>
        /\ (q \o <<a, b>>)[Len(q \o <<a, b>>)] = b
    BY <1>2, EndsIn DEF Types
  <2>3. Sendable(q \o <<a, b>>)
    BY <1>0, <1>4, <2>2, Zenon DEF Sendable
  <2> QED BY <2>1, <2>3 DEF q, t
<1> QED BY <1>3, <1>4, Zenon

(* Sending keeps what was told, or tells something new, or takes it back. *)
LEMMA PostKeeps ==
  ASSUME WireInv, ToldInv, NEW q, Sendable(q), Post(q), view' = view, panel' = panel,
         panel = 0 => tick'.timer = FALSE
  PROVE  WireInv' /\ ToldInv'
<1>0. /\ wire' = wire \o q
      /\ told' = IF q = <<>> THEN told
                 ELSE LET last == q[Len(q)]
                      IN  IF last.type = "refresh" /\ ~last.warm THEN last.total
                          ELSE IF last.type = "done" THEN told ELSE None
  BY DEF Post
<1>1. PICK S : wire \in Seq(S)
  BY DEF WireInv
<1>2. PICK T : q \in Seq(T)
  BY DEF Sendable, Messages
<1>3. wire \in Seq(S \cup T) /\ q \in Seq(S \cup T)
  BY <1>1, <1>2
<1>4. /\ wire' \in Seq(S \cup T) /\ Len(wire') = Len(wire) + Len(q)
      /\ Len(wire) \in Nat /\ Len(q) \in Nat
      /\ DOMAIN wire = 1..Len(wire) /\ DOMAIN wire' = 1..Len(wire') /\ DOMAIN q = 1..Len(q)
      /\ \A i \in DOMAIN wire : wire'[i] = wire[i]
      /\ \A i \in DOMAIN wire' : i \notin DOMAIN wire =>
           i - Len(wire) \in DOMAIN q /\ wire'[i] = q[i - Len(wire)]
      /\ \A i \in DOMAIN q : wire'[Len(wire) + i] = q[i]
  BY <1>0, <1>3
<1>5. Messages(wire')
  BY <1>4, Zenon DEF Sendable, Messages, WireInv
<1>6. panel = 0 => wire' = <<>> /\ told' = None
  <2>1. <<>> \o <<>> = <<>>
    OBVIOUS
  <2> QED BY <1>0, <2>1 DEF Sendable, WireInv
<1>7. WireInv'
  BY <1>5, <1>6 DEF WireInv, Messages
<1>8. CASE q = <<>> \/ \A i \in DOMAIN q : q[i].type = "done"
  <2>1. \A i \in DOMAIN q : q[i].type = "done"
    BY <1>8
  <2>2. told' = told
    BY <1>0, <1>4, <2>1
  <2>3. \A i \in DOMAIN q : KeepsRows(q[i])
    BY <2>1 DEF KeepsRows
  <2>4. ASSUME told' # None PROVE ToldInv'
    <3>1. CASE view.rows = told /\ view.allow = FALSE /\ \A i \in DOMAIN wire : KeepsRows(wire[i])
      <4>1. \A i \in DOMAIN wire' : KeepsRows(wire'[i])
        BY <1>4, <2>3, <3>1, Zenon
      <4> QED BY <2>2, <3>1, <4>1, Zenon DEF ToldInv, KeepsRows
    <3>2. ASSUME NEW i \in DOMAIN wire, wire[i].type = "refresh", wire[i].warm = FALSE,
                 wire[i].total = told, \A k \in (i + 1)..Len(wire) : KeepsRows(wire[k])
          PROVE  ToldInv'
      <4>1. i \in DOMAIN wire' /\ wire'[i] = wire[i]
        BY <1>4
      <4>2. \A k \in (i + 1)..Len(wire') : KeepsRows(wire'[k])
        BY <1>4, <2>3, <3>2
      <4> QED BY <2>2, <3>2, <4>1, <4>2, Zenon DEF ToldInv, KeepsRows
    <3> QED BY <2>2, <2>4, <3>1, <3>2, Zenon DEF ToldInv
  <2> QED BY <1>7, <2>4, Zenon DEF ToldInv
<1>9. CASE /\ q # <<>> /\ q[Len(q)].type # "done"
           /\ q[Len(q)].type = "refresh" => q[Len(q)].warm \in BOOLEAN
  <2> DEFINE last == q[Len(q)]
  <2>1. Len(q) \in DOMAIN q
    BY <1>3, <1>4, <1>9
  <2>2. CASE last.type = "refresh" /\ ~last.warm
    <3>1. told' = last.total /\ last.warm = FALSE
      BY <1>0, <1>9, <2>2, Zenon
    <3>2. Len(wire') \in DOMAIN wire' /\ wire'[Len(wire')] = last
      BY <1>4, <2>1
    <3> HIDE DEF last
    <3>3. \A k \in (Len(wire') + 1)..Len(wire') : KeepsRows(wire'[k])
      BY <1>4
    <3>4. ToldInv'
      BY <2>2, <3>1, <3>2, <3>3, Zenon DEF ToldInv, KeepsRows
    <3> QED BY <1>7, <3>4, Zenon
  <2>3. CASE ~(last.type = "refresh" /\ ~last.warm)
    BY <1>0, <1>7, <1>9, <2>3, Zenon DEF ToldInv
  <2> QED BY <2>2, <2>3, Zenon
<1> QED BY <1>8, <1>9, Zenon DEF Sendable

LEMMA SilentStep ==
  ASSUME WireInv, ToldInv, UNCHANGED <<wire, told, view, panel>>,
         panel = 0 => tick'.timer = FALSE
  PROVE  WireInv' /\ ToldInv'
BY Zenon DEF WireInv, ToldInv, KeepsRows

(* A report of a merge wakes no ticker when there is no panel. *)
LEMMA ReportsKeep ==
  ASSUME WireInv, NEW c, NEW p, OnProgress(c, p) \/ Throttled(c, p) \/ tick' = tick
  PROVE  panel = 0 => tick'.timer = FALSE
BY Zenon DEF WireInv, OnProgress, Throttled, Reaches

LEMMA MergeWire ==
  ASSUME PanelInv, WireInv, ToldInv, NEW c, MergeStep(c)
  PROVE  WireInv' /\ ToldInv'
<1>0. UNCHANGED <<view, panel>>
  BY Zenon DEF MergeStep, Announce, AnnounceUnknown, WarmUp, NoWarmUp, Decide, PreWarm,
     PreWarmed, SkipT1, NoFiles, SortTypes, EmitBatch, MergeThrough, SessionEnds, Keep
<1>1. ASSUME NEW lines, NEW guess, Announce(c, lines, guess) PROVE WireInv' /\ ToldInv'
  BY <1>0, <1>1, ReportsKeep, SilentStep, Zenon DEF Announce
<1>2. ASSUME NEW lines, AnnounceUnknown(c, lines) PROVE WireInv' /\ ToldInv'
  BY <1>0, <1>2, ReportsKeep, SilentStep, Zenon DEF AnnounceUnknown
<1>3. ASSUME NEW w, WarmUp(c, w) PROVE WireInv' /\ ToldInv'
  BY <1>0, <1>3, ReportsKeep, FirstBatchSends, PostKeeps, Zenon DEF WarmUp
<1>4. CASE NoWarmUp(c) \/ NoFiles(c)
  <2>1. UNCHANGED <<tick, wire, told>>
    BY <1>4 DEF NoWarmUp, NoFiles
  <2> QED BY <1>0, <2>1, ReportsKeep, SilentStep, Zenon
<1>5. CASE Decide(c)
  <2>1. panel = 0 => tick'.timer = FALSE
    BY <1>5, ReportsKeep, Zenon DEF Decide, Relay
  <2> QED BY <1>0, <1>5, <2>1, SilentStep, Zenon DEF Decide
<1>6. CASE PreWarm(c)
  BY <1>0, <1>6, ReportsKeep, StagedSends, PostKeeps, Zenon DEF PreWarm
<1>7. CASE PreWarmed(c)
  BY <1>0, <1>7, ReportsKeep, StagedSends, PostKeeps, Zenon DEF PreWarmed
<1>8. CASE SkipT1(c)
  <2> DEFINE total == IF call[c].guess = None THEN call[c].left ELSE call[c].guess
             a == TotalMsg(call[c].done, TRUE)
             b == TotalMsg(total, TRUE)
             t == Staged(c, <<"done">>)
  <2>1. /\ OnProgress(c, Report(total - call[c].done, total, total, FALSE, FALSE))
        /\ Post(t \o Sent(<<a, b>>))
    BY <1>8, Zenon DEF SkipT1
  <2>2. /\ a.type \in Types /\ b.type = "refresh" /\ b.warm \in BOOLEAN
    BY DEF TotalMsg, Types
  <2> HIDE DEF a, b
  <2>3. Sendable((<<>> \o t) \o Sent(<<a, b>>))
    BY <2>2, NoMessages, LastSends, Zenon
  <2>4. <<>> \o t = t
    <3>1. \E S : t \in Seq(S)
      BY StagedSends, Zenon DEF Sendable, Messages
    <3> HIDE DEF t
    <3> QED BY <3>1
  <2>5. panel = 0 => tick'.timer = FALSE
    BY <2>1, ReportsKeep, Zenon
  <2> HIDE DEF t
  <2> QED BY <1>0, <2>1, <2>3, <2>4, <2>5, PostKeeps, Zenon
<1>9. CASE SortTypes(c)
  BY <1>0, <1>9, ReportsKeep, StagedSends, PostKeeps, Zenon DEF SortTypes
<1>10. ASSUME NEW shown \in BOOLEAN, EmitBatch(c, shown) PROVE WireInv' /\ ToldInv'
  <2>1. panel = 0 => tick'.timer = FALSE
    BY <1>10, ReportsKeep, Zenon DEF EmitBatch, Relay
  <2>2. CASE shown
    BY <1>0, <1>10, <2>1, <2>2, FirstBatchSends, PostKeeps, Zenon DEF EmitBatch
  <2>3. CASE ~shown
    BY <1>0, <1>10, <2>1, <2>3, SilentStep, Zenon DEF EmitBatch
  <2> QED BY <2>2, <2>3
<1>11. CASE MergeThrough(c)
  <2>1. panel = 0 => tick'.timer = FALSE
    BY <1>11, ReportsKeep, Zenon DEF MergeThrough
  <2> QED BY <1>0, <1>11, <2>1, StagedSends, PostKeeps, Zenon DEF MergeThrough
<1>12. ASSUME NEW merged, SessionEnds(c, merged) PROVE WireInv' /\ ToldInv'
  <2> DEFINE total == IF call[c].guess = None THEN 0 ELSE call[c].guess
             tail == IF merged > 0 THEN FirstBatch(merged) ELSE <<>>
             a == SavedMsg(total)
             b == TotalMsg(merged, FALSE)
  <2>1. /\ OnProgress(c, Report(0, merged, total, FALSE, FALSE))
        /\ Post((tail \o Staged(c, <<"done">>)) \o Sent(<<a, b>>))
    BY <1>12, Zenon DEF SessionEnds
  <2>2. /\ a.type \in Types /\ b.type = "refresh" /\ b.warm \in BOOLEAN
    BY ZenonT(30) DEF SavedMsg, TotalMsg, Types
  <2>3. Messages(tail) /\ (bridge = 0 => tail = <<>>)
    BY FirstBatchSends, NoMessages DEF Sendable
  <2>4. panel = 0 => tick'.timer = FALSE
    BY <2>1, ReportsKeep, Zenon
  <2> HIDE DEF tail, a, b
  <2>5. Sendable((tail \o Staged(c, <<"done">>)) \o Sent(<<a, b>>))
    BY <2>2, <2>3, LastSends, Zenon
  <2> QED BY <1>0, <2>1, <2>4, <2>5, PostKeeps, Zenon
<1> QED BY <1>1, <1>2, <1>3, <1>4, <1>5, <1>6, <1>7, <1>8, <1>9, <1>10, <1>11, <1>12, Zenon DEF MergeStep

(* The ticker sends a report; the viewer takes a message. *)
LEMMA TickWire ==
  ASSUME WireInv, ToldInv, Tick
  PROVE  WireInv' /\ ToldInv'
<1> DEFINE m == ProgressMsg(tick)
<1>0. m.type = "progress"
  BY DEF ProgressMsg
<1>1. /\ tick.timer /\ wire' = Append(wire, m) /\ UNCHANGED <<view, told, panel>>
  BY DEF Tick
<1> HIDE DEF m
<1>2. PICK S : wire \in Seq(S)
  BY DEF WireInv
<1>3. wire \in Seq(S \cup {m})
  BY <1>2
<1>4. /\ wire' \in Seq(S \cup {m}) /\ Len(wire') = Len(wire) + 1 /\ Len(wire) \in Nat
      /\ DOMAIN wire' = 1..Len(wire') /\ DOMAIN wire = 1..Len(wire)
      /\ \A i \in DOMAIN wire : wire'[i] = wire[i]
      /\ wire'[Len(wire) + 1] = m
  BY <1>1, <1>3
<1>5. panel # 0
  BY <1>1, Zenon DEF WireInv
<1>6. WireInv'
  BY <1>0, <1>1, <1>4, <1>5 DEF WireInv, Types
<1>7. ToldInv'
  BY <1>0, <1>1, <1>4 DEF ToldInv, KeepsRows
<1> QED BY <1>6, <1>7

LEMMA ViewWire ==
  ASSUME Shape, WireInv, ToldInv, ViewerShows
  PROVE  WireInv' /\ ToldInv' /\ view' = [k \in ViewFields |-> view'[k]]
<1> DEFINE m == Head(wire)
<1>1. /\ wire # <<>> /\ view' = Shown(view, m) /\ wire' = Tail(wire)
      /\ UNCHANGED <<told, panel, tick>>
  BY DEF ViewerShows
<1>2. PICK S : wire \in Seq(S)
  BY Zenon DEF WireInv
<1>3. /\ wire' \in Seq(S) /\ Len(wire') = Len(wire) - 1 /\ Len(wire) \in Nat \ {0}
      /\ DOMAIN wire' = 1..Len(wire') /\ DOMAIN wire = 1..Len(wire)
      /\ \A i \in DOMAIN wire' : wire'[i] = wire[i + 1]
      /\ m = wire[1] /\ 1 \in DOMAIN wire
  BY <1>1, <1>2
<1> HIDE DEF m
<1>4. m.type \in Types
  BY <1>3, Zenon DEF WireInv
<1>5. /\ view' = [k \in ViewFields |-> view'[k]]
      /\ KeepsRows(m) /\ view.allow = FALSE => view'.rows = view.rows /\ view'.allow = FALSE
      /\ m.type = "refresh" /\ m.warm = FALSE /\ m.total # None =>
           view'.rows = m.total /\ view'.allow = FALSE
  <2>1. view = [k \in ViewFields |-> view[k]]
    BY DEF Shape
  <2>2. /\ Shown(view, m) = [k \in ViewFields |-> Shown(view, m)[k]]
        /\ KeepsRows(m) /\ view.allow = FALSE =>
             Shown(view, m).rows = view.rows /\ Shown(view, m).allow = FALSE
        /\ m.type = "refresh" /\ m.warm = FALSE /\ m.total # None =>
             Shown(view, m).rows = m.total /\ Shown(view, m).allow = FALSE
    BY <1>4, <2>1, ShownRows, Zenon
  <2> QED BY <1>1, <2>2, Zenon
<1>6. WireInv'
  <2>1. panel # 0
    BY <1>1, Zenon DEF WireInv
  <2>2. \A i \in DOMAIN wire' : wire'[i].type \in Types
    BY <1>3 DEF WireInv
  <2> QED BY <1>1, <1>3, <2>1, <2>2, Zenon DEF WireInv
<1>7. ASSUME told # None PROVE ToldInv'
  <2>1. CASE view.rows = told /\ view.allow = FALSE /\ \A i \in DOMAIN wire : KeepsRows(wire[i])
    <3>1. view'.rows = told' /\ view'.allow = FALSE
      BY <1>1, <1>3, <1>5, <2>1, Zenon
    <3>2. \A i \in DOMAIN wire' : KeepsRows(wire'[i])
      BY <1>3, <2>1
    <3> QED BY <3>1, <3>2, Zenon DEF ToldInv
  <2>2. ASSUME NEW i \in DOMAIN wire, wire[i].type = "refresh", wire[i].warm = FALSE,
               wire[i].total = told, \A k \in (i + 1)..Len(wire) : KeepsRows(wire[k])
        PROVE  ToldInv'
    <3>1. CASE i = 1
      <4>1. view'.rows = told' /\ view'.allow = FALSE
        BY <1>1, <1>3, <1>5, <1>7, <2>2, <3>1, Zenon
      <4>2. \A k \in DOMAIN wire' : KeepsRows(wire'[k])
        BY <1>3, <2>2, <3>1
      <4> QED BY <4>1, <4>2, Zenon DEF ToldInv
    <3>2. CASE i # 1
      <4>1. i - 1 \in DOMAIN wire' /\ wire'[i - 1] = wire[i]
        BY <1>3, <3>2
      <4>2. \A k \in ((i - 1) + 1)..Len(wire') : KeepsRows(wire'[k])
        BY <1>3, <2>2, <3>2
      <4>3. /\ wire'[i - 1].type = "refresh" /\ wire'[i - 1].warm = FALSE
            /\ wire'[i - 1].total = told'
        BY <1>1, <2>2, <4>1
      <4> QED BY <4>1, <4>2, <4>3, Zenon DEF ToldInv
    <3> QED BY <3>1, <3>2
  <2> QED BY <1>7, <2>1, <2>2, Zenon DEF ToldInv
<1> QED BY <1>1, <1>5, <1>6, <1>7, Zenon DEF ToldInv

-----------------------------------------------------------------------------
LEMMA ProgressInvInit == ProgressInit => Shape /\ PanelInv /\ WireInv /\ ToldInv
<1> SUFFICES ASSUME ProgressInit PROVE Shape /\ PanelInv /\ WireInv /\ ToldInv
  OBVIOUS
<1>1. Shape
  BY Zenon DEF ProgressInit, Shape, NoCall, NewView, CallFields, ViewFields
<1>2. \A c \in Calls : call[c].at = "idle"
  BY Zenon DEF ProgressInit, NoCall
<1>3. PanelInv
  BY <1>2, Zenon DEF ProgressInit, PanelInv
<1>4. WireInv /\ ToldInv
  BY NoMessages, Zenon DEF ProgressInit, WireInv, ToldInv, Messages, NewTick
<1> QED BY <1>1, <1>3, <1>4

LEMMA ProgressInvNext ==
  ASSUME Shape, PanelInv, WireInv, ToldInv, [ProgressNext]_progressVars
  PROVE  Shape' /\ PanelInv' /\ WireInv' /\ ToldInv'
<1>0. view = [k \in ViewFields |-> view[k]]
  BY DEF Shape
<1> DEFINE ViewKeeps == view' = [k \in ViewFields |-> view'[k]]
           Goal == ViewKeeps /\ WireInv' /\ ToldInv'
<1>1. UNCHANGED <<wire, told, view, panel, tick>> => Goal
  BY <1>0, SilentStep, Zenon DEF WireInv
<1>2. ASSUME NEW c \in Calls, NEW kind, EnterOpen(c, kind) PROVE Goal
  BY <1>1, <1>2, Zenon DEF EnterOpen
<1>3. ASSUME NEW c \in Calls, NEW kind, CreatePanel(c, kind) PROVE Goal
  <2>1. /\ panel = 0 /\ view' = NewView /\ UNCHANGED <<tick, wire, told>>
    BY <1>3, Zenon DEF CreatePanel
  <2>2. ViewKeeps
    BY <2>1, Zenon DEF NewView, ViewFields
  <2>3. told' = None /\ wire' = <<>> /\ tick'.timer = FALSE
    BY <2>1 DEF WireInv
  <2> QED BY <2>2, <2>3, NoMessages DEF WireInv, ToldInv, Messages
<1>4. ASSUME NEW c \in Calls, PanelStep(c) \/ SessionFails(c) \/ BatchFails(c) PROVE Goal
  BY <1>1, <1>4, Zenon DEF PanelStep, PageLoaded, PageOfClosed, ReadConfig, SessionFails, BatchFails, Keep
<1>5. ASSUME NEW c \in Calls, MergeStep(c) PROVE Goal
  <2>1. view' = view
    BY <1>5, Zenon DEF MergeStep, Announce, AnnounceUnknown, WarmUp, NoWarmUp, Decide, PreWarm,
       PreWarmed, SkipT1, NoFiles, SortTypes, EmitBatch, MergeThrough, SessionEnds, Keep
  <2> QED BY <1>0, <1>5, <2>1, MergeWire
<1>6. ASSUME NEW c \in Calls, BatchStored(c) PROVE Goal
  <2>1. UNCHANGED <<wire, told, view, panel>>
    BY <1>6 DEF BatchStored, Keep
  <2>2. panel = 0 => tick'.timer = FALSE
    BY <1>6, ReportsKeep, Zenon DEF BatchStored
  <2> QED BY <1>0, <2>1, <2>2, SilentStep, Zenon
<1>7. ASSUME ClosePanel PROVE Goal
  <2>1. view' = NewView /\ told' = None /\ wire' = <<>> /\ tick' = NewTick
    BY <1>7, Zenon DEF ClosePanel
  <2>2. ViewKeeps /\ tick'.timer = FALSE
    BY <2>1 DEF NewView, ViewFields, NewTick
  <2> QED BY <2>1, <2>2, NoMessages DEF WireInv, ToldInv, Messages
<1>8. ASSUME Tick PROVE Goal
  BY <1>0, <1>8, TickWire DEF Tick
<1>9. ASSUME ViewerShows PROVE Goal
  BY <1>9, ViewWire, Zenon
<1>10. ASSUME UNCHANGED progressVars PROVE Goal
  BY <1>1, <1>10, Zenon DEF progressVars
<1>11. Goal
  BY <1>2, <1>3, <1>4, <1>5, <1>6, <1>7, <1>8, <1>9, <1>10, Zenon DEF ProgressNext, Start
<1> QED BY <1>11, PanelNext, Zenon DEF Shape

(* However opening, closing and reopening the viewer interleave with the   *)
(* loading of its page (LogViewerPanelManager), one bridge at most listens *)
(* on a panel, and the manager never holds the bridge of a closed panel.   *)
THEOREM OneBridge == ProgressSpec => []OneBridgePerPanel
<1>1. PanelInv => OneBridgePerPanel
  BY DEF PanelInv, OneBridgePerPanel
<1>2. Shape /\ PanelInv /\ WireInv /\ ToldInv /\ [ProgressNext]_progressVars
        => Shape' /\ PanelInv' /\ WireInv' /\ ToldInv'
  BY ProgressInvNext
<1> QED BY <1>1, <1>2, ProgressInvInit, PTL DEF ProgressSpec

(* A report that the ticker held back and sent after a refresh never       *)
(* changes the refreshed total of the rows, however many merges report,    *)
(* and whatever they estimate.                                             *)
THEOREM RefreshedTotalStays == ProgressSpec => []RefreshedTotalKept
<1>1. ToldInv => RefreshedTotalKept
  <2> SUFFICES ASSUME ToldInv, told # None, wire = <<>> PROVE view.rows = told
    BY DEF RefreshedTotalKept
  <2>1. DOMAIN wire = {}
    OBVIOUS
  <2> QED BY <2>1 DEF ToldInv
<1>2. Shape /\ PanelInv /\ WireInv /\ ToldInv /\ [ProgressNext]_progressVars
        => Shape' /\ PanelInv' /\ WireInv' /\ ToldInv'
  BY ProgressInvNext
<1> QED BY <1>1, <1>2, ProgressInvInit, PTL DEF ProgressSpec

=============================================================================
