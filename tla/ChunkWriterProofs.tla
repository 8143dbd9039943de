-------------------------- MODULE ChunkWriterProofs --------------------------
(***************************************************************************)
(* Proofs about the chunk writer, for any number of callers, any chunk     *)
(* size and any directory content.                                         *)
(***************************************************************************)
EXTENDS ChunkWriter, TLAPS

USE SMTT(30), Zenon   \* of every step that names no prover: SMT with 30 s, then Zenon

(* Calls push lines of the stream that were handed out to them. *)
Bounds ==
  \A c \in Callers : pos[c] >= 1 /\ pos[c] <= end[c] + 1 /\ end[c] <= emitted

Awaiting == {"flushing", "remainder"}

(* The callers of ch are distinct, and they are the ones p lets await. *)
Matches(ch, p) ==
  /\ \A i, j \in 1..Len(ch) : ch[i] = ch[j] => i = j
  /\ \A c \in Callers : p[c] \in Awaiting <=> \E i \in 1..Len(ch) : ch[i] = c

(* The chain holds exactly the callers that await a flush, each once; a    *)
(* flush runs for the head, and holds lines only once it has its snapshot. *)
ChainInv ==
  /\ Matches(chain, pc)
  /\ run.stage # "idle" => chain # <<>>
  /\ run.stage \in {"idle", "readdir"} => run.buf = <<>>

(* writtenThisChunk is the length of the buffer. *)
CountInv == writtenThisChunk = Len(currentBuffer)

(* Only parts of earlier sessions have numbers above the index, and none   *)
(* has once the directory has been read.                                   *)
IndexInv ==
  /\ run.stage \in {"write", "rename"} => fsIndexInitialized
  /\ fsIndexInitialized /\ ~blind => \A n \in DOMAIN parts : n <= currentIndex
  /\ \A n \in DOMAIN parts : n <= currentIndex \/ IsOld(n)

ChunkInv == ChunkTypeOK /\ Bounds /\ ChainInv /\ CountInv /\ IndexInv

(* The lines a..b of the stream, as a sequence. *)
LEMMA IntervalType ==
  ASSUME NEW a \in Nat, NEW b \in Nat, b <= NumLines, a <= b + 1
  PROVE  /\ Interval(a, b) \in Seq(Line)
         /\ Len(Interval(a, b)) = b - a + 1
         /\ \A i \in 1..(b - a + 1) : Interval(a, b)[i] = a + i - 1
<1>1. b - a + 1 \in Nat
  OBVIOUS
<1>2. \A i \in 1..(b - a + 1) : a + i - 1 \in Line
  BY ChunkWriterAssumption DEF Line
<1> QED BY <1>1, <1>2 DEF Interval

(* The invariant holds when the writer is constructed. *)
LEMMA InitInv == ChunkInit => ChunkInv
<1> SUFFICES ASSUME ChunkInit PROVE ChunkInv
  OBVIOUS
<1> USE ChunkWriterAssumption DEF ChunkInit
<1>1. ChunkTypeOK
  <2>1. run \in [stage : Stages, buf : Seq(Line), attempt : Nat]
    BY DEF IdleRun, Stages
  <2>2. /\ pc \in [Callers -> CallStates]
        /\ pos \in [Callers -> Nat]
        /\ end \in [Callers -> Nat]
        /\ results \in [Callers -> Seq(Part)]
    BY DEF CallStates
  <2>3. DOMAIN parts \subseteq Nat \ {0} /\ \A n \in DOMAIN parts : parts[n] \in Seq(Line)
    BY DEF OldPart, OldLine, Line
  <2>4. /\ currentIndex \in Nat
        /\ currentBuffer \in Seq(Line)
        /\ chain \in Seq(Callers)
        /\ emitted \in 0..NumLines
    OBVIOUS
  <2> QED BY <2>1, <2>2, <2>3, <2>4, Zenon DEF ChunkTypeOK
<1>2. Bounds
  <2> SUFFICES ASSUME NEW c \in Callers
               PROVE  pos[c] >= 1 /\ pos[c] <= end[c] + 1 /\ end[c] <= emitted
    BY Zenon DEF Bounds
  <2> QED OBVIOUS
<1>3. ChainInv
  BY DEF ChainInv, Matches, Awaiting, IdleRun
<1>4. CountInv /\ IndexInv
  BY DEF CountInv, IndexInv, IdleRun, IsOld
<1> QED BY <1>1, <1>2, <1>3, <1>4 DEF ChunkInv

(* A caller that awaits nothing joins the chain. *)
LEMMA MatchesAppend ==
  ASSUME NEW ch \in Seq(Callers), NEW p \in [Callers -> CallStates], Matches(ch, p),
         NEW c \in Callers, p[c] \notin Awaiting, NEW s \in Awaiting
  PROVE  Matches(Append(ch, c), [p EXCEPT ![c] = s])
<1> DEFINE ch2 == Append(ch, c)
<1>1. /\ ch2 \in Seq(Callers) /\ Len(ch2) = Len(ch) + 1
      /\ \A i \in 1..Len(ch) : ch2[i] = ch[i]
      /\ ch2[Len(ch) + 1] = c
  OBVIOUS
<1>2. \A i \in 1..Len(ch) : ch[i] \in Callers /\ ch[i] # c
  BY DEF Matches
<1> HIDE DEF ch2
<1>3. \A i, j \in 1..Len(ch2) : ch2[i] = ch2[j] => i = j
  BY <1>1, <1>2 DEF Matches
<1>4. ASSUME NEW d \in Callers
      PROVE  [p EXCEPT ![c] = s][d] \in Awaiting <=> \E i \in 1..Len(ch2) : ch2[i] = d
  <2>1. CASE d = c
    BY <1>1, <2>1
  <2>2. CASE d # c
    <3>1. [p EXCEPT ![c] = s][d] = p[d]
      BY <2>2
    <3>2. (\E i \in 1..Len(ch2) : ch2[i] = d) <=> \E i \in 1..Len(ch) : ch[i] = d
      BY <1>1, <2>2
    <3> QED BY <3>1, <3>2 DEF Matches
  <2> QED BY <2>1, <2>2
<1> QED BY <1>3, <1>4 DEF Matches, ch2

(* The head of the chain leaves it. *)
LEMMA MatchesTail ==
  ASSUME NEW ch \in Seq(Callers), ch # <<>>, NEW p \in [Callers -> CallStates],
         Matches(ch, p), NEW s \in CallStates \ Awaiting
  PROVE  /\ Head(ch) \in Callers /\ p[Head(ch)] \in Awaiting
         /\ Matches(Tail(ch), [p EXCEPT ![Head(ch)] = s])
<1> DEFINE ch2 == Tail(ch)
           c   == Head(ch)
<1>1. /\ ch2 \in Seq(Callers) /\ Len(ch) \in Nat /\ Len(ch) >= 1 /\ Len(ch2) = Len(ch) - 1
      /\ \A i \in 1..Len(ch2) : ch2[i] = ch[i + 1]
      /\ c = ch[1] /\ c \in Callers
  OBVIOUS
<1>2. p[c] \in Awaiting
  BY <1>1 DEF Matches
<1> HIDE DEF ch2, c
<1>3. \A i, j \in 1..Len(ch2) : ch2[i] = ch2[j] => i = j
  <2> SUFFICES ASSUME NEW i \in 1..Len(ch2), NEW j \in 1..Len(ch2), ch2[i] = ch2[j]
               PROVE  i = j
    OBVIOUS
  <2>1. i + 1 \in 1..Len(ch) /\ j + 1 \in 1..Len(ch)
    BY <1>1
  <2> QED BY <1>1, <2>1 DEF Matches
<1>4. ASSUME NEW d \in Callers
      PROVE  [p EXCEPT ![c] = s][d] \in Awaiting <=> \E i \in 1..Len(ch2) : ch2[i] = d
  <2>1. CASE d = c
    <3>1. \A i \in 1..Len(ch2) : ch2[i] # c
      <4> SUFFICES ASSUME NEW i \in 1..Len(ch2), ch2[i] = c PROVE FALSE
        OBVIOUS
      <4>1. i + 1 \in 1..Len(ch) /\ 1 \in 1..Len(ch) /\ ch[i + 1] = ch[1]
        BY <1>1
      <4>2. i + 1 = 1
        BY <4>1 DEF Matches
      <4> QED BY <4>2, <1>1
    <3>2. [p EXCEPT ![c] = s][d] = s
      BY <2>1, <1>1
    <3> QED BY <3>1, <3>2, <2>1
  <2>2. CASE d # c
    <3>1. [p EXCEPT ![c] = s][d] = p[d]
      BY <2>2
    <3>2. ASSUME NEW i \in 1..Len(ch), ch[i] = d
          PROVE  \E j \in 1..Len(ch2) : ch2[j] = d
      <4>1. i - 1 \in 1..Len(ch2) /\ ch2[i - 1] = d
        BY <1>1, <2>2, <3>2
      <4> QED BY <4>1
    <3>3. ASSUME NEW j \in 1..Len(ch2), ch2[j] = d
          PROVE  \E i \in 1..Len(ch) : ch[i] = d
      <4>1. j + 1 \in 1..Len(ch) /\ ch[j + 1] = d
        BY <1>1, <3>3
      <4> QED BY <4>1
    <3> QED BY <3>1, <3>2, <3>3 DEF Matches
  <2> QED BY <2>1, <2>2
<1> QED BY <1>1, <1>2, <1>3, <1>4 DEF Matches, ch2, c

(* A stretch of appendBatch's loop moves the first n of its lines to the   *)
(* end of the buffer, and either all of them are pushed or the chunk is    *)
(* full and the caller queues a flush.                                     *)
Pushed(c, first, last, n) ==
  /\ n <= last - first + 1
  /\ currentBuffer' = currentBuffer \o Interval(first, first + n - 1)
  /\ writtenThisChunk' = writtenThisChunk + n
  /\ pos' = [pos EXCEPT ![c] = first + n]
  /\ end' = [end EXCEPT ![c] = last]
  /\ \/ /\ pc' = [pc EXCEPT ![c] = "returned"] /\ chain' = chain
        /\ n = last - first + 1
        /\ writtenThisChunk' < ChunkMaxLines \/ n = 0
     \/ /\ pc' = [pc EXCEPT ![c] = "flushing"] /\ chain' = Append(chain, c)
        /\ writtenThisChunk' <= ChunkMaxLines \/ n = 1

LEMMA PushFacts ==
  ASSUME ChunkInv, NEW c \in Callers, NEW first \in Nat, NEW last \in Nat,
         first >= 1, first <= last + 1, last <= NumLines, PushLines(c, first, last)
  PROVE  \E n \in Nat : Pushed(c, first, last, n)
<1>1. writtenThisChunk \in Nat /\ ChunkMaxLines \in Nat /\ ChunkMaxLines >= 1
  BY ChunkWriterAssumption DEF ChunkInv, ChunkTypeOK
<1>2. /\ Room \in Nat /\ Room >= 1
      /\ writtenThisChunk < ChunkMaxLines => writtenThisChunk + Room = ChunkMaxLines
      /\ writtenThisChunk >= ChunkMaxLines => Room = 1
  BY <1>1 DEF Room
<1>3. CASE last - first + 1 < Room
  <2>1. last - first + 1 \in Nat
    OBVIOUS
  <2> WITNESS last - first + 1 \in Nat
  <2> QED BY <1>1, <1>2, <1>3 DEF PushLines, Pushed
<1>4. CASE ~(last - first + 1 < Room)
  <2> Room \in Nat
    BY <1>2
  <2> WITNESS Room \in Nat
  <2> QED BY <1>1, <1>2, <1>4 DEF PushLines, Pushed
<1> QED BY <1>3, <1>4

(* The buffer after such a stretch, line by line. *)
LEMMA BufferFacts ==
  ASSUME NEW b \in Seq(Line), NEW first \in Nat, NEW n \in Nat, first >= 1,
         first + n - 1 <= NumLines
  PROVE  LET b2 == b \o Interval(first, first + n - 1) IN
           /\ b2 \in Seq(Line)
           /\ Len(b2) = Len(b) + n
           /\ \A i \in 1..Len(b) : b2[i] = b[i]
           /\ \A i \in (Len(b) + 1)..(Len(b) + n) : b2[i] = first + (i - Len(b)) - 1
<1> DEFINE t == Interval(first, first + n - 1)
<1>1. t \in Seq(Line) /\ Len(t) = n /\ \A i \in 1..n : t[i] = first + i - 1
  <2>1. first + n - 1 \in Nat /\ first <= (first + n - 1) + 1
    OBVIOUS
  <2>2. (first + n - 1) - first + 1 = n
    OBVIOUS
  <2> QED BY <2>1, <2>2, IntervalType, Zenon
<1> HIDE DEF t
<1>2. b \o t \in Seq(Line) /\ Len(b \o t) = Len(b) + n
  BY <1>1
<1>3. \A i \in 1..Len(b) : (b \o t)[i] = b[i]
  BY <1>1
<1>4. \A i \in (Len(b) + 1)..(Len(b) + n) : (b \o t)[i] = first + (i - Len(b)) - 1
  BY <1>1
<1> QED BY <1>2, <1>3, <1>4 DEF t

(* A stretch of appendBatch's loop preserves the invariant. *)
LEMMA PushInv ==
  ASSUME ChunkInv, NEW c \in Callers, NEW first \in Nat, NEW last \in Nat,
         first >= 1, first <= last + 1, last <= NumLines, PushLines(c, first, last),
         pc[c] \notin Awaiting,
         emitted' \in 0..NumLines, emitted' >= emitted, last <= emitted',
         results' \in [Callers -> Seq(Part)],
         UNCHANGED <<currentIndex, fsIndexInitialized, run, parts, lost, faults, blind>>
  PROVE  ChunkInv'
<1> USE DEF ChunkInv
<1>0. PICK n \in Nat : Pushed(c, first, last, n)
  BY PushFacts
<1>1. /\ n <= last - first + 1
      /\ currentBuffer' = currentBuffer \o Interval(first, first + n - 1)
      /\ writtenThisChunk' = writtenThisChunk + n
      /\ pos' = [pos EXCEPT ![c] = first + n]
      /\ end' = [end EXCEPT ![c] = last]
      /\ \/ pc' = [pc EXCEPT ![c] = "returned"] /\ chain' = chain
         \/ pc' = [pc EXCEPT ![c] = "flushing"] /\ chain' = Append(chain, c)
  BY <1>0, Zenon DEF Pushed
<1>2. /\ currentBuffer' \in Seq(Line)
      /\ Len(currentBuffer') = Len(currentBuffer) + n
  <2>1. currentBuffer \in Seq(Line) /\ first + n - 1 <= NumLines
    BY <1>1, ChunkWriterAssumption DEF ChunkTypeOK
  <2> QED BY <1>1, <2>1, BufferFacts, Zenon
<1>3. ChunkTypeOK'
  <2>1. pos' \in [Callers -> Nat] /\ end' \in [Callers -> Nat]
    BY <1>1 DEF ChunkTypeOK
  <2>2. pc' \in [Callers -> CallStates]
    BY <1>1, Zenon DEF ChunkTypeOK, CallStates
  <2>4. chain' \in Seq(Callers)
    <3>1. chain \in Seq(Callers)
      BY DEF ChunkTypeOK
    <3>2. chain' = chain \/ chain' = Append(chain, c)
      BY <1>1
    <3> QED BY ONLY <3>1, <3>2, c \in Callers
  <2>3. writtenThisChunk' \in Nat
    BY <1>1 DEF ChunkTypeOK
  <2> QED BY <1>2, <2>1, <2>2, <2>3, <2>4, Zenon DEF ChunkTypeOK
<1>4. Bounds'
  <2> SUFFICES ASSUME NEW d \in Callers
               PROVE  pos'[d] >= 1 /\ pos'[d] <= end'[d] + 1 /\ end'[d] <= emitted'
    BY DEF Bounds
  <2>1. /\ pos[d] \in Nat /\ end[d] \in Nat /\ emitted \in Nat /\ emitted' \in Nat
        /\ pos[d] >= 1 /\ pos[d] <= end[d] + 1 /\ end[d] <= emitted
    BY ChunkWriterAssumption DEF ChunkTypeOK, Bounds
  <2>2. CASE d = c
    <3>1. pos'[d] = first + n /\ end'[d] = last
      BY <1>1, <2>2 DEF ChunkTypeOK
    <3> QED BY <1>1, <3>1
  <2>3. CASE d # c
    <3>1. pos'[d] = pos[d] /\ end'[d] = end[d]
      BY <1>1, <2>3 DEF ChunkTypeOK
    <3> QED BY <2>1, <3>1
  <2> QED BY <2>2, <2>3
<1>5. ChainInv'
  <2>1. Matches(chain', pc')
    <3>1. CASE pc' = [pc EXCEPT ![c] = "returned"] /\ chain' = chain
      BY <3>1, ZenonT(40) DEF ChainInv, Matches, Awaiting, ChunkTypeOK
    <3>2. CASE pc' = [pc EXCEPT ![c] = "flushing"] /\ chain' = Append(chain, c)
      <4>1. "flushing" \in Awaiting
        BY DEF Awaiting
      <4> QED BY <3>2, <4>1, MatchesAppend, Zenon DEF ChainInv, ChunkTypeOK
    <3> QED BY <1>1, <3>1, <3>2, Zenon
  <2>2. chain # <<>> => chain' # <<>>
    BY <1>1 DEF ChunkTypeOK
  <2> QED BY <2>1, <2>2 DEF ChainInv
<1>6. CountInv'
  BY <1>1, <1>2 DEF CountInv, ChunkTypeOK
<1>7. IndexInv'
  BY DEF IndexInv, IsOld
<1> QED BY <1>3, <1>4, <1>5, <1>6, <1>7

(* A flush that ends hands its caller a result and leaves the chain. *)
LEMMA ResolveFacts ==
  ASSUME ChunkInv, chain # <<>>, NEW p \in Part, Resolve(p)
  PROVE  /\ chain' \in Seq(Callers)
         /\ pc' \in [Callers -> CallStates]
         /\ results' \in [Callers -> Seq(Part)]
         /\ Matches(chain', pc')
         /\ run' = IdleRun
         /\ UNCHANGED <<pos, end>>
<1> DEFINE c == Head(chain)
<1>1. chain \in Seq(Callers) /\ pc \in [Callers -> CallStates] /\ Matches(chain, pc)
  BY DEF ChunkInv, ChunkTypeOK, ChainInv
<1>2. c \in Callers
  BY <1>1
<1>3. chain' = Tail(chain) /\ chain' \in Seq(Callers)
  BY <1>1 DEF Resolve
<1>4. PICK s \in {"resume", "returned"} : pc' = [pc EXCEPT ![c] = s]
  BY DEF Resolve
<1>5. s \in CallStates \ Awaiting
  BY DEF CallStates, Awaiting
<1>6. results' \in [Callers -> Seq(Part)]
  <2>1. results \in [Callers -> Seq(Part)] /\ results[c] \in Seq(Part)
    BY <1>2 DEF ChunkInv, ChunkTypeOK
  <2>2. Append(results[c], p) \in Seq(Part)
    BY <2>1
  <2>3. \/ results' = results
        \/ results' = [results EXCEPT ![c] = Append(results[c], p)]
    BY <2>1, Zenon DEF Resolve
  <2> QED BY <2>1, <2>2, <2>3, Zenon
<1>7. pc' \in [Callers -> CallStates]
  BY <1>1, <1>4, <1>5
<1>8. Matches(chain', pc')
  BY <1>1, <1>3, <1>4, <1>5, MatchesTail, Zenon
<1> QED BY <1>3, <1>6, <1>7, <1>8 DEF Resolve

(* The type of the lines of a sequence. *)
LEMMA ElementsType ==
  ASSUME NEW b \in Seq(Line)
  PROVE  Elements(b) \subseteq Line
BY DEF Elements

(* The snapshot of the buffer preserves the invariant. *)
LEMMA SnapshotInv ==
  ASSUME ChunkInv, chain # <<>>, run.buf = <<>>, Snapshot, fsIndexInitialized',
         currentIndex' \in Nat, currentIndex' >= currentIndex, faults' \in Nat,
         blind' \in BOOLEAN, ~blind' => \A n \in DOMAIN parts : n <= currentIndex'
  PROVE  ChunkInv'
<1> USE DEF ChunkInv
<1>1. UNCHANGED <<parts, emitted, lost, pos, end>>
  BY DEF Snapshot, Resolve, callVars
<1>2. currentBuffer' = <<>> /\ writtenThisChunk' = 0
  BY DEF Snapshot
<1>3. /\ chain' \in Seq(Callers)
      /\ pc' \in [Callers -> CallStates]
      /\ results' \in [Callers -> Seq(Part)]
      /\ run' \in [stage : Stages, buf : Seq(Line), attempt : Nat]
      /\ ChainInv'
  <2>1. CASE currentBuffer = <<>> /\ Resolve(EmptyPart)
    <3>1. EmptyPart \in Part
      BY DEF EmptyPart, Part
    <3>2. /\ chain' \in Seq(Callers)
          /\ pc' \in [Callers -> CallStates]
          /\ results' \in [Callers -> Seq(Part)]
          /\ Matches(chain', pc')
          /\ run' = IdleRun
      BY <2>1, <3>1, ResolveFacts
    <3> QED BY <3>2 DEF ChainInv, IdleRun, Stages
  <2>2. CASE /\ run' = [stage |-> "write", buf |-> currentBuffer, attempt |-> 0]
             /\ UNCHANGED <<chain, callVars>>
    BY <2>2, ZenonT(30) DEF ChainInv, ChunkTypeOK, callVars, Stages
  <2> QED BY <2>1, <2>2 DEF Snapshot
<1>4. ChunkTypeOK'
  BY <1>1, <1>2, <1>3, Zenon DEF ChunkTypeOK
<1>5. Bounds'
  BY <1>1 DEF Bounds
<1>6. CountInv'
  BY <1>2 DEF CountInv
<1>7. IndexInv'
  <2>1. \A n \in DOMAIN parts : n \in Nat /\ (n <= currentIndex \/ IsOld(n))
    BY DEF IndexInv, ChunkTypeOK
  <2>2. \A n \in DOMAIN parts : n <= currentIndex' \/ IsOld(n)
    BY <2>1 DEF ChunkTypeOK
  <2>3. \A n \in DOMAIN parts' : n <= currentIndex' \/ IsOld(n)'
    BY <1>1, <2>2 DEF IsOld
  <2> QED BY <1>1, <2>3 DEF IndexInv
<1> QED BY <1>3, <1>4, <1>5, <1>6, <1>7

(* Every step of the writer and of its callers preserves the invariant. *)
LEMMA NextInv == ChunkInv /\ [ChunkNext]_chunkVars => ChunkInv'
<1> SUFFICES ASSUME ChunkInv, [ChunkNext]_chunkVars PROVE ChunkInv'
  OBVIOUS
<1> USE DEF ChunkInv
<1>1. ASSUME NEW c \in Callers, NEW n \in 1..MaxBatch, emitted + n <= NumLines,
             AppendBatch(c, n)
      PROVE  ChunkInv'
  <2>1. emitted \in Nat /\ n \in Nat /\ n >= 1
    BY ChunkWriterAssumption DEF ChunkTypeOK
  <2>2. PushLines(c, emitted + 1, emitted + n) /\ emitted' = emitted + n
    BY <1>1 DEF AppendBatch
  <2>3. pc[c] \notin Awaiting
    BY <1>1 DEF AppendBatch, Awaiting
  <2>4. results' \in [Callers -> Seq(Part)]
    BY <1>1 DEF AppendBatch, ChunkTypeOK
  <2>5. UNCHANGED <<currentIndex, fsIndexInitialized, run, parts, lost, faults, blind>>
    BY <1>1 DEF AppendBatch
  <2>6. emitted' \in 0..NumLines /\ emitted' >= emitted /\ emitted + n <= emitted'
    BY <1>1, <2>1, <2>2, ChunkWriterAssumption
  <2>7. /\ emitted + 1 \in Nat /\ emitted + n \in Nat /\ emitted + 1 >= 1
        /\ emitted + 1 <= emitted + n + 1
    BY <2>1
  <2> QED BY <1>1, <2>2, <2>3, <2>4, <2>5, <2>6, <2>7, PushInv
<1>2. ASSUME NEW c \in Callers, ResumeBatch(c) PROVE ChunkInv'
  <2>1. PushLines(c, pos[c], end[c])
    BY <1>2 DEF ResumeBatch
  <2>2. /\ pos[c] \in Nat /\ end[c] \in Nat /\ emitted \in 0..NumLines
        /\ pos[c] >= 1 /\ pos[c] <= end[c] + 1 /\ end[c] <= emitted
    BY DEF ChunkTypeOK, Bounds
  <2>3. pc[c] \notin Awaiting
    BY <1>2 DEF ResumeBatch, Awaiting
  <2>4. UNCHANGED <<currentIndex, fsIndexInitialized, run, results,
                    parts, emitted, lost, faults, blind>>
    BY <1>2 DEF ResumeBatch, diskVars
  <2>5. end[c] <= NumLines /\ emitted' \in 0..NumLines /\ emitted' >= emitted /\ end[c] <= emitted'
    BY <2>2, <2>4, ChunkWriterAssumption
  <2>6. results' \in [Callers -> Seq(Part)]
    BY <2>4 DEF ChunkTypeOK
  <2> QED BY <2>1, <2>2, <2>3, <2>4, <2>5, <2>6, PushInv
<1>3. ASSUME NEW c \in Callers, FlushRemainder(c) PROVE ChunkInv'
  <2>1. UNCHANGED <<currentIndex, currentBuffer, writtenThisChunk, fsIndexInitialized,
                    run, pos, end, parts, emitted, lost, faults, blind>>
    BY <1>3 DEF FlushRemainder, diskVars
  <2>2. chain \in Seq(Callers) /\ pc \in [Callers -> CallStates] /\ Matches(chain, pc)
    BY DEF ChunkTypeOK, ChainInv
  <2>3. /\ pc' \in [Callers -> CallStates] /\ chain' \in Seq(Callers)
        /\ Matches(chain', pc') /\ (chain # <<>> => chain' # <<>>)
    <3>1. CASE pc' = [pc EXCEPT ![c] = "returned"] /\ chain' = chain
      BY <1>3, <2>2, <3>1 DEF Matches, Awaiting, CallStates, FlushRemainder
    <3>2. CASE pc' = [pc EXCEPT ![c] = "remainder"] /\ chain' = Append(chain, c)
      <4>1. "remainder" \in Awaiting /\ "remainder" \in CallStates /\ pc[c] \notin Awaiting
        BY <1>3 DEF Awaiting, CallStates, FlushRemainder
      <4>2. Matches(chain', pc')
        BY <2>2, <3>2, <4>1, MatchesAppend, Zenon
      <4>3. chain' \in Seq(Callers) /\ chain' # <<>>
        BY <2>2, <3>2
      <4> QED BY <2>2, <3>2, <4>1, <4>2, <4>3
    <3> QED BY <1>3, <3>1, <3>2 DEF FlushRemainder
  <2>4. results' \in [Callers -> Seq(Part)]
    BY <1>3 DEF FlushRemainder, ChunkTypeOK
  <2>5. ChunkTypeOK'
    BY <2>1, <2>3, <2>4, Zenon DEF ChunkTypeOK
  <2> QED BY <2>1, <2>3, <2>5 DEF Bounds, ChainInv, CountInv, IndexInv, IsOld
<1>4. ASSUME NEW c \in Callers, Collect(c) PROVE ChunkInv'
  <2>1. /\ pc' = [pc EXCEPT ![c] = "idle"] /\ pc[c] \notin Awaiting
        /\ UNCHANGED <<currentIndex, currentBuffer, writtenThisChunk, fsIndexInitialized,
                       chain, run, pos, end, results, parts, emitted, lost, faults, blind>>
    BY <1>4 DEF Collect, Awaiting, writerVars, diskVars
  <2>2. pc' \in [Callers -> CallStates] /\ Matches(chain', pc')
    BY <2>1, ZenonT(40) DEF ChunkTypeOK, ChainInv, Matches, Awaiting, CallStates
  <2>3. ChunkTypeOK'
    BY <2>1, <2>2 DEF ChunkTypeOK
  <2> QED BY <2>1, <2>2, <2>3 DEF Bounds, ChainInv, CountInv, IndexInv, IsOld
<1>5. CASE FlushStart
  <2>1. CASE /\ run' = [run EXCEPT !.stage = "readdir"]
             /\ UNCHANGED <<currentIndex, currentBuffer, writtenThisChunk,
                            fsIndexInitialized, chain, callVars, diskVars>>
    <3>1. UNCHANGED <<pc, pos, end, results, parts, emitted, lost, faults, blind>>
      BY <2>1 DEF callVars, diskVars
    <3>2. /\ run' \in [stage : Stages, buf : Seq(Line), attempt : Nat]
          /\ run'.stage = "readdir" /\ run'.buf = <<>> /\ chain # <<>>
      BY <1>5, <2>1, Zenon DEF ChunkTypeOK, Stages, ChainInv, FlushStart
    <3>3. ChunkTypeOK'
      BY <2>1, <3>1, <3>2, Zenon DEF ChunkTypeOK
    <3> QED BY <2>1, <3>1, <3>2, <3>3 DEF Bounds, ChainInv, CountInv, IndexInv, IsOld
  <2>2. CASE /\ fsIndexInitialized /\ Snapshot
             /\ UNCHANGED <<currentIndex, fsIndexInitialized, faults, blind>>
    <3>1. run.buf = <<>> /\ chain # <<>>
      BY <1>5 DEF FlushStart, ChainInv
    <3>2. /\ currentIndex' \in Nat /\ currentIndex' >= currentIndex /\ faults' \in Nat
          /\ blind' \in BOOLEAN /\ (~blind' => \A n \in DOMAIN parts : n <= currentIndex')
      BY <2>2 DEF ChunkTypeOK, IndexInv
    <3> QED BY <2>2, <3>1, <3>2, SnapshotInv
  <2> QED BY <1>5, <2>1, <2>2 DEF FlushStart
<1>6. CASE FlushReadDir \/ FlushReadDirFails
  <2>1. run.buf = <<>> /\ chain # <<>> /\ Snapshot /\ fsIndexInitialized'
    BY <1>6 DEF FlushReadDir, FlushReadDirFails, ChainInv
  <2>2. /\ currentIndex' \in Nat /\ currentIndex' >= currentIndex /\ faults' \in Nat
        /\ blind' \in BOOLEAN /\ (~blind' => \A n \in DOMAIN parts : n <= currentIndex')
    <3>1. CASE FlushReadDir
      BY <3>1 DEF FlushReadDir, ChunkTypeOK
    <3>2. CASE FlushReadDirFails
      BY <3>2 DEF FlushReadDirFails, Fault, ChunkTypeOK
    <3> QED BY <1>6, <3>1, <3>2
  <2> QED BY <2>1, <2>2, SnapshotInv
<1>7. CASE FlushWriteTmp \/ FlushRenameBusy \/ FlushRenameNoEnt
  <2>1. /\ UNCHANGED <<currentBuffer, writtenThisChunk, fsIndexInitialized, chain,
                       pc, pos, end, results, parts, emitted, lost, blind>>
        /\ run.stage \in {"write", "rename"}
    BY <1>7 DEF FlushWriteTmp, FlushRenameBusy, FlushRenameNoEnt, callVars, diskVars
  <2>5. /\ run'.stage = "rename" /\ run'.buf = run.buf
        /\ run' \in [stage : Stages, buf : Seq(Line), attempt : Nat]
    <3>1. run \in [stage : Stages, buf : Seq(Line), attempt : Nat]
      BY DEF ChunkTypeOK
    <3>2. \/ run' = [run EXCEPT !.stage = "rename"]
          \/ run.stage = "rename" /\ run' = [run EXCEPT !.attempt = run.attempt + 1]
      BY <1>7 DEF FlushWriteTmp, FlushRenameBusy, FlushRenameNoEnt
    <3> QED BY <3>1, <3>2 DEF Stages
  <2>2. /\ currentIndex' \in Nat /\ currentIndex' >= currentIndex
        /\ faults' \in Nat
    BY <1>7 DEF FlushWriteTmp, FlushRenameBusy, FlushRenameNoEnt, diskVars, Fault, ChunkTypeOK
  <2>3. ChunkTypeOK'
    BY <2>1, <2>2, <2>5, Zenon DEF ChunkTypeOK
  <2>4. IndexInv'
    BY <2>1, <2>2, <2>5 DEF IndexInv, IsOld, ChunkTypeOK
  <2> QED BY <2>1, <2>3, <2>4, <2>5 DEF Bounds, ChainInv, CountInv
<1>8. CASE FlushRename
  <2> DEFINE m == currentIndex + 1
             p == [file |-> m, lines |-> Len(run.buf)]
  <2>1. chain # <<>> /\ fsIndexInitialized
    BY <1>8, Zenon DEF FlushRename, ChainInv, IndexInv
  <2>2. run.buf \in Seq(Line) /\ m \in Nat /\ p \in Part
    BY DEF ChunkTypeOK, Part
  <2>3. /\ currentIndex' = m
        /\ Resolve(p)
        /\ parts' = [k \in DOMAIN parts \cup {m} |-> IF k = m THEN run.buf ELSE parts[k]]
        /\ UNCHANGED <<currentBuffer, writtenThisChunk, fsIndexInitialized,
                       emitted, lost, faults, blind>>
    BY <1>8 DEF FlushRename
  <2>4. /\ chain' \in Seq(Callers)
        /\ pc' \in [Callers -> CallStates]
        /\ results' \in [Callers -> Seq(Part)]
        /\ Matches(chain', pc')
        /\ run' = IdleRun
        /\ UNCHANGED <<pos, end>>
    <3> HIDE DEF p
    <3> QED BY <2>1, <2>2, <2>3, ResolveFacts
  <2>5. DOMAIN parts' \subseteq Nat \ {0} /\ \A k \in DOMAIN parts' : parts'[k] \in Seq(Line)
    BY <2>2, <2>3 DEF ChunkTypeOK
  <2>6. run' \in [stage : Stages, buf : Seq(Line), attempt : Nat]
    BY <2>4 DEF IdleRun, Stages
  <2>7. ChunkTypeOK'
    BY <2>2, <2>3, <2>4, <2>5, <2>6, Zenon DEF ChunkTypeOK
  <2>8. IndexInv'
    <3>1. ASSUME NEW k \in DOMAIN parts'
          PROVE  /\ k <= currentIndex' \/ IsOld(k)'
                 /\ fsIndexInitialized /\ ~blind => k <= currentIndex'
      <4>1. k = m \/ (k \in DOMAIN parts /\ parts'[k] = parts[k] /\ k \in Nat)
        BY <2>3, <3>1 DEF ChunkTypeOK
      <4>2. currentIndex \in Nat /\ currentIndex' = currentIndex + 1
        BY <2>3 DEF ChunkTypeOK
      <4> QED BY <4>1, <4>2 DEF IndexInv, IsOld
    <3>2. run'.stage = "idle"
      BY <2>4, Zenon DEF IdleRun
    <3> QED BY <2>3, <3>1, <3>2 DEF IndexInv
  <2> QED BY <2>3, <2>4, <2>7, <2>8 DEF Bounds, ChainInv, CountInv, IdleRun
<1>9. CASE FlushFail
  <2> DEFINE c == Head(chain)
  <2>1. chain # <<>> /\ chain \in Seq(Callers) /\ pc \in [Callers -> CallStates]
        /\ Matches(chain, pc)
    BY <1>9 DEF FlushFail, ChainInv, ChunkTypeOK
  <2>2. c \in Callers
    BY <2>1
  <2>3. /\ chain' = Tail(chain)
        /\ run' = IdleRun
        /\ pc' = [pc EXCEPT ![c] = "failed"]
        /\ pos' = [pos EXCEPT ![c] = end[c] + 1]
        /\ lost' = lost \cup Elements(run.buf) \cup pos[c]..end[c]
        /\ UNCHANGED <<currentBuffer, writtenThisChunk, fsIndexInitialized,
                       currentIndex, end, results, parts, emitted, blind>>
    BY <1>9 DEF FlushFail, Reject
  <2> HIDE DEF c
  <2>4. "failed" \in CallStates \ Awaiting
    BY DEF CallStates, Awaiting
  <2>5. chain' \in Seq(Callers) /\ pc' \in [Callers -> CallStates] /\ Matches(chain', pc')
    <3>1. Matches(Tail(chain), [pc EXCEPT ![c] = "failed"])
      BY <2>1, <2>4, MatchesTail, Zenon DEF c
    <3> QED BY <2>1, <2>2, <2>3, <2>4, <3>1
  <2>6. /\ pos[c] \in Nat /\ end[c] \in Nat /\ end[c] <= emitted /\ emitted \in 0..NumLines
        /\ pos[c] >= 1
    BY <2>2, Zenon DEF ChunkTypeOK, Bounds
  <2>7. lost' \subseteq Line
    <3>1. Elements(run.buf) \subseteq Line
      BY ElementsType DEF ChunkTypeOK
    <3>2. pos[c]..end[c] \subseteq Line
      <4> SUFFICES ASSUME NEW x \in pos[c]..end[c] PROVE x \in Line
        OBVIOUS
      <4>1. x \in Int /\ x >= 1 /\ x <= end[c] /\ end[c] <= NumLines
        BY <2>6, ChunkWriterAssumption
      <4> QED BY <2>6, <4>1, ChunkWriterAssumption DEF Line
    <3> QED BY <2>3, <3>1, <3>2 DEF ChunkTypeOK
  <2>8. run' \in [stage : Stages, buf : Seq(Line), attempt : Nat] /\ faults' \in Nat
    BY <1>9, <2>3 DEF IdleRun, Stages, FlushFail, Fault, ChunkTypeOK
  <2>9. pos' \in [Callers -> Nat]
    <3>1. pos \in [Callers -> Nat] /\ end[c] + 1 \in Nat
      BY <2>6 DEF ChunkTypeOK
    <3> QED BY <2>3, <3>1, Zenon
  <2>10. ChunkTypeOK'
    BY <2>3, <2>5, <2>7, <2>8, <2>9, Zenon DEF ChunkTypeOK
  <2>11. Bounds'
    <3> SUFFICES ASSUME NEW d \in Callers
                 PROVE  pos'[d] >= 1 /\ pos'[d] <= end'[d] + 1 /\ end'[d] <= emitted'
      BY DEF Bounds
    <3>1. /\ pos[d] >= 1 /\ pos[d] <= end[d] + 1 /\ end[d] <= emitted
          /\ pos'[d] = IF d = c THEN end[c] + 1 ELSE pos[d]
      BY <2>3 DEF Bounds, ChunkTypeOK
    <3> QED BY <2>3, <2>6, <3>1
  <2> QED BY <2>3, <2>5, <2>10, <2>11 DEF ChainInv, CountInv, IndexInv, IsOld, IdleRun
<1>10. CASE UNCHANGED chunkVars
  BY <1>10, Zenon DEF chunkVars, writerVars, callVars, diskVars, ChunkTypeOK, Bounds, ChainInv,
               CountInv, IndexInv, IsOld
<1> QED BY <1>1, <1>2, <1>3, <1>4, <1>5, <1>6, <1>7, <1>8, <1>9, <1>10
        DEF ChunkNext, FlushIO

(* The structural invariant of the chunk writer: its types, and what ties  *)
(* the buffer, the chain of flushes, the calls and the index together.     *)
THEOREM ChunkInvariant == ChunkSpec => []ChunkInv
BY InitInv, NextInv, PTL DEF ChunkSpec

(* ChunkWriter.ts keeps its types in every reachable state. *)
THEOREM ChunkTypeCorrect == ChunkSpec => []ChunkTypeOK
<1>1. ChunkInv => ChunkTypeOK
  BY DEF ChunkInv
<1> QED BY <1>1, ChunkInvariant, PTL

-----------------------------------------------------------------------------
(* The five kinds of step of the writer, and what follows from them: how   *)
(* far the buffer can grow, and that what was reported stays true.         *)

(* The buffer against the flushes that will take it. *)
LoadInv == FullChunkHasFlush /\ OvershootBounded

(* A part that was reported to a call has a number the writer has passed. *)
ReportInv ==
  \A c \in Callers : \A i \in DOMAIN results[c] :
    results[c][i].lines > 0 =>
      /\ results[c][i].file \in DOMAIN parts
      /\ results[c][i].file <= currentIndex
      /\ results[c][i].lines = Len(parts[results[c][i].file])

(* What a step may do to the lines and to what was reported of them: push  *)
(* lines, take the snapshot of the buffer, commit it, drop it, or nothing. *)
Pushing == {"flushing", "resume"}
NoneStopsPushing == \A c \in Callers : pc'[c] \notin Pushing => pc[c] \notin Pushing

PushStep(c, first, last, n) ==
  /\ Pushed(c, first, last, n)
  /\ first >= 1 /\ first <= last + 1 /\ last <= NumLines
  /\ \/ pc[c] = "resume" /\ first = pos[c] /\ last = end[c] /\ emitted' = emitted
     \/ pc[c] = "idle" /\ first = emitted + 1 /\ last = emitted'
  /\ \A d \in Callers : results'[d] = results[d] \/ results'[d] = <<>>
  /\ UNCHANGED <<currentIndex, run, parts, lost>>

QuietStep ==
  /\ UNCHANGED <<currentBuffer, writtenThisChunk, parts, pos, end, emitted, lost>>
  /\ run'.buf = run.buf
  /\ currentIndex' \in Nat /\ currentIndex' >= currentIndex
  /\ PendingFlushes' \in Nat /\ PendingFlushes' >= PendingFlushes
  /\ NoneStopsPushing
  /\ \A c \in Callers : results'[c] = results[c] \/ results'[c] = <<>>

SnapshotStep ==
  /\ run.buf = <<>> /\ run'.buf = currentBuffer /\ currentBuffer' = <<>>
  /\ writtenThisChunk' = 0
  /\ UNCHANGED <<parts, pos, end, emitted, lost>>
  /\ currentIndex' \in Nat /\ currentIndex' >= currentIndex
  /\ PendingFlushes' \in Nat
  /\ NoneStopsPushing
  /\ \A c \in Callers : results'[c] = results[c] \/ results'[c] = Append(results[c], EmptyPart)

CommitStep(m) ==
  /\ m = currentIndex + 1 /\ currentIndex' = m
  /\ m \in DOMAIN parts => IsOld(m) /\ blind
  /\ parts' = [k \in DOMAIN parts \cup {m} |-> IF k = m THEN run.buf ELSE parts[k]]
  /\ run'.buf = <<>>
  /\ UNCHANGED <<currentBuffer, writtenThisChunk, pos, end, emitted, lost>>
  /\ PendingFlushes' = PendingFlushes
  /\ NoneStopsPushing
  /\ \E c \in Callers :
       /\ \A d \in Callers : d # c => results'[d] = results[d]
       /\ \/ results'[c] = Append(results[c], [file |-> m, lines |-> Len(run.buf)])
          \/ results'[c] = results[c] /\ run.buf = <<>>

DropStep(c) ==
  /\ run'.buf = <<>>
  /\ pos' = [pos EXCEPT ![c] = end[c] + 1]
  /\ lost' = lost \cup Elements(run.buf) \cup Unpushed(c)
  /\ \A d \in Callers : d # c => pc'[d] = pc[d]
  /\ UNCHANGED <<currentBuffer, writtenThisChunk, currentIndex, end, results, parts, emitted>>
  /\ PendingFlushes' = PendingFlushes

(* The number of waiting flushes is a natural number. *)
LEMMA PendingType == ChunkInv => PendingFlushes \in Nat
<1> SUFFICES ASSUME ChunkInv PROVE PendingFlushes \in Nat
  OBVIOUS
<1>1. chain \in Seq(Callers) /\ (run.stage # "idle" => chain # <<>>)
  BY DEF ChunkInv, ChunkTypeOK, ChainInv
<1>2. Len(chain) \in Nat /\ (chain # <<>> => Len(chain) > 0)
  BY <1>1
<1> QED BY <1>1, <1>2 DEF PendingFlushes

(* The same in the next state. *)
LEMMA PendingTypeNext == ChunkInv' => PendingFlushes' \in Nat
<1>1. (ChunkInv => PendingFlushes \in Nat)'
  BY PendingType, PTL
<1> QED BY <1>1

(* A flush that ends: the call it was for goes on, and may be given p. *)
LEMMA ResolveResults ==
  ASSUME ChunkInv, chain # <<>>, NEW p \in Part, Resolve(p)
  PROVE  /\ NoneStopsPushing
         /\ Len(chain') = Len(chain) - 1
         /\ \E c \in Callers :
              /\ \A d \in Callers : d # c => results'[d] = results[d]
              /\ \/ results'[c] = Append(results[c], p)
                 \/ results'[c] = results[c] /\ p.lines = 0
<1> DEFINE h == Head(chain)
<1>1. chain \in Seq(Callers) /\ pc \in [Callers -> CallStates] /\ results \in [Callers -> Seq(Part)]
  BY DEF ChunkInv, ChunkTypeOK
<1>2. h \in Callers /\ Len(chain') = Len(chain) - 1
  BY <1>1 DEF Resolve
<1>3. \/ pc[h] = "flushing" /\ pc' = [pc EXCEPT ![h] = "resume"]
      \/ pc[h] = "remainder" /\ pc' = [pc EXCEPT ![h] = "returned"]
  BY DEF Resolve
<1>4. \/ results' = results /\ p.lines = 0
      \/ results' = [results EXCEPT ![h] = Append(results[h], p)]
  <2>1. \/ results' = [results EXCEPT ![h] = IF p.lines > 0 THEN Append(results[h], p)
                                             ELSE results[h]]
        \/ results' = [results EXCEPT ![h] = Append(results[h], p)]
    BY DEF Resolve
  <2>2. p.lines \in Nat
    BY DEF Part
  <2>3. CASE p.lines > 0
    BY <2>1, <2>3, Zenon
  <2>4. CASE p.lines = 0
    <3>1. [results EXCEPT ![h] = results[h]] = results
      BY <1>1
    <3>2. ~(p.lines > 0)
      BY <2>4
    <3> QED BY <2>1, <2>4, <3>1, <3>2
  <2> QED BY <2>2, <2>3, <2>4
<1> HIDE DEF h
<1>5. NoneStopsPushing
  BY <1>1, <1>2, <1>3 DEF NoneStopsPushing, Pushing
<1> QED BY <1>1, <1>2, <1>4, <1>5

(* Taking the snapshot of the buffer. *)
LEMMA SnapshotKind ==
  ASSUME ChunkInv, ChunkInv', chain # <<>>, run.buf = <<>>, Snapshot,
         currentIndex' \in Nat, currentIndex' >= currentIndex
  PROVE  SnapshotStep
<1>1. UNCHANGED <<parts, emitted, lost, pos, end>>
  BY DEF Snapshot, Resolve, callVars
<1>2. PendingFlushes' \in Nat
  BY PendingTypeNext
<1>3. CASE currentBuffer = <<>> /\ Resolve(EmptyPart)
  <2>1. EmptyPart \in Part
    BY DEF EmptyPart, Part
  <2>2. /\ NoneStopsPushing
        /\ \A c \in Callers : \/ results'[c] = results[c]
                              \/ results'[c] = Append(results[c], EmptyPart)
    BY <1>3, <2>1, ResolveResults, Zenon
  <2>3. run'.buf = currentBuffer
    BY <1>3 DEF Resolve, IdleRun
  <2> QED BY <1>1, <1>2, <2>2, <2>3 DEF SnapshotStep, Snapshot
<1>4. CASE /\ run' = [stage |-> "write", buf |-> currentBuffer, attempt |-> 0]
           /\ UNCHANGED <<chain, callVars>>
  BY <1>1, <1>2, <1>4, Zenon DEF SnapshotStep, Snapshot, callVars, NoneStopsPushing
<1> QED BY <1>3, <1>4, Zenon DEF Snapshot

(* Every step is of one of the five kinds. *)
LEMMA StepKinds ==
  ASSUME ChunkInv, [ChunkNext]_chunkVars
  PROVE  \/ \E c \in Callers : \E first, last, n \in Nat : PushStep(c, first, last, n)
         \/ QuietStep
         \/ SnapshotStep
         \/ \E m \in Nat : CommitStep(m)
         \/ \E c \in Callers : DropStep(c)
<1> DEFINE Goal == \/ \E c \in Callers : \E first, last, n \in Nat : PushStep(c, first, last, n)
                   \/ QuietStep
                   \/ SnapshotStep
                   \/ \E m \in Nat : CommitStep(m)
                   \/ \E c \in Callers : DropStep(c)
<1>a. ChunkInv' /\ PendingFlushes \in Nat /\ PendingFlushes' \in Nat
  BY NextInv, PendingType, PendingTypeNext, Zenon
<1>b. /\ currentIndex \in Nat /\ chain \in Seq(Callers) /\ pc \in [Callers -> CallStates]
      /\ results \in [Callers -> Seq(Part)] /\ Len(chain) \in Nat
      /\ run \in [stage : Stages, buf : Seq(Line), attempt : Nat] /\ emitted \in 0..NumLines
      /\ pos \in [Callers -> Nat] /\ end \in [Callers -> Nat]
  BY DEF ChunkInv, ChunkTypeOK
<1>1. ASSUME NEW c \in Callers, NEW n \in 1..MaxBatch, emitted + n <= NumLines,
             AppendBatch(c, n)
      PROVE  Goal
  <2>1. /\ emitted + 1 \in Nat /\ emitted + n \in Nat /\ emitted + 1 >= 1
        /\ emitted + 1 <= emitted + n + 1 /\ emitted + n <= NumLines
    BY <1>1, <1>b, ChunkWriterAssumption
  <2>2. PushLines(c, emitted + 1, emitted + n)
    BY <1>1 DEF AppendBatch
  <2>3. PICK k \in Nat : Pushed(c, emitted + 1, emitted + n, k)
    BY <2>1, <2>2, PushFacts
  <2>4. /\ pc[c] = "idle" /\ emitted' = emitted + n
        /\ UNCHANGED <<currentIndex, run, parts, lost>>
        /\ \A d \in Callers : results'[d] = results[d] \/ results'[d] = <<>>
    BY <1>1, <1>b, Zenon DEF AppendBatch
  <2>5. PushStep(c, emitted + 1, emitted + n, k)
    BY <2>1, <2>3, <2>4, Zenon DEF PushStep
  <2> QED BY <2>1, <2>5
<1>2. ASSUME NEW c \in Callers, ResumeBatch(c) PROVE Goal
  <2>1. /\ pos[c] \in Nat /\ end[c] \in Nat /\ pos[c] >= 1 /\ pos[c] <= end[c] + 1
        /\ end[c] <= NumLines
    <3>1. pos[c] >= 1 /\ pos[c] <= end[c] + 1 /\ end[c] <= emitted
      BY DEF ChunkInv, Bounds
    <3> QED BY <1>b, <3>1, ChunkWriterAssumption
  <2>2. PushLines(c, pos[c], end[c])
    BY <1>2, Zenon DEF ResumeBatch
  <2>3. PICK k \in Nat : Pushed(c, pos[c], end[c], k)
    BY <2>1, <2>2, PushFacts
  <2>4. /\ pc[c] = "resume" /\ emitted' = emitted /\ results' = results
        /\ UNCHANGED <<currentIndex, run, parts, lost>>
    BY <1>2, Zenon DEF ResumeBatch, diskVars
  <2>5. PushStep(c, pos[c], end[c], k)
    BY <2>1, <2>3, <2>4 DEF PushStep
  <2> QED BY <2>1, <2>5
<1>3. ASSUME NEW c \in Callers, FlushRemainder(c) PROVE Goal
  <2>1. /\ UNCHANGED <<currentIndex, currentBuffer, writtenThisChunk, parts, pos, end,
                       emitted, lost, run>>
        /\ pc[c] = "idle"
        /\ \E st \in {"returned", "remainder"} : pc' = [pc EXCEPT ![c] = st]
        /\ results' = [results EXCEPT ![c] = <<>>]
        /\ chain' = chain \/ chain' = Append(chain, c)
    BY <1>3 DEF FlushRemainder, diskVars
  <2>2. Len(chain') >= Len(chain)
    BY <1>b, <2>1
  <2>3. PendingFlushes' >= PendingFlushes
    <3>1. run' = run /\ chain \in Seq(Callers) /\ chain' \in Seq(Callers)
      BY <1>a, <1>b, <2>1, Zenon DEF ChunkInv, ChunkTypeOK
    <3>2. Len(chain) \in Nat /\ Len(chain') \in Nat
      BY <3>1
    <3> QED BY <2>2, <3>1, <3>2 DEF PendingFlushes
  <2>4. NoneStopsPushing
    BY <1>b, <2>1 DEF NoneStopsPushing, Pushing
  <2>5. QuietStep
    BY <1>a, <1>b, <2>1, <2>3, <2>4 DEF QuietStep
  <2> QED BY <2>5
<1>4. ASSUME NEW c \in Callers, Collect(c) PROVE Goal
  <2>1. /\ UNCHANGED <<currentIndex, currentBuffer, writtenThisChunk, parts, pos, end,
                       emitted, lost, run, results, chain>>
        /\ pc[c] \in {"returned", "failed"} /\ pc' = [pc EXCEPT ![c] = "idle"]
    BY <1>4 DEF Collect, writerVars, diskVars
  <2>2. NoneStopsPushing
    BY <1>b, <2>1 DEF NoneStopsPushing, Pushing
  <2>3. PendingFlushes' = PendingFlushes
    BY <2>1 DEF PendingFlushes
  <2>4. QuietStep
    BY <1>a, <1>b, <2>1, <2>2, <2>3 DEF QuietStep
  <2> QED BY <2>4
<1>5. CASE FlushStart
  <2>1. CASE /\ run' = [run EXCEPT !.stage = "readdir"]
             /\ UNCHANGED <<currentIndex, currentBuffer, writtenThisChunk,
                            fsIndexInitialized, chain, callVars, diskVars>>
    <3>1. UNCHANGED <<pc, pos, end, results, parts, emitted, lost>>
      BY <2>1 DEF callVars, diskVars
    <3>2. run'.stage = "readdir" /\ run'.buf = run.buf /\ run.stage = "idle"
      BY <1>5, <1>b, <2>1 DEF FlushStart
    <3>3. PendingFlushes' = PendingFlushes
      BY <2>1, <3>2 DEF PendingFlushes
    <3>4. QuietStep
      BY <1>a, <1>b, <2>1, <3>1, <3>2, <3>3 DEF QuietStep, NoneStopsPushing
    <3> QED BY <3>4
  <2>2. CASE /\ fsIndexInitialized /\ Snapshot
             /\ UNCHANGED <<currentIndex, fsIndexInitialized, faults, blind>>
    <3>1. run.buf = <<>> /\ chain # <<>>
      BY <1>5 DEF FlushStart, ChunkInv, ChainInv
    <3>2. currentIndex' \in Nat /\ currentIndex' >= currentIndex
      BY <1>b, <2>2
    <3> QED BY <1>a, <2>2, <3>1, <3>2, SnapshotKind
  <2> QED BY <1>5, <2>1, <2>2 DEF FlushStart
<1>6. CASE FlushReadDir \/ FlushReadDirFails
  <2>1. run.buf = <<>> /\ chain # <<>> /\ Snapshot
    BY <1>6 DEF FlushReadDir, FlushReadDirFails, ChunkInv, ChainInv
  <2>2. currentIndex' \in Nat /\ currentIndex' >= currentIndex
    <3>1. CASE FlushReadDir
      BY <1>b, <3>1 DEF FlushReadDir, ChunkInv, ChunkTypeOK
    <3>2. CASE FlushReadDirFails
      BY <1>b, <3>2 DEF FlushReadDirFails
    <3> QED BY <1>6, <3>1, <3>2, Zenon
  <2> QED BY <1>a, <2>1, <2>2, SnapshotKind
<1>7. CASE FlushWriteTmp \/ FlushRenameBusy \/ FlushRenameNoEnt
  <2>1. /\ UNCHANGED <<currentBuffer, writtenThisChunk, chain, pc, pos, end, results,
                       parts, emitted, lost>>
        /\ run.stage \in {"write", "rename"}
    BY <1>7 DEF FlushWriteTmp, FlushRenameBusy, FlushRenameNoEnt, callVars, diskVars
  <2>2. run'.stage = "rename" /\ run'.buf = run.buf
    <3>1. \/ run' = [run EXCEPT !.stage = "rename"]
          \/ run.stage = "rename" /\ run' = [run EXCEPT !.attempt = run.attempt + 1]
      BY <1>7 DEF FlushWriteTmp, FlushRenameBusy, FlushRenameNoEnt
    <3> QED BY <1>b, <3>1
  <2>3. currentIndex' \in Nat /\ currentIndex' >= currentIndex
    BY <1>7, <1>b DEF FlushWriteTmp, FlushRenameBusy, FlushRenameNoEnt
  <2>4. PendingFlushes' = PendingFlushes
    BY <2>1, <2>2 DEF PendingFlushes
  <2>5. QuietStep
    BY <1>a, <2>1, <2>2, <2>3, <2>4 DEF QuietStep, NoneStopsPushing
  <2> QED BY <2>5
<1>8. CASE FlushRename
  <2> DEFINE m == currentIndex + 1
             p == [file |-> m, lines |-> Len(run.buf)]
  <2>1. chain # <<>> /\ fsIndexInitialized /\ run.stage = "rename"
    BY <1>8, ZenonT(30) DEF FlushRename, ChunkInv, ChainInv, IndexInv
  <2>2. m \in Nat /\ p \in Part
    BY <1>b DEF Part
  <2>3. /\ currentIndex' = m
        /\ Resolve(p)
        /\ parts' = [k \in DOMAIN parts \cup {m} |-> IF k = m THEN run.buf ELSE parts[k]]
        /\ UNCHANGED <<currentBuffer, writtenThisChunk, emitted, lost>>
    BY <1>8, Zenon DEF FlushRename
  <2>4. /\ NoneStopsPushing
        /\ Len(chain') = Len(chain) - 1
        /\ \E c \in Callers :
             /\ \A d \in Callers : d # c => results'[d] = results[d]
             /\ \/ results'[c] = Append(results[c], p)
                \/ results'[c] = results[c] /\ p.lines = 0
    <3> HIDE DEF p
    <3> QED BY <2>1, <2>2, <2>3, ResolveResults, Zenon
  <2>5. run'.buf = <<>> /\ run'.stage = "idle" /\ UNCHANGED <<pos, end>>
    BY <2>3, Zenon DEF Resolve, IdleRun
  <2>6. PendingFlushes' = PendingFlushes
    BY <1>b, <2>1, <2>4, <2>5 DEF PendingFlushes
  <2>7. m \in DOMAIN parts => IsOld(m) /\ blind
    BY <1>b, <2>1 DEF ChunkInv, IndexInv
  <2>8. p.lines = 0 => run.buf = <<>>
    BY <1>b
  <2>9. CommitStep(m)
    BY <2>3, <2>4, <2>5, <2>6, <2>7, <2>8 DEF CommitStep
  <2> QED BY <2>2, <2>9
<1>9. CASE FlushFail
  <2>1. chain # <<>> /\ run.stage \in {"write", "rename"}
    BY <1>9 DEF FlushFail, ChunkInv, ChainInv
  <2>2. PICK c \in Callers : c = Head(chain)
    BY <1>b, <2>1
  <2>3. /\ chain' = Tail(chain) /\ run' = IdleRun
        /\ pc' = [pc EXCEPT ![c] = "failed"]
        /\ pos' = [pos EXCEPT ![c] = end[c] + 1]
        /\ lost' = lost \cup Elements(run.buf) \cup Unpushed(c)
        /\ UNCHANGED <<currentBuffer, writtenThisChunk, currentIndex, end, results, parts,
                       emitted>>
    BY <1>9, <2>2 DEF FlushFail, Reject, Unpushed
  <2>4. Len(chain') = Len(chain) - 1
    BY <1>b, <2>1, <2>3
  <2>5. run'.buf = <<>> /\ run'.stage = "idle"
    BY <2>3 DEF IdleRun
  <2>6. PendingFlushes' = PendingFlushes
    BY <1>b, <2>1, <2>4, <2>5 DEF PendingFlushes
  <2>7. \A d \in Callers : d # c => pc'[d] = pc[d]
    BY <1>b, <2>3, Zenon
  <2>8. DropStep(c)
    BY <2>3, <2>5, <2>6, <2>7 DEF DropStep
  <2> QED BY <2>8
<1>10. CASE UNCHANGED chunkVars
  <2>1. UNCHANGED <<currentIndex, currentBuffer, writtenThisChunk, parts, pos, end,
                    emitted, lost, run, results, chain, pc>>
    BY <1>10 DEF chunkVars, writerVars, callVars, diskVars
  <2>2. PendingFlushes' = PendingFlushes
    BY <2>1 DEF PendingFlushes
  <2>3. QuietStep
    BY <1>a, <1>b, <2>1, <2>2 DEF QuietStep, NoneStopsPushing
  <2> QED BY <2>3
<1> QED BY <1>1, <1>2, <1>3, <1>4, <1>5, <1>6, <1>7, <1>8, <1>9, <1>10
        DEF ChunkNext, FlushIO

-----------------------------------------------------------------------------
(* A step keeps a part, unless it is an old one in an unread directory. *)
LEMMA PartKept ==
  ASSUME ChunkInv, [ChunkNext]_chunkVars, NEW n \in DOMAIN parts
  PROVE  n \in DOMAIN parts' /\ (parts'[n] = parts[n] \/ (blind /\ IsOld(n)))
<1>1. parts' = parts \/ \E m \in Nat : CommitStep(m)
  BY StepKinds DEF PushStep, QuietStep, SnapshotStep, DropStep
<1>2. ASSUME NEW m \in Nat, CommitStep(m)
      PROVE  n \in DOMAIN parts' /\ (parts'[n] = parts[n] \/ (blind /\ IsOld(n)))
  BY <1>2, Zenon DEF CommitStep
<1> QED BY <1>1, <1>2, Zenon

(* flushChunk never replaces a part of this writer, and one of an earlier  *)
(* session only when readdir had failed: a rename takes the number above   *)
(* the index, and IndexInv says what can be there.                         *)
THEOREM PartsAreImmutable == ChunkSpec => PartsImmutable
<1>1. ChunkInv /\ [ChunkNext]_chunkVars =>
        [\A n \in DOMAIN parts :
           /\ n \in DOMAIN parts'
           /\ parts'[n] = parts[n] \/ (blind /\ IsOld(n))]_chunkVars
  BY PartKept
<1> QED BY <1>1, ChunkInvariant, PTL DEF ChunkSpec, PartsImmutable

(* The load of the buffer, step by step. *)
LEMMA LoadNext ==
  ASSUME ChunkInv, LoadInv, [ChunkNext]_chunkVars
  PROVE  LoadInv'
<1>1. /\ writtenThisChunk \in Nat /\ Len(currentBuffer) = writtenThisChunk
      /\ ChunkMaxLines \in Nat /\ ChunkMaxLines >= 1 /\ PendingFlushes \in Nat
  <2>1. writtenThisChunk \in Nat
    BY DEF ChunkInv, ChunkTypeOK
  <2>2. Len(currentBuffer) = writtenThisChunk
    BY DEF ChunkInv, CountInv
  <2>3. PendingFlushes \in Nat
    BY PendingType
  <2> QED BY <2>1, <2>2, <2>3, ChunkWriterAssumption
<1>2. Len(currentBuffer') = writtenThisChunk' /\ PendingFlushes' \in Nat
  <2>1. ChunkInv'
    BY NextInv
  <2>2. Len(currentBuffer') = writtenThisChunk'
    BY <2>1 DEF ChunkInv, CountInv
  <2> QED BY <2>1, <2>2, PendingTypeNext
<1>a. /\ writtenThisChunk >= ChunkMaxLines => PendingFlushes > 0
      /\ writtenThisChunk <= ChunkMaxLines - 1 + PendingFlushes
  BY <1>1 DEF LoadInv, FullChunkHasFlush, OvershootBounded
<1>b. ASSUME /\ writtenThisChunk' >= ChunkMaxLines => PendingFlushes' > 0
             /\ writtenThisChunk' <= ChunkMaxLines - 1 + PendingFlushes'
      PROVE  LoadInv'
  BY <1>2, <1>b DEF LoadInv, FullChunkHasFlush, OvershootBounded
<1>3. ASSUME NEW c \in Callers, NEW first \in Nat, NEW last \in Nat, NEW n \in Nat,
             PushStep(c, first, last, n)
      PROVE  LoadInv'
  <2>1. /\ writtenThisChunk' = writtenThisChunk + n /\ run' = run
        /\ \/ /\ chain' = chain
              /\ writtenThisChunk' < ChunkMaxLines \/ n = 0
           \/ /\ chain' = Append(chain, c)
              /\ writtenThisChunk' <= ChunkMaxLines \/ n = 1
    BY <1>3 DEF PushStep, Pushed
  <2>2. \/ /\ PendingFlushes' = PendingFlushes
           /\ writtenThisChunk' < ChunkMaxLines \/ n = 0
        \/ /\ PendingFlushes' = PendingFlushes + 1
           /\ writtenThisChunk' <= ChunkMaxLines \/ n = 1
    <3>1. chain' = Append(chain, c) => Len(chain') = Len(chain) + 1 /\ Len(chain) \in Nat
      BY DEF ChunkInv, ChunkTypeOK
    <3> QED BY <2>1, <3>1 DEF PendingFlushes
  <2>3. /\ writtenThisChunk' >= ChunkMaxLines => PendingFlushes' > 0
        /\ writtenThisChunk' <= ChunkMaxLines - 1 + PendingFlushes'
    BY <1>1, <1>a, <2>1, <2>2
  <2> QED BY <1>b, <2>3, Zenon
<1>4. CASE QuietStep
  <2>1. writtenThisChunk' = writtenThisChunk
    BY <1>4 DEF QuietStep
  <2>2. PICK q \in Nat : q = PendingFlushes' /\ q >= PendingFlushes
    BY <1>4 DEF QuietStep
  <2>3. q \in Nat /\ q >= PendingFlushes
    BY <2>2
  <2>4. /\ writtenThisChunk >= ChunkMaxLines => q > 0
        /\ writtenThisChunk <= ChunkMaxLines - 1 + q
    BY <1>1, <1>a, <2>3
  <2> QED BY <1>b, <2>1, <2>2, <2>4
<1>5. CASE SnapshotStep
  <2>1. writtenThisChunk' = 0
    BY <1>5 DEF SnapshotStep
  <2>2. PICK q \in Nat : q = PendingFlushes'
    BY <1>2
  <2>3. ~(0 >= ChunkMaxLines) /\ 0 <= ChunkMaxLines - 1 + q
    BY <1>1
  <2> QED BY <1>b, <2>1, <2>2, <2>3
<1>6. ASSUME NEW m \in Nat, CommitStep(m) PROVE LoadInv'
  <2>1. writtenThisChunk' = writtenThisChunk /\ PendingFlushes' = PendingFlushes
    BY <1>6 DEF CommitStep
  <2> QED BY <1>a, <1>b, <2>1, Zenon
<1>7. ASSUME NEW c \in Callers, DropStep(c) PROVE LoadInv'
  <2>1. writtenThisChunk' = writtenThisChunk /\ PendingFlushes' = PendingFlushes
    BY <1>7 DEF DropStep
  <2> QED BY <1>a, <1>b, <2>1, Zenon
<1> QED BY <1>3, <1>4, <1>5, <1>6, <1>7, StepKinds

(* A chunk that has reached chunkMaxLines always has a flush waiting for   *)
(* it, and a buffer outgrows the limit by at most one line for each of the *)
(* flushes waiting after the first.                                        *)
THEOREM BufferLoad == ChunkSpec => [](FullChunkHasFlush /\ OvershootBounded)
<1>1. ChunkInit => LoadInv
  <2> SUFFICES ASSUME ChunkInit PROVE LoadInv
    OBVIOUS
  <2>1. ChunkMaxLines \in Nat /\ ChunkMaxLines >= 1 /\ writtenThisChunk = 0
        /\ Len(currentBuffer) = 0 /\ PendingFlushes = 0
    BY ChunkWriterAssumption DEF ChunkInit, PendingFlushes, IdleRun
  <2> QED BY <2>1 DEF LoadInv, FullChunkHasFlush, OvershootBounded
<1>2. ChunkInv /\ LoadInv /\ [ChunkNext]_chunkVars => LoadInv'
  BY LoadNext
<1>3. LoadInv => FullChunkHasFlush /\ OvershootBounded
  BY Zenon DEF LoadInv
<1> QED BY <1>1, <1>2, <1>3, ChunkInvariant, PTL DEF ChunkSpec

(* What was reported stays true, step by step. *)
LEMMA ReportNext ==
  ASSUME ChunkInv, ReportInv, [ChunkNext]_chunkVars
  PROVE  ReportInv'
<1> DEFINE Fine(p) == p.lines > 0 => /\ p.file \in DOMAIN parts'
                                     /\ p.file <= currentIndex'
                                     /\ p.lines = Len(parts'[p.file])
<1>1. /\ results \in [Callers -> Seq(Part)] /\ currentIndex \in Nat
      /\ run.buf \in Seq(Line)
  BY DEF ChunkInv, ChunkTypeOK
<1>2. ASSUME NEW c \in Callers, NEW i \in DOMAIN results[c] PROVE Fine(results[c][i])
  <2> DEFINE p == results[c][i]
  <2>1. p \in Part
    BY <1>1
  <2>2. p.lines > 0 => p.file \in DOMAIN parts /\ p.file <= currentIndex
                        /\ p.lines = Len(parts[p.file])
    BY DEF ReportInv
  <2>3. /\ currentIndex' \in Nat /\ currentIndex' >= currentIndex
        /\ \A n \in DOMAIN parts : n <= currentIndex =>
             n \in DOMAIN parts' /\ parts'[n] = parts[n]
    <3>1. ASSUME NEW m \in Nat, CommitStep(m)
          PROVE  /\ currentIndex' \in Nat /\ currentIndex' >= currentIndex
                 /\ \A n \in DOMAIN parts : n <= currentIndex =>
                      n \in DOMAIN parts' /\ parts'[n] = parts[n]
      <4>1. /\ currentIndex' = m /\ m = currentIndex + 1
            /\ DOMAIN parts' = DOMAIN parts \cup {m}
            /\ \A n \in DOMAIN parts : n # m => parts'[n] = parts[n]
        BY <3>1, Zenon DEF CommitStep
      <4>2. currentIndex \in Nat
        BY <1>1
      <4> QED BY <4>1, <4>2
    <3>2. (\E m \in Nat : CommitStep(m)) \/
          (parts' = parts /\ currentIndex' \in Nat /\ currentIndex' >= currentIndex)
      BY <1>1, StepKinds DEF PushStep, QuietStep, SnapshotStep, DropStep
    <3> QED BY <3>1, <3>2, Zenon
  <2> HIDE DEF p
  <2>4. p.file \in Nat
    BY <2>1 DEF Part
  <2>5. Fine(p)
    BY <1>1, <2>2, <2>3, <2>4
  <2> QED BY <2>5 DEF p
<1>3. ASSUME NEW c \in Callers
      PROVE  \/ results'[c] = results[c] \/ results'[c] = <<>>
             \/ \E p \in Part : Fine(p) /\ results'[c] = Append(results[c], p)
  <2>1. ASSUME NEW m \in Nat, CommitStep(m)
        PROVE  \/ results'[c] = results[c]
               \/ \E p \in Part : Fine(p) /\ results'[c] = Append(results[c], p)
    <3> DEFINE q == [file |-> m, lines |-> Len(run.buf)]
    <3>1. q \in Part /\ q.file = m /\ q.lines = Len(run.buf)
      BY <1>1 DEF Part
    <3>2. m \in DOMAIN parts' /\ parts'[m] = run.buf /\ currentIndex' = m
      BY <2>1, Zenon DEF CommitStep
    <3>3. Fine(q)
      BY <3>1, <3>2
    <3>4. results'[c] = results[c] \/ results'[c] = Append(results[c], q)
      BY <2>1, Zenon DEF CommitStep
    <3> HIDE DEF Fine, q
    <3> QED BY <3>1, <3>3, <3>4
  <2>2. CASE SnapshotStep
    <3>1. EmptyPart \in Part /\ Fine(EmptyPart)
      BY DEF EmptyPart, Part
    <3> HIDE DEF Fine
    <3> QED BY <2>2, <3>1 DEF SnapshotStep
  <2>3. results'[c] = results[c] \/ results'[c] = <<>> \/ SnapshotStep \/ \E m \in Nat : CommitStep(m)
    BY StepKinds, ZenonT(30) DEF PushStep, QuietStep, DropStep
  <2> HIDE DEF Fine
  <2> QED BY <2>1, <2>2, <2>3, Zenon
<1>4. ASSUME NEW c \in Callers, NEW i \in DOMAIN results'[c] PROVE Fine(results'[c][i])
  <2> HIDE DEF Fine
  <2>0. results[c] \in Seq(Part)
    BY <1>1
  <2>1. CASE results'[c] = results[c]
    BY <1>2, <1>4, <2>1
  <2>2. CASE results'[c] = <<>>
    BY <1>4, <2>2
  <2>3. ASSUME NEW p \in Part, Fine(p), results'[c] = Append(results[c], p)
        PROVE  Fine(results'[c][i])
    <3>1. i \in 1..Len(results[c]) \/ i = Len(results[c]) + 1
      BY <1>4, <2>0, <2>3
    <3>2. CASE i \in 1..Len(results[c])
      <4>1. i \in DOMAIN results[c] /\ results'[c][i] = results[c][i]
        BY <2>0, <2>3, <3>2
      <4> QED BY <1>2, <4>1
    <3>3. CASE i = Len(results[c]) + 1
      <4>1. results'[c][i] = p
        BY <2>0, <2>3, <3>3
      <4> QED BY <2>3, <4>1
    <3> QED BY <3>1, <3>2, <3>3
  <2> QED BY <1>3, <2>1, <2>2, <2>3
<1> QED BY <1>4 DEF ReportInv

(* What was reported stays true. *)
LEMMA ReportInvariant == ChunkSpec => []ReportInv
<1>1. ChunkInit => ReportInv
  BY DEF ChunkInit, ReportInv
<1>2. ChunkInv /\ ReportInv /\ [ChunkNext]_chunkVars => ReportInv'
  BY ReportNext
<1> QED BY <1>1, <1>2, ChunkInvariant, PTL DEF ChunkSpec

(* A part that appendBatch or flushRemainder reports to its caller is in   *)
(* the directory with that many lines, and stays there.                    *)
THEOREM PartsReported == ChunkSpec => []ReportedPartsExist
<1>1. ReportInv => ReportedPartsExist
  BY DEF ReportInv, ReportedPartsExist
<1> QED BY <1>1, ReportInvariant, PTL

-----------------------------------------------------------------------------
(* Where the lines of the stream are: every line handed to the writer is   *)
(* in one place, for any interleaving of the calls and the flushes.        *)

(* The lines of the stream: a call that does not push has none left, and   *)
(* a line is in one place only.                                            *)
Distinct(s) == \A i, j \in DOMAIN s : s[i] = s[j] => i = j
Apart(s, t) == \A i \in DOMAIN s, j \in DOMAIN t : s[i] # t[j]
Clear(s, S) == \A i \in DOMAIN s : s[i] \notin S
Known(s, a) == \A i \in DOMAIN s : s[i] \in a..emitted

CallInv == \A c \in Callers : pc[c] \notin {"flushing", "resume"} => pos[c] > end[c]

PlaceInv ==
  /\ \A c, d \in Callers : c # d => Unpushed(c) \cap Unpushed(d) = {}
  /\ \A c \in Callers : /\ Clear(currentBuffer, Unpushed(c))
                        /\ Clear(run.buf, Unpushed(c))
                        /\ \A n \in DOMAIN parts : Clear(parts[n], Unpushed(c))
  /\ Known(currentBuffer, 1)
  /\ Known(run.buf, 1)
  /\ \A n \in DOMAIN parts : Known(parts[n], 0)
  /\ Distinct(currentBuffer)
  /\ Distinct(run.buf)
  /\ Apart(currentBuffer, run.buf)

StreamInv == CallInv /\ PlaceInv /\ LineStoredOnce /\ NoLineVanishes

(* LineStoredOnce, of the parts P, the buffer B and the snapshot R. *)
StoredOnce(P, B, R) ==
  /\ \A m, n \in DOMAIN P : \A i \in DOMAIN P[m], j \in DOMAIN P[n] :
       P[m][i] = P[n][j] /\ P[m][i] # OldLine => m = n /\ i = j
  /\ \A n \in DOMAIN P :
       /\ \A i \in DOMAIN P[n], j \in DOMAIN B : P[n][i] # B[j]
       /\ \A i \in DOMAIN P[n], j \in DOMAIN R : P[n][i] # R[j]

LEMMA OnceIs ==
  /\ LineStoredOnce <=> StoredOnce(parts, currentBuffer, run.buf)
  /\ LineStoredOnce' <=> StoredOnce(parts', currentBuffer', run'.buf)
BY Zenon DEF LineStoredOnce, StoredOnce

(* An empty buffer or snapshot has no lines to be found elsewhere. *)
LEMMA EmptyFacts ==
  /\ \A S : Clear(<<>>, S)
  /\ Distinct(<<>>)
  /\ \A s : Apart(s, <<>>) /\ Apart(<<>>, s)
  /\ \A P, B, R : StoredOnce(P, B, R) =>
       StoredOnce(P, B, <<>>) /\ StoredOnce(P, <<>>, B) /\ StoredOnce(P, <<>>, <<>>)
<1>1. DOMAIN <<>> = {}
  OBVIOUS
<1>2. \A P, B, R : StoredOnce(P, B, R) =>
       StoredOnce(P, B, <<>>) /\ StoredOnce(P, <<>>, B) /\ StoredOnce(P, <<>>, <<>>)
  BY <1>1, ZenonT(40) DEF StoredOnce
<1>3. (\A S : Clear(<<>>, S)) /\ Distinct(<<>>) /\ \A s : Apart(s, <<>>) /\ Apart(<<>>, s)
  BY <1>1, Zenon DEF Clear, Distinct, Apart
<1> QED BY <1>2, <1>3, Zenon

(* Pushing lines keeps every line in one place: the lines that move were   *)
(* nowhere else before.                                                    *)
LEMMA StreamPush ==
  ASSUME ChunkInv, ChunkInv', StreamInv, NEW c \in Callers,
         NEW first \in Nat, NEW last \in Nat, NEW n \in Nat, PushStep(c, first, last, n)
  PROVE  StreamInv'
<1> DEFINE k == Len(currentBuffer)
<1>1. /\ n <= last - first + 1 /\ first >= 1 /\ first <= last + 1 /\ last <= NumLines
      /\ UNCHANGED <<run, parts, lost>>
      /\ pos' = [pos EXCEPT ![c] = first + n] /\ end' = [end EXCEPT ![c] = last]
      /\ currentBuffer' = currentBuffer \o Interval(first, first + n - 1)
      /\ \/ pc' = [pc EXCEPT ![c] = "returned"] /\ n = last - first + 1
         \/ pc' = [pc EXCEPT ![c] = "flushing"]
  BY ZenonT(30) DEF PushStep, Pushed
<1>2. /\ pos \in [Callers -> Nat] /\ end \in [Callers -> Nat] /\ emitted \in Nat
      /\ emitted' \in Nat /\ pc \in [Callers -> CallStates]
      /\ currentBuffer \in Seq(Line) /\ run.buf \in Seq(Line) /\ k \in Nat
      /\ \A m \in DOMAIN parts : parts[m] \in Seq(Line)
  <2>1. emitted \in 0..NumLines /\ emitted' \in 0..NumLines
    BY DEF ChunkInv, ChunkTypeOK
  <2>2. emitted \in Nat /\ emitted' \in Nat
    BY <2>1, ChunkWriterAssumption
  <2>3. currentBuffer \in Seq(Line) /\ run.buf \in Seq(Line)
    BY DEF ChunkInv, ChunkTypeOK
  <2>4. k \in Nat
    BY <2>3
  <2>5. /\ pos \in [Callers -> Nat] /\ end \in [Callers -> Nat] /\ pc \in [Callers -> CallStates]
        /\ \A m \in DOMAIN parts : parts[m] \in Seq(Line)
    BY ZenonT(30) DEF ChunkInv, ChunkTypeOK
  <2> QED BY <2>2, <2>3, <2>4, <2>5, Zenon
<1>3. /\ DOMAIN currentBuffer = 1..k /\ DOMAIN currentBuffer' = 1..(k + n)
      /\ \A i \in 1..k : currentBuffer'[i] = currentBuffer[i]
      /\ \A i \in (k + 1)..(k + n) : currentBuffer'[i] = first + (i - k) - 1
  <2>1. first + n - 1 <= NumLines
    BY <1>1, ChunkWriterAssumption
  <2>2. /\ currentBuffer' \in Seq(Line) /\ Len(currentBuffer') = k + n
        /\ \A i \in 1..k : currentBuffer'[i] = currentBuffer[i]
        /\ \A i \in (k + 1)..(k + n) : currentBuffer'[i] = first + (i - k) - 1
    <3>1. currentBuffer \in Seq(Line) /\ first >= 1
      BY <1>1, <1>2
    <3>2. LET b2 == currentBuffer \o Interval(first, first + n - 1) IN
            /\ b2 \in Seq(Line)
            /\ Len(b2) = Len(currentBuffer) + n
            /\ \A i \in 1..Len(currentBuffer) : b2[i] = currentBuffer[i]
            /\ \A i \in (Len(currentBuffer) + 1)..(Len(currentBuffer) + n) :
                 b2[i] = first + (i - Len(currentBuffer)) - 1
      BY <2>1, <3>1, BufferFacts, Zenon
    <3> QED BY <1>1, <3>2
  <2> QED BY <1>2, <2>2
<1>4. /\ emitted' >= emitted /\ last <= emitted'
      /\ pc[c] = "resume" => first = pos[c] /\ last = end[c] /\ emitted' = emitted
      /\ pc[c] # "resume" => first = emitted + 1 /\ last = emitted' /\ pos[c] > end[c]
  <2>1. end[c] <= emitted
    BY Zenon DEF ChunkInv, Bounds
  <2>2. pc[c] = "idle" => pos[c] > end[c]
    BY DEF StreamInv, CallInv
  <2> QED BY <1>1, <1>2, <2>1, <2>2 DEF PushStep
<1>5. /\ pos'[c] = first + n /\ end'[c] = last
      /\ \A d \in Callers : d # c => pos'[d] = pos[d] /\ end'[d] = end[d] /\ pc'[d] = pc[d]
  BY <1>1, <1>2, ZenonT(30)
<1> HIDE DEF k
<1>6. /\ \A x \in first..last : x \in 1..emitted'
      /\ \A d \in Callers : d # c => Unpushed(d) \cap (first..last) = {}
      /\ Clear(currentBuffer, first..last)
      /\ Clear(run.buf, first..last)
      /\ \A m \in DOMAIN parts : Clear(parts[m], first..last)
  <2>1. CASE pc[c] = "resume"
    <3>1. first..last = Unpushed(c)
      BY <1>4, <2>1, Zenon DEF Unpushed
    <3>2. \A x \in first..last : x \in 1..emitted'
      BY <1>1, <1>2, <1>4
    <3> QED BY <3>1, <3>2 DEF StreamInv, PlaceInv
  <2>2. CASE pc[c] # "resume"
    <3>1. \A x \in first..last : x \in 1..emitted' /\ x > emitted
      BY <1>1, <1>2, <1>4, <2>2
    <3>2. \A d \in Callers : \A x \in Unpushed(d) : x \in 0..emitted
      <4>1. \A d \in Callers : end[d] <= emitted /\ end[d] \in Nat /\ pos[d] \in Nat
        BY <1>2, Zenon DEF ChunkInv, Bounds
      <4> QED BY <1>2, <4>1 DEF Unpushed
    <3>3. /\ \A i \in DOMAIN currentBuffer : currentBuffer[i] \in 0..emitted
          /\ \A i \in DOMAIN run.buf : run.buf[i] \in 0..emitted
          /\ \A m \in DOMAIN parts : \A i \in DOMAIN parts[m] : parts[m][i] \in 0..emitted
      <4>1. /\ Known(currentBuffer, 1) /\ Known(run.buf, 1)
            /\ \A m \in DOMAIN parts : Known(parts[m], 0)
        BY Zenon DEF StreamInv, PlaceInv
      <4>2. \A x \in 1..emitted : x \in 0..emitted
        BY <1>2
      <4> QED BY <4>1, <4>2, Zenon DEF Known
    <3>4. ASSUME NEW x \in first..last, NEW y \in 0..emitted PROVE x # y
      <4>1. x > emitted /\ x \in Int
        BY <3>1
      <4>2. y <= emitted /\ y \in Int /\ emitted \in Int
        BY <1>2
      <4> QED BY <4>1, <4>2
    <3> QED BY <3>1, <3>2, <3>3, <3>4, Zenon DEF Clear
  <2> QED BY <2>1, <2>2, ZenonT(30)
<1>7. /\ Unpushed(c)' = (first + n)..last
      /\ Unpushed(c)' \subseteq first..last
      /\ \A d \in Callers : d # c => Unpushed(d)' = Unpushed(d)
  BY <1>5 DEF Unpushed
<1>8. CallInv'
  <2> SUFFICES ASSUME NEW d \in Callers, pc'[d] \notin {"flushing", "resume"}
               PROVE  pos'[d] > end'[d]
    BY Zenon DEF CallInv
  <2>1. CASE d = c
    BY <1>1, <1>2, <1>5, <2>1
  <2>2. CASE d # c
    BY <1>5, <2>2, Zenon DEF StreamInv, CallInv
  <2> QED BY <2>1, <2>2, ZenonT(30)
<1>9. /\ \A i \in 1..k : currentBuffer'[i] \notin first..last
      /\ \A i \in (k + 1)..(k + n) : currentBuffer'[i] \in first..last /\ currentBuffer'[i] < first + n
  <2>1. \A i \in 1..k : currentBuffer'[i] \notin first..last
    BY <1>3, <1>6 DEF Clear
  <2>2. ASSUME NEW i \in (k + 1)..(k + n)
        PROVE  currentBuffer'[i] \in first..last /\ currentBuffer'[i] < first + n
    <3>1. currentBuffer'[i] = first + (i - k) - 1 /\ i - k >= 1 /\ i - k <= n /\ i \in Int
      BY <1>2, <1>3
    <3>2. k \in Int /\ n <= last - first + 1
      BY <1>1, <1>2
    <3>3. first + (i - k) - 1 \in first..last /\ first + (i - k) - 1 < first + n
      BY <3>1, <3>2
    <3> QED BY <3>1, <3>3, Zenon
  <2> QED BY <2>1, <2>2, Zenon
<1>10. \A i \in DOMAIN currentBuffer' : i \in 1..k \/ i \in (k + 1)..(k + n)
  <2>1. DOMAIN currentBuffer' = 1..(k + n) /\ k \in Nat
    BY <1>2, <1>3, Zenon
  <2> HIDE DEF k
  <2> QED BY <2>1
<1>11. PlaceInv'
  <2>1. \A d, e \in Callers : d # e => Unpushed(d)' \cap Unpushed(e)' = {}
    BY <1>6, <1>7 DEF StreamInv, PlaceInv
  <2>2. \A d \in Callers : Clear(currentBuffer', Unpushed(d)')
    <3> SUFFICES ASSUME NEW d \in Callers, NEW i \in DOMAIN currentBuffer'
                 PROVE  currentBuffer'[i] \notin Unpushed(d)'
      BY DEF Clear
    <3>1. CASE i \in 1..k
      <4>1. currentBuffer[i] \notin Unpushed(d)
        BY <1>3, <3>1, Zenon DEF StreamInv, PlaceInv, Clear
      <4> QED BY <1>3, <1>7, <1>9, <3>1, <4>1, Zenon
    <3>2. CASE i \in (k + 1)..(k + n)
      <4>1. d = c => currentBuffer'[i] \notin (first + n)..last
        BY <1>9, <3>2
      <4> QED BY <1>6, <1>7, <1>9, <3>2, <4>1, ZenonT(30)
    <3> QED BY <1>10, <3>1, <3>2
  <2>3. \A d \in Callers : /\ Clear(run'.buf, Unpushed(d)')
                           /\ \A m \in DOMAIN parts' : Clear(parts'[m], Unpushed(d)')
    <3> SUFFICES ASSUME NEW d \in Callers
                 PROVE  /\ Clear(run.buf, Unpushed(d)')
                        /\ \A m \in DOMAIN parts : Clear(parts[m], Unpushed(d)')
      BY <1>1, ZenonT(30)
    <3>1. CASE d = c
      BY <1>6, <1>7, <3>1, ZenonT(30) DEF Clear
    <3>2. CASE d # c
      BY <1>7, <3>2, ZenonT(30) DEF StreamInv, PlaceInv
    <3> QED BY <3>1, <3>2, ZenonT(30)
  <2>4. /\ Known(run.buf, 1)' /\ \A m \in DOMAIN parts' : Known(parts[m], 0)'
    <3>1. \A a \in {0, 1} : a..emitted \subseteq a..emitted'
      BY <1>2, <1>4
    <3> QED BY <1>1, <3>1, ZenonT(30) DEF StreamInv, PlaceInv, Known
  <2>5. Known(currentBuffer, 1)'
    <3> SUFFICES ASSUME NEW i \in DOMAIN currentBuffer' PROVE currentBuffer'[i] \in 1..emitted'
      BY DEF Known
    <3>1. CASE i \in 1..k
      <4>1. currentBuffer'[i] \in 1..emitted
        BY <1>3, <3>1, ZenonT(30) DEF StreamInv, PlaceInv, Known
      <4> QED BY <1>2, <1>4, <4>1
    <3>2. CASE i \in (k + 1)..(k + n)
      BY <1>6, <1>9, <3>2, ZenonT(30)
    <3> QED BY <1>10, <3>1, <3>2
  <2>6. Distinct(currentBuffer')
    <3> SUFFICES ASSUME NEW i \in DOMAIN currentBuffer', NEW j \in DOMAIN currentBuffer',
                        currentBuffer'[i] = currentBuffer'[j]
                 PROVE  i = j
      BY DEF Distinct
    <3>1. CASE i \in 1..k /\ j \in 1..k
      BY <1>3, <3>1, ZenonT(30) DEF StreamInv, PlaceInv, Distinct
    <3>2. CASE i \in (k + 1)..(k + n) /\ j \in (k + 1)..(k + n)
      BY <1>2, <1>3, <3>2
    <3> QED BY <1>9, <1>10, <3>1, <3>2
  <2>7. Distinct(run'.buf)
    BY <1>1, ZenonT(30) DEF StreamInv, PlaceInv
  <2>8. Apart(currentBuffer', run'.buf)
    <3> SUFFICES ASSUME NEW i \in DOMAIN currentBuffer', NEW j \in DOMAIN run.buf
                 PROVE  currentBuffer'[i] # run.buf[j]
      BY <1>1, ZenonT(30) DEF Apart
    <3>1. CASE i \in 1..k
      BY <1>3, <3>1, ZenonT(30) DEF StreamInv, PlaceInv, Apart
    <3>2. CASE i \in (k + 1)..(k + n)
      BY <1>6, <1>9, <3>2, ZenonT(30) DEF Clear
    <3> QED BY <1>10, <3>1, <3>2, ZenonT(30)
  <2> QED BY <2>1, <2>2, <2>3, <2>4, <2>5, <2>6, <2>7, <2>8, Zenon DEF PlaceInv
<1>12. LineStoredOnce'
  <2>1. ASSUME NEW m \in DOMAIN parts, NEW i \in DOMAIN parts[m], NEW j \in DOMAIN currentBuffer'
        PROVE  parts[m][i] # currentBuffer'[j]
    <3>1. CASE j \in 1..k
      BY <1>3, <3>1 DEF StreamInv, LineStoredOnce
    <3>2. CASE j \in (k + 1)..(k + n)
      BY <1>6, <1>9, <3>2, Zenon DEF Clear
    <3> QED BY <1>10, <3>1, <3>2, Zenon
  <2>2. UNCHANGED <<run, parts>>
    BY <1>1, Zenon
  <2>3. \A m \in DOMAIN parts : \A i \in DOMAIN parts[m], j \in DOMAIN currentBuffer' :
          parts[m][i] # currentBuffer'[j]
    BY <2>1, Zenon
  <2>4. StoredOnce(parts, currentBuffer, run.buf)
    BY OnceIs, Zenon DEF StreamInv
  <2>5. StoredOnce(parts, currentBuffer', run.buf)
    BY <2>3, <2>4, Zenon DEF StoredOnce
  <2> QED BY <2>2, <2>5, OnceIs, Zenon
<1>13. NoLineVanishes'
  <2>1. Elements(currentBuffer) \subseteq Elements(currentBuffer')
    <3>1. 1..k \subseteq 1..(k + n)
      BY <1>2
    <3> QED BY <1>3, <3>1, ZenonT(30) DEF Elements
  <2>2. ASSUME NEW e \in first..last
        PROVE  e \in Unpushed(c)' \/ e \in Elements(currentBuffer')
    <3>1. CASE e >= first + n
      BY <1>7, <2>2, <3>1
    <3>2. CASE e < first + n
      <4>1. PICK i \in (k + 1)..(k + n) : i = k + (e - first) + 1
        BY <1>2, <2>2, <3>2
      <4>2. i \in 1..(k + n) /\ currentBuffer'[i] = e
        BY <1>2, <1>3, <4>1
      <4> QED BY <1>3, <4>2, ZenonT(30) DEF Elements
    <3> QED BY <3>1, <3>2
  <2> SUFFICES ASSUME NEW e \in 1..emitted'
               PROVE  \/ \E d \in Callers : e \in Unpushed(d)'
                      \/ e \in Elements(currentBuffer')
                      \/ e \in Elements(run.buf)
                      \/ \E m \in DOMAIN parts : e \in Elements(parts[m])
                      \/ e \in lost
    BY <1>1, ZenonT(30) DEF NoLineVanishes
  <2>3. CASE e \in first..last
    BY <2>2, <2>3, ZenonT(30)
  <2>4. CASE e \notin first..last
    <3>1. e \in 1..emitted
      BY <1>1, <1>2, <1>4, <2>4
    <3>2. e \notin Unpushed(c)
      BY <1>2, <1>4, <2>4 DEF Unpushed
    <3> QED BY <1>7, <2>1, <3>1, <3>2, ZenonT(30) DEF StreamInv, NoLineVanishes
  <2> QED BY <2>3, <2>4, ZenonT(30)
<1> QED BY <1>8, <1>11, <1>12, <1>13 DEF StreamInv

(* Committing the snapshot moves its lines to a part of their own. *)
LEMMA StreamCommit ==
  ASSUME ChunkInv, StreamInv, NEW m \in Nat, CommitStep(m)
  PROVE  StreamInv'
<1>1. /\ m \in DOMAIN parts => IsOld(m)
      /\ DOMAIN parts' = DOMAIN parts \cup {m}
      /\ parts'[m] = run.buf
      /\ \A k \in DOMAIN parts : k # m => parts'[k] = parts[k]
      /\ run'.buf = <<>>
      /\ UNCHANGED <<currentBuffer, pos, end, emitted, lost>>
  BY Zenon DEF CommitStep
<1>2. \A c \in Callers : Unpushed(c)' = Unpushed(c)
  BY <1>1, ZenonT(30) DEF Unpushed
<1>3. CallInv'
  BY <1>1, ZenonT(30) DEF CommitStep, StreamInv, CallInv, NoneStopsPushing, Pushing
<1>4. Known(run.buf, 1) /\ Known(run.buf, 0)
  <2>1. 1..emitted \subseteq 0..emitted
    OBVIOUS
  <2> QED BY <2>1, Zenon DEF StreamInv, PlaceInv, Known
<1>5. PlaceInv'
  <2>1. \A c, d \in Callers : c # d => Unpushed(c)' \cap Unpushed(d)' = {}
    BY <1>2, ZenonT(30) DEF StreamInv, PlaceInv
  <2>2. \A c \in Callers : /\ Clear(currentBuffer', Unpushed(c)')
                           /\ Clear(run'.buf, Unpushed(c)')
                           /\ \A n \in DOMAIN parts' : Clear(parts'[n], Unpushed(c)')
    <3> SUFFICES ASSUME NEW c \in Callers
                 PROVE  /\ Clear(currentBuffer, Unpushed(c)) /\ Clear(<<>>, Unpushed(c))
                        /\ \A n \in DOMAIN parts' : Clear(parts'[n], Unpushed(c))
      BY <1>1, <1>2, Zenon
    <3>1. /\ Clear(currentBuffer, Unpushed(c)) /\ Clear(run.buf, Unpushed(c))
          /\ \A n \in DOMAIN parts : Clear(parts[n], Unpushed(c))
      BY Zenon DEF StreamInv, PlaceInv
    <3> QED BY <1>1, <3>1, EmptyFacts, Zenon
  <2>3. \A n \in DOMAIN parts' : Known(parts[n], 0)'
    <3> SUFFICES ASSUME NEW n \in DOMAIN parts', NEW i \in DOMAIN parts'[n]
                 PROVE  parts'[n][i] \in 0..emitted
      BY <1>1, ZenonT(30) DEF Known
    <3> QED BY <1>1, <1>4, ZenonT(30) DEF StreamInv, PlaceInv, Known
  <2>4. Known(currentBuffer, 1)' /\ Known(run.buf, 1)'
    <3>1. DOMAIN <<>> = {}
      OBVIOUS
    <3> QED BY <1>1, <3>1, Zenon DEF StreamInv, PlaceInv, Known
  <2>5. Distinct(currentBuffer') /\ Distinct(run'.buf) /\ Apart(currentBuffer', run'.buf)
    BY <1>1, EmptyFacts, Zenon DEF StreamInv, PlaceInv
  <2> QED BY <2>1, <2>2, <2>3, <2>4, <2>5, ZenonT(30) DEF PlaceInv
<1>6. LineStoredOnce'
  <2>0. LineStoredOnce
    BY Zenon DEF StreamInv
  <2>1. ASSUME NEW a \in DOMAIN parts', NEW b \in DOMAIN parts',
               NEW i \in DOMAIN parts'[a], NEW j \in DOMAIN parts'[b],
               parts'[a][i] = parts'[b][j], parts'[a][i] # OldLine
        PROVE  a = b /\ i = j
    <3>1. CASE a = m /\ b = m
      BY <1>1, <2>1, <3>1, ZenonT(30) DEF StreamInv, PlaceInv, Distinct
    <3>2. CASE a # m /\ b # m
      <4>1. a \in DOMAIN parts /\ b \in DOMAIN parts /\ parts'[a] = parts[a] /\ parts'[b] = parts[b]
        BY <1>1, <2>1, <3>2, Zenon
      <4>2. i \in DOMAIN parts[a] /\ j \in DOMAIN parts[b] /\ parts[a][i] = parts[b][j] /\ parts[a][i] # OldLine
        BY <2>1, <4>1, Zenon
      <4> QED BY <2>0, <4>1, <4>2, Zenon DEF LineStoredOnce
    <3>3. CASE a # m /\ b = m
      <4>1. a \in DOMAIN parts /\ parts'[a] = parts[a] /\ parts'[b] = run.buf
        BY <1>1, <2>1, <3>3, Zenon
      <4>2. i \in DOMAIN parts[a] /\ j \in DOMAIN run.buf /\ parts[a][i] = run.buf[j]
        BY <2>1, <4>1, Zenon
      <4> QED BY <2>0, <4>1, <4>2, Zenon DEF LineStoredOnce
    <3>4. CASE a = m /\ b # m
      <4>1. b \in DOMAIN parts /\ parts'[b] = parts[b] /\ parts'[a] = run.buf
        BY <1>1, <2>1, <3>4, Zenon
      <4>2. i \in DOMAIN run.buf /\ j \in DOMAIN parts[b] /\ run.buf[i] = parts[b][j]
        BY <2>1, <4>1, Zenon
      <4> QED BY <2>0, <4>1, <4>2, Zenon DEF LineStoredOnce
    <3> QED BY <3>1, <3>2, <3>3, <3>4, Zenon
  <2>2. ASSUME NEW n \in DOMAIN parts', NEW i \in DOMAIN parts'[n], NEW j \in DOMAIN currentBuffer
        PROVE  parts'[n][i] # currentBuffer[j]
    <3>1. CASE n = m
      BY <1>1, <2>2, <3>1, ZenonT(30) DEF StreamInv, PlaceInv, Apart
    <3>2. CASE n # m
      <4>1. n \in DOMAIN parts /\ parts'[n] = parts[n]
        BY <1>1, <2>2, <3>2, Zenon
      <4> QED BY <2>0, <2>2, <4>1, ZenonT(40) DEF LineStoredOnce
    <3> QED BY <3>1, <3>2, Zenon
  <2>3. \A n \in DOMAIN parts' : \A i \in DOMAIN parts'[n], j \in DOMAIN currentBuffer' :
          parts'[n][i] # currentBuffer'[j]
    BY <1>1, <2>2, Zenon
  <2>4. DOMAIN run'.buf = {}
    BY <1>1
  <2>5. \A a, b \in DOMAIN parts' : \A i \in DOMAIN parts'[a], j \in DOMAIN parts'[b] :
          parts'[a][i] = parts'[b][j] /\ parts'[a][i] # OldLine => a = b /\ i = j
    BY <2>1, Zenon
  <2> QED BY <2>3, <2>4, <2>5, OnceIs, Zenon DEF StoredOnce
<1>7. NoLineVanishes'
  <2> SUFFICES ASSUME NEW e \in 1..emitted
               PROVE  \/ \E c \in Callers : e \in Unpushed(c)
                      \/ e \in Elements(currentBuffer)
                      \/ \E n \in DOMAIN parts' : e \in Elements(parts'[n])
                      \/ e \in lost
    BY <1>1, <1>2, ZenonT(30) DEF NoLineVanishes
  <2>1. ASSUME NEW n \in DOMAIN parts, e \in Elements(parts[n])
        PROVE  n \in DOMAIN parts' /\ e \in Elements(parts'[n])
    <3>1. n # m
      <4> SUFFICES ASSUME n = m PROVE FALSE
        OBVIOUS
      <4>1. \A i \in DOMAIN parts[n] : parts[n][i] = 0
        BY <1>1, ZenonT(30) DEF IsOld, OldPart, OldLine
      <4>2. e = 0
        BY <2>1, <4>1, ZenonT(30) DEF Elements
      <4> QED BY <4>2
    <3> QED BY <1>1, <2>1, <3>1, ZenonT(30)
  <2>2. \/ \E c \in Callers : e \in Unpushed(c)
        \/ e \in Elements(currentBuffer)
        \/ e \in Elements(run.buf)
        \/ \E n \in DOMAIN parts : e \in Elements(parts[n])
        \/ e \in lost
    BY Zenon DEF StreamInv, NoLineVanishes
  <2> QED BY <1>1, <2>1, <2>2, Zenon
<1> QED BY <1>3, <1>5, <1>6, <1>7 DEF StreamInv

(* An empty snapshot holds no line. *)
LEMMA NoElements == Elements(<<>>) = {}
BY DEF Elements

(* Every step keeps every line in one place. *)
LEMMA StreamNext ==
  ASSUME ChunkInv, StreamInv, [ChunkNext]_chunkVars
  PROVE  StreamInv'
<1>0. ChunkInv' /\ pos \in [Callers -> Nat] /\ end \in [Callers -> Nat]
  BY NextInv, ZenonT(30) DEF ChunkInv, ChunkTypeOK
<1>1. ASSUME NEW c \in Callers, NEW first \in Nat, NEW last \in Nat, NEW n \in Nat,
             PushStep(c, first, last, n)
      PROVE  StreamInv'
  BY <1>0, <1>1, StreamPush, ZenonT(30)
<1>2. CASE QuietStep
  <2>1. \A c \in Callers : Unpushed(c)' = Unpushed(c)
    BY <1>2, ZenonT(30) DEF QuietStep, Unpushed
  <2>2. CallInv'
    BY <1>2, Zenon DEF QuietStep, StreamInv, CallInv, NoneStopsPushing, Pushing
  <2>3. PlaceInv'
    BY <1>2, <2>1, Zenon DEF QuietStep, StreamInv, PlaceInv, Known
  <2>4. LineStoredOnce'
    BY <1>2, OnceIs, Zenon DEF QuietStep, StreamInv
  <2>5. NoLineVanishes'
    BY <1>2, <2>1, Zenon DEF QuietStep, StreamInv, NoLineVanishes
  <2> QED BY <2>2, <2>3, <2>4, <2>5 DEF StreamInv
<1>3. CASE SnapshotStep
  <2>0. /\ run.buf = <<>> /\ run'.buf = currentBuffer /\ currentBuffer' = <<>>
        /\ UNCHANGED <<parts, pos, end, emitted, lost>>
    BY <1>3, ZenonT(30) DEF SnapshotStep
  <2>1. \A c \in Callers : Unpushed(c)' = Unpushed(c)
    BY <2>0, ZenonT(30) DEF Unpushed
  <2>2. CallInv'
    BY <1>3, ZenonT(30) DEF SnapshotStep, StreamInv, CallInv, NoneStopsPushing, Pushing
  <2>3. PlaceInv'
    <3>1. \A c, d \in Callers : c # d => Unpushed(c)' \cap Unpushed(d)' = {}
      BY <2>1, Zenon DEF StreamInv, PlaceInv
    <3>2. \A c \in Callers : /\ Clear(currentBuffer', Unpushed(c)')
                             /\ Clear(run'.buf, Unpushed(c)')
                             /\ \A n \in DOMAIN parts' : Clear(parts'[n], Unpushed(c)')
      BY <2>0, <2>1, EmptyFacts, Zenon DEF StreamInv, PlaceInv
    <3>3. /\ Known(currentBuffer, 1)' /\ Known(run.buf, 1)'
          /\ \A n \in DOMAIN parts' : Known(parts[n], 0)'
      <4>1. DOMAIN <<>> = {}
        OBVIOUS
      <4> QED BY <2>0, <4>1, Zenon DEF StreamInv, PlaceInv, Known
    <3>4. Distinct(currentBuffer') /\ Distinct(run'.buf) /\ Apart(currentBuffer', run'.buf)
      BY <2>0, EmptyFacts, Zenon DEF StreamInv, PlaceInv
    <3> QED BY <3>1, <3>2, <3>3, <3>4, Zenon DEF PlaceInv
  <2>4. LineStoredOnce'
    BY <2>0, OnceIs, EmptyFacts, Zenon DEF StreamInv
  <2>5. NoLineVanishes'
    <3>1. Elements(run.buf) = {}
      BY <2>0, NoElements, Zenon
    <3>2. NoLineVanishes
      BY DEF StreamInv
    <3> QED BY <2>0, <2>1, <3>1, <3>2, ZenonT(30) DEF NoLineVanishes
  <2> QED BY <2>2, <2>3, <2>4, <2>5 DEF StreamInv
<1>4. ASSUME NEW m \in Nat, CommitStep(m) PROVE StreamInv'
  BY <1>4, StreamCommit
<1>5. ASSUME NEW c \in Callers, DropStep(c) PROVE StreamInv'
  <2>0. /\ run'.buf = <<>>
        /\ pos' = [pos EXCEPT ![c] = end[c] + 1]
        /\ lost' = lost \cup Elements(run.buf) \cup Unpushed(c)
        /\ \A d \in Callers : d # c => pc'[d] = pc[d]
        /\ UNCHANGED <<currentBuffer, end, parts, emitted>>
    BY <1>5, ZenonT(30) DEF DropStep
  <2>1. /\ Unpushed(c)' = {}
        /\ \A d \in Callers : d # c => Unpushed(d)' = Unpushed(d)
    BY <1>0, <2>0 DEF Unpushed
  <2>2. CallInv'
    <3> SUFFICES ASSUME NEW d \in Callers, pc'[d] \notin {"flushing", "resume"}
                 PROVE  pos'[d] > end'[d]
      BY ZenonT(30) DEF CallInv
    <3>1. CASE d = c
      BY <1>0, <2>0, <3>1
    <3>2. CASE d # c
      BY <1>0, <2>0, <3>2, ZenonT(30) DEF StreamInv, CallInv
    <3> QED BY <3>1, <3>2, ZenonT(30)
  <2>3. PlaceInv'
    <3>1. \A d, e \in Callers : d # e => Unpushed(d)' \cap Unpushed(e)' = {}
      BY <2>1, ZenonT(30) DEF StreamInv, PlaceInv
    <3>2. ASSUME NEW d \in Callers
          PROVE  /\ Clear(currentBuffer', Unpushed(d)')
                 /\ Clear(run'.buf, Unpushed(d)')
                 /\ \A n \in DOMAIN parts' : Clear(parts'[n], Unpushed(d)')
      <4>1. CASE d = c
        <5>1. \A s : Clear(s, {})
          BY Zenon DEF Clear
        <5> QED BY <2>1, <4>1, <5>1, Zenon
      <4>2. CASE d # c
        BY <2>0, <2>1, <4>2, EmptyFacts, Zenon DEF StreamInv, PlaceInv
      <4> QED BY <4>1, <4>2, Zenon
    <3>3. /\ Known(currentBuffer, 1)' /\ Known(run.buf, 1)'
          /\ \A n \in DOMAIN parts' : Known(parts[n], 0)'
      BY <2>0 DEF StreamInv, PlaceInv, Known
    <3>4. Distinct(currentBuffer') /\ Distinct(run'.buf) /\ Apart(currentBuffer', run'.buf)
      BY <2>0, EmptyFacts, Zenon DEF StreamInv, PlaceInv
    <3> QED BY <3>1, <3>2, <3>3, <3>4, ZenonT(30) DEF PlaceInv
  <2>4. LineStoredOnce'
    BY <2>0, OnceIs, EmptyFacts, Zenon DEF StreamInv
  <2>5. NoLineVanishes'
    BY <2>0, <2>1, Zenon DEF StreamInv, NoLineVanishes
  <2> QED BY <2>2, <2>3, <2>4, <2>5 DEF StreamInv
<1> QED BY <1>1, <1>2, <1>3, <1>4, <1>5, StepKinds, ZenonT(30)

(* Nothing is in the writer before the first call. *)
LEMMA StreamInit == ChunkInit => StreamInv
<1> SUFFICES ASSUME ChunkInit PROVE StreamInv
  OBVIOUS
<1>0. DOMAIN <<>> = {}
  OBVIOUS
<1>1. /\ currentBuffer = <<>> /\ run.buf = <<>> /\ emitted = 0
      /\ \A c \in Callers : pos[c] = 1 /\ end[c] = 0
      /\ DOMAIN parts = OldParts
      /\ \A n \in DOMAIN parts : parts[n] = OldPart(n)
  BY Zenon DEF ChunkInit, IdleRun
<1>2. \A c \in Callers : Unpushed(c) = {} /\ pos[c] > end[c]
  <2> SUFFICES ASSUME NEW c \in Callers PROVE Unpushed(c) = {} /\ pos[c] > end[c]
    BY Zenon
  <2>1. pos[c] = 1 /\ end[c] = 0
    BY <1>1, Zenon
  <2> QED BY <2>1 DEF Unpushed
<1>3. \A n \in DOMAIN parts : \A i \in DOMAIN parts[n] : parts[n][i] = 0
  BY <1>1, Zenon DEF OldPart, OldLine
<1>4. CallInv
  BY <1>2, Zenon DEF CallInv
<1>6. PlaceInv
  <2>1. Known(currentBuffer, 1) /\ Known(run.buf, 1)
    BY <1>0, <1>1, Zenon DEF Known
  <2>2. \A n \in DOMAIN parts : Known(parts[n], 0)
    <3>1. 0 \in 0..emitted
      BY <1>1
    <3> QED BY <1>3, <3>1, Zenon DEF Known
  <2>3. \A s : Clear(s, {})
    BY Zenon DEF Clear
  <2> QED BY <1>1, <1>2, <2>1, <2>2, <2>3, EmptyFacts, Zenon DEF PlaceInv
<1>7. LineStoredOnce
  BY <1>0, <1>1, <1>3, Zenon DEF LineStoredOnce, OldLine
<1>5. NoLineVanishes
  BY <1>1 DEF NoLineVanishes
<1> QED BY <1>4, <1>5, <1>6, <1>7, Zenon DEF StreamInv

(* The stream invariant of the writer. *)
LEMMA StreamInvariant == ChunkSpec => []StreamInv
<1>1. ChunkInv /\ StreamInv /\ [ChunkNext]_chunkVars => StreamInv'
  BY StreamNext
<1> QED BY <1>1, StreamInit, ChunkInvariant, PTL DEF ChunkSpec

(* However the callers interleave and whichever flushes fail, no log line  *)
(* is written to two places of the part files.                             *)
THEOREM LinesStoredOnce == ChunkSpec => []LineStoredOnce
<1>1. StreamInv => LineStoredOnce
  BY DEF StreamInv
<1> QED BY <1>1, StreamInvariant, PTL

(* A line handed to appendBatch is never silently dropped: it is with its  *)
(* caller, in the buffer, in the running flush or in a part file, or it    *)
(* was in a flush that was rejected.                                       *)
THEOREM LinesNeverVanish == ChunkSpec => []NoLineVanishes
<1>1. StreamInv => NoLineVanishes
  BY DEF StreamInv
<1> QED BY <1>1, StreamInvariant, PTL

-----------------------------------------------------------------------------
(* What goes wrong has a file-system error as its cause. *)
FaultInv ==
  /\ run.attempt <= faults
  /\ faults = 0 => /\ ~blind
                   /\ lost = {}
                   /\ \A c \in Callers : pc[c] # "failed"

(* A flush is given up, a call rejected or the directory taken as unread   *)
(* only with an error.                                                     *)
LEMMA FaultNext ==
  ASSUME ChunkInv, FaultInv, [ChunkNext]_chunkVars
  PROVE  FaultInv' /\ (blind => blind') /\ faults' >= faults
<1>1. /\ faults \in Nat /\ run \in [stage : Stages, buf : Seq(Line), attempt : Nat]
      /\ pc \in [Callers -> CallStates] /\ run.attempt \in Nat
  <2>1. run \in [stage : Stages, buf : Seq(Line), attempt : Nat]
    BY ZenonT(30) DEF ChunkInv, ChunkTypeOK
  <2> QED BY <2>1, ZenonT(30) DEF ChunkInv, ChunkTypeOK
<1> USE <1>1
<1>2. ASSUME NEW c \in Callers, NEW s \in CallStates \ {"failed"},
             pc' = [pc EXCEPT ![c] = s], UNCHANGED <<run, faults, lost, blind>>
      PROVE  FaultInv' /\ (blind => blind') /\ faults' >= faults
  BY <1>2 DEF FaultInv
<1>3. ASSUME NEW c \in Callers, \/ \E n \in 1..MaxBatch : AppendBatch(c, n)
                                \/ ResumeBatch(c) \/ FlushRemainder(c) \/ Collect(c)
      PROVE  FaultInv' /\ (blind => blind') /\ faults' >= faults
  <2>1. \E s \in {"returned", "flushing", "remainder", "idle"} : pc' = [pc EXCEPT ![c] = s]
    BY <1>3, Zenon DEF AppendBatch, ResumeBatch, FlushRemainder, Collect, PushLines
  <2>2. UNCHANGED <<run, faults, lost, blind>>
    BY <1>3, ZenonT(30) DEF AppendBatch, ResumeBatch, FlushRemainder, Collect, writerVars, diskVars
  <2> QED BY <1>2, <2>1, <2>2, Zenon DEF CallStates
<1>4. ASSUME NEW p, chain # <<>>, Resolve(p)
      PROVE  run'.attempt = 0 /\ \A c \in Callers : pc'[c] = "failed" => pc[c] = "failed"
  <2>1. Head(chain) \in Callers
    BY <1>4 DEF ChunkInv, ChunkTypeOK
  <2> QED BY <1>4, <2>1, ZenonT(30) DEF Resolve, IdleRun
<1>5. ASSUME Snapshot, chain # <<>>
      PROVE  /\ run'.attempt = 0 /\ lost' = lost
             /\ \A c \in Callers : pc'[c] = "failed" => pc[c] = "failed"
  BY <1>4, <1>5 DEF Snapshot, callVars
<1>6. run.stage # "idle" => chain # <<>>
  BY DEF ChunkInv, ChainInv
<1>7. CASE FlushStart
  <2>1. CASE run' = [run EXCEPT !.stage = "readdir"] /\ UNCHANGED <<callVars, diskVars>>
    BY <2>1 DEF FaultInv, callVars, diskVars
  <2>2. CASE Snapshot /\ UNCHANGED <<faults, blind>>
    BY <1>5, <1>7, <2>2 DEF FaultInv, FlushStart
  <2> QED BY <1>7, <2>1, <2>2 DEF FlushStart
<1>8. CASE FlushReadDir
  BY <1>5, <1>6, <1>8 DEF FaultInv, FlushReadDir
<1>9. CASE FlushReadDirFails
  BY <1>5, <1>6, <1>9 DEF FaultInv, FlushReadDirFails, Fault
<1>10. CASE FlushWriteTmp
  <2>1. run'.attempt = run.attempt /\ UNCHANGED <<faults, lost, blind, pc>>
    BY <1>10 DEF FlushWriteTmp, callVars, diskVars
  <2> QED BY <2>1 DEF FaultInv
<1>11. CASE FlushRename
  <2>1. run'.attempt = 0 /\ \A c \in Callers : pc'[c] = "failed" => pc[c] = "failed"
    BY <1>4, <1>6, <1>11, Zenon DEF FlushRename
  <2> QED BY <1>11, <2>1 DEF FaultInv, FlushRename
<1>12. CASE FlushRenameBusy \/ FlushRenameNoEnt
  <2>1. run' = [run EXCEPT !.attempt = run.attempt + 1] /\ faults' = faults + 1
        /\ UNCHANGED <<pc, lost, blind>>
    BY <1>12 DEF FlushRenameBusy, FlushRenameNoEnt, Fault, callVars
  <2>2. run'.attempt = run.attempt + 1
    BY <2>1, Zenon
  <2> QED BY <2>1, <2>2 DEF FaultInv
<1>13. CASE FlushFail
  <2>1. faults' > 0 /\ faults' \in Nat /\ faults' >= faults
    BY <1>13, ChunkWriterAssumption DEF FlushFail, Fault, FaultInv
  <2>2. run'.attempt = 0 /\ blind' = blind
    BY <1>13, Zenon DEF FlushFail, Reject, IdleRun
  <2> QED BY <2>1, <2>2 DEF FaultInv
<1>14. CASE UNCHANGED chunkVars
  BY <1>14 DEF FaultInv, chunkVars, writerVars, callVars, diskVars
<1> QED BY <1>3, <1>7, <1>8, <1>9, <1>10, <1>11, <1>12, <1>13, <1>14, ZenonT(30) DEF ChunkNext, FlushIO

(* Without a file-system error, and so without one that the retries of the *)
(* rename could not overcome, ChunkWriter.ts rejects no call and drops no  *)
(* line.                                                                   *)
THEOREM LossHasCause == ChunkSpec => []FaultInv
<1>1. ChunkInit => FaultInv
  BY DEF ChunkInit, FaultInv, IdleRun
<1>2. ChunkInv /\ FaultInv /\ [ChunkNext]_chunkVars => FaultInv'
  BY FaultNext
<1> QED BY <1>1, <1>2, ChunkInvariant, PTL DEF ChunkSpec

=============================================================================
