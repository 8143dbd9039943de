---------------------------- MODULE LogStoreProofs ----------------------------
(***************************************************************************)
(* Proofs about the log store, for any number of tasks: the chunk writer,  *)
(* the manifest, manifest.json and the reader behave as one append-only    *)
(* log whose chunks are parts of the directory and whose lines stay where  *)
(* they are.  The sessions are shown to take only steps of the store, and  *)
(* all of this holds of them.                                              *)
(***************************************************************************)
EXTENDS LogStore, ChunkWriterProofs

USE SMTT(30), Zenon   \* of every step that names no prover: SMT with 30 s, then Zenon

(* A step of the store is a step of the writer or leaves it alone. *)
LEMMA WriterSteps ==
  ASSUME [StoreNext]_storeVars
  PROVE  [ChunkNext]_chunkVars
<1>1. CASE WorkStep
  BY <1>1 DEF WorkStep, ChunkNext
<1>2. ASSUME NEW c \in Callers, CallStep(c) PROVE ChunkNext
  BY <1>2 DEF CallStep, CallAppend, CallFlush, ChunkNext
<1>3. ASSUME NEW c \in Callers, AddStep(c) \/ SaveStoreStep(c) \/ OpenStep(c)
      PROVE  UNCHANGED chunkVars
  BY <1>3 DEF AddStep, SaveStoreStep, OpenStep
<1>4. CASE UNCHANGED storeVars
  BY <1>4 DEF storeVars
<1> QED BY <1>1, <1>2, <1>3, <1>4 DEF StoreNext

(* The store uses the chunk writer as that component's specification       *)
(* allows: what is proved of the writer holds of the store.                *)
THEOREM StoreImplementsWriter == StoreSpec => ChunkSpec
<1>1. StoreInit => ChunkInit
  BY DEF StoreInit
<1>2. [StoreNext]_storeVars => [ChunkNext]_chunkVars
  BY WriterSteps
<1> QED BY <1>1, <1>2, PTL DEF StoreSpec, ChunkSpec

(* What is known of the writer. *)
WriterInv == ChunkInv /\ ReportInv /\ StreamInv /\ FaultInv

LEMMA WriterInvariant == StoreSpec => []WriterInv
<1>1. ChunkInv /\ ReportInv /\ StreamInv /\ FaultInv => WriterInv
  BY DEF WriterInv
<1> QED BY <1>1, StoreImplementsWriter, ChunkInvariant, ReportInvariant, StreamInvariant,
           LossHasCause, PTL

-----------------------------------------------------------------------------
(* addChunk's sort leaves a chunk that starts after all others last. *)
LEMMA InsertedLast ==
  ASSUME NEW cs \in Seq(Chunk), NEW meta \in Chunk,
         \A i \in 1..Len(cs) : cs[i].start <= meta.start
  PROVE  Inserted(cs, meta) = Append(cs, meta)
<1> DEFINE P(k) == /\ \A i \in 1..k : cs[i].start <= meta.start
                   /\ k < Len(cs) => cs[k + 1].start > meta.start
           k == CHOOSE k \in 0..Len(cs) : P(k)
<1>1. Len(cs) \in Nat /\ meta.start \in Nat /\ \A i \in 1..Len(cs) : cs[i].start \in Nat
  <2>1. \A x \in Chunk : x.start \in Nat
    BY DEF Chunk
  <2>2. Len(cs) \in Nat /\ \A i \in 1..Len(cs) : cs[i] \in Chunk
    OBVIOUS
  <2> QED BY <2>1, <2>2
<1>2. Len(cs) \in 0..Len(cs) /\ P(Len(cs))
  BY <1>1
<1>3. k \in 0..Len(cs) /\ P(k)
  <2> HIDE DEF P
  <2> QED BY <1>2
<1>4. k = Len(cs)
  <2>1. CASE k < Len(cs)
    <3>1. k + 1 \in 1..Len(cs) /\ cs[k + 1].start > meta.start
      BY <1>1, <1>3, <2>1
    <3> QED BY <1>1, <3>1
  <2> QED BY <1>1, <1>3, <2>1
<1>5. Inserted(cs, meta) = SubSeq(cs, 1, k) \o <<meta>> \o SubSeq(cs, k + 1, Len(cs))
  BY DEF Inserted
<1>6. SubSeq(cs, 1, Len(cs)) = cs /\ SubSeq(cs, Len(cs) + 1, Len(cs)) = <<>>
  BY <1>1
<1> HIDE DEF k
<1>7. <<meta>> \in Seq(Chunk) /\ cs \o <<meta>> \in Seq(Chunk)
  OBVIOUS
<1>8. cs \o <<meta>> = Append(cs, meta) /\ (cs \o <<meta>>) \o <<>> = cs \o <<meta>>
  BY <1>7
<1> QED BY <1>4, <1>5, <1>6, <1>8, Zenon

(* A chunk of a list has natural numbers in it. *)
LEMMA ChunkFields ==
  ASSUME NEW cs \in Seq(Chunk), NEW k \in 1..Len(cs)
  PROVE  cs[k].file \in Nat /\ cs[k].lines \in Nat /\ cs[k].start \in Nat
<1>1. cs[k] \in Chunk
  OBVIOUS
<1> QED BY <1>1 DEF Chunk

(* The end of a chunk list is a natural number, and that of its last chunk. *)
LEMMA MergedLinesType ==
  ASSUME NEW cs \in Seq(Chunk)
  PROVE  /\ MergedLinesOf(cs) \in Nat
         /\ Len(cs) > 0 => MergedLinesOf(cs) = cs[Len(cs)].start + cs[Len(cs)].lines
         /\ Len(cs) = 0 => MergedLinesOf(cs) = 0
<1>1. CASE cs = <<>>
  BY <1>1 DEF MergedLinesOf
<1>2. CASE cs # <<>>
  <2>1. Len(cs) \in 1..Len(cs)
    BY <1>2
  <2>2. cs[Len(cs)].start \in Nat /\ cs[Len(cs)].lines \in Nat
    BY <2>1, ChunkFields
  <2> QED BY <1>2, <2>1, <2>2 DEF MergedLinesOf
<1> QED BY <1>1, <1>2

(* No chunk of a list that tiles its lines ends after the list. *)
LEMMA TiledEnds ==
  ASSUME NEW cs \in Seq(Chunk), Tiled(cs), NEW k \in 1..Len(cs)
  PROVE  cs[k].start + cs[k].lines <= MergedLinesOf(cs)
<1> DEFINE z == Len(cs)
<1>1. z \in 1..z /\ z \in Nat
  OBVIOUS
<1>2. /\ cs[k].start \in Nat /\ cs[k].lines \in Nat
      /\ cs[z].start \in Nat /\ cs[z].lines \in Nat
  BY <1>1, ChunkFields
<1>3. MergedLinesOf(cs) = cs[z].start + cs[z].lines
  BY <1>1, MergedLinesType
<1>4. k < z => cs[k].start + cs[k].lines <= cs[z].start
  BY <1>1 DEF Tiled
<1>5. CASE k < z
  BY <1>2, <1>3, <1>4, <1>5
<1>6. CASE k = z
  BY <1>2, <1>3, <1>6
<1> QED BY <1>1, <1>5, <1>6

(* A list that tiles its lines still does with a chunk at its end. *)
LEMMA TiledAppend ==
  ASSUME NEW cs \in Seq(Chunk), Tiled(cs), NEW x \in Chunk, x.start = MergedLinesOf(cs)
  PROVE  /\ Tiled(Append(cs, x))
         /\ MergedLinesOf(Append(cs, x)) = MergedLinesOf(cs) + x.lines
<1> DEFINE z == Len(cs)
           ds == Append(cs, x)
           m  == MergedLinesOf(cs)
<1>1. /\ z \in Nat /\ ds \in Seq(Chunk) /\ Len(ds) = z + 1 /\ ds # <<>>
      /\ \A i \in 1..z : ds[i] = cs[i]
      /\ ds[z + 1] = x
  OBVIOUS
<1>2. x.start \in Nat /\ x.lines \in Nat /\ m \in Nat /\ x.start = m
  BY MergedLinesType DEF Chunk
<1>3. MergedLinesOf(ds) = m + x.lines
  BY <1>1, <1>2 DEF MergedLinesOf
<1>4. \A i \in 1..z : cs[i].start \in Nat /\ cs[i].lines \in Nat
                      /\ cs[i].start + cs[i].lines <= m
  BY ChunkFields, TiledEnds
<1>a. z = 0 => m = 0
  BY MergedLinesType, Zenon
<1>b. z > 0 => m = cs[z].start + cs[z].lines
  BY MergedLinesType
<1> HIDE DEF ds, z, m
<1>5. ds[1].start = 0
  <2>1. CASE z = 0
    BY <1>1, <1>2, <1>a, <2>1
  <2>2. CASE z # 0
    <3>1. 1 \in 1..z /\ cs # <<>>
      BY <1>1, <2>2 DEF z
    <3> QED BY <1>1, <3>1 DEF Tiled
  <2> QED BY <2>1, <2>2
<1>6. ASSUME NEW i \in 1..(Len(ds) - 1) PROVE ds[i + 1].start = ds[i].start + ds[i].lines
  <2>1. CASE i = z
    <3>1. z > 0 /\ i \in 1..z /\ ds[i] = cs[z] /\ ds[i + 1] = x
      BY <1>1, <1>6, <2>1
    <3> QED BY <1>2, <1>b, <3>1
  <2>2. CASE i # z
    <3>1. i \in 1..(z - 1) /\ i \in 1..z /\ i + 1 \in 1..z
      BY <1>1, <1>6, <2>2
    <3> QED BY <1>1, <3>1 DEF Tiled, z
  <2> QED BY <2>1, <2>2
<1>7. ASSUME NEW j \in 1..Len(ds), NEW k \in 1..Len(ds), j < k
      PROVE  ds[j].start + ds[j].lines <= ds[k].start
  <2>0. j \in 1..z /\ ds[j] = cs[j]
    BY <1>1, <1>7
  <2>1. CASE k = z + 1
    BY <1>1, <1>2, <1>4, <2>0, <2>1
  <2>2. CASE k # z + 1
    <3>1. k \in 1..z /\ ds[k] = cs[k]
      BY <1>1, <1>7, <2>2
    <3> QED BY <1>7, <2>0, <3>1 DEF Tiled, z
  <2> QED BY <2>1, <2>2
<1>8. ASSUME NEW i \in 1..MergedLinesOf(ds) PROVE \E k \in 1..Len(ds) : HasLine(ds[k], i)
  <2>1. CASE i > m
    <3>1. HasLine(ds[z + 1], i) /\ z + 1 \in 1..Len(ds)
      BY <1>1, <1>2, <1>3, <1>8, <2>1 DEF HasLine
    <3> QED BY <3>1
  <2>2. CASE ~(i > m)
    <3>1. i \in 1..MergedLinesOf(cs)
      BY <1>2, <1>3, <1>8, <2>2 DEF m
    <3>2. PICK k \in 1..Len(cs) : HasLine(cs[k], i)
      BY <3>1 DEF Tiled
    <3>3. k \in 1..Len(ds) /\ ds[k] = cs[k]
      BY <1>1, <3>2 DEF z
    <3> QED BY <3>2, <3>3
  <2> QED BY <2>1, <2>2
<1>9. Tiled(ds)
  BY <1>5, <1>6, <1>7, <1>8 DEF Tiled
<1> QED BY <1>3, <1>9 DEF ds, m

(* A line of a list that tiles its lines is in one of its chunks only. *)
LEMMA LineInOneChunk ==
  ASSUME NEW cs \in Seq(Chunk), Tiled(cs), NEW j \in 1..Len(cs), NEW k \in 1..Len(cs),
         NEW i \in Int, HasLine(cs[j], i), HasLine(cs[k], i)
  PROVE  j = k
<1>1. /\ cs[j].start \in Nat /\ cs[j].lines \in Nat
      /\ cs[k].start \in Nat /\ cs[k].lines \in Nat
  BY ChunkFields
<1>2. /\ j < k => cs[j].start + cs[j].lines <= cs[k].start
      /\ k < j => cs[k].start + cs[k].lines <= cs[j].start
  BY DEF Tiled
<1>3. /\ i > cs[j].start /\ i <= cs[j].start + cs[j].lines
      /\ i > cs[k].start /\ i <= cs[k].start + cs[k].lines
  BY <1>1 DEF HasLine
<1>4. ~(j < k) /\ ~(k < j)
  BY <1>1, <1>2, <1>3
<1> QED BY <1>4

-----------------------------------------------------------------------------
(* The chunk list tiles its lines and grows at its end, and every copy of  *)
(* it, the list that was found included, is a beginning of it.             *)
LogInv ==
  /\ StoreTypeOK
  /\ ManifestTiles
  /\ IsPrefixOf(LoadedChunks, chunks)
  /\ \A c \in Callers : IsPrefixOf(txt[c], chunks) /\ IsPrefixOf(opened[c], chunks)
  /\ DiskIsPrefix
  /\ ReaderIsPrefix

(* The store starts with the manifest that was found. *)
LEMMA LogInitInv == StoreInit => LogInv
<1> SUFFICES ASSUME StoreInit PROVE LogInv
  OBVIOUS
<1> USE StoreAssumption, LoadedAssumption DEF StoreInit, ManifestInit
<1>1. MergedLinesOf(LoadedChunks) \in Nat
  BY MergedLinesType
<1>2. StoreTypeOK
  BY <1>1 DEF StoreTypeOK, SaveStages
<1>3. ManifestTiles
  BY DEF ManifestTiles, MergedLines
<1>4. \A c \in Callers : IsPrefixOf(txt[c], chunks) /\ IsPrefixOf(opened[c], chunks)
  <2>1. \A c \in Callers : txt[c] = <<>> /\ opened[c] = <<>>
    BY Zenon
  <2>2. IsPrefixOf(<<>>, LoadedChunks)
    BY DEF IsPrefixOf
  <2> QED BY <2>1, <2>2, Zenon
<1>5. DiskIsPrefix /\ ReaderIsPrefix /\ IsPrefixOf(LoadedChunks, chunks)
  BY DEF DiskIsPrefix, ReaderIsPrefix, IsPrefixOf
<1> QED BY <1>2, <1>3, <1>4, <1>5 DEF LogInv

(* A beginning of a list is one of the list with a chunk appended. *)
LEMMA PrefixAppend ==
  ASSUME NEW s, Len(s) \in Nat, NEW t \in Seq(Chunk), NEW x \in Chunk, IsPrefixOf(s, t)
  PROVE  IsPrefixOf(s, Append(t, x))
<1>1. Len(Append(t, x)) = Len(t) + 1 /\ Len(t) \in Nat /\ \A i \in 1..Len(t) : Append(t, x)[i] = t[i]
  OBVIOUS
<1> QED BY <1>1 DEF IsPrefixOf

(* The whole list is a beginning of itself. *)
LEMMA PrefixSelf == ASSUME NEW s \in Seq(Chunk) PROVE IsPrefixOf(s, s)
BY DEF IsPrefixOf

(* One turn of the loop over the returned parts: a part with lines becomes *)
(* the last chunk, at the running total; an empty one is left out.         *)
LEMMA AddFacts ==
  ASSUME WriterInv, LogInv, NEW c \in Callers, AddPart(c)
  PROVE  LET p == results[c][added[c] + 1] IN
         /\ added[c] \in Nat /\ added[c] + 1 \in DOMAIN results[c]
         /\ \/ p.lines = 0 /\ UNCHANGED <<chunks, mergedSoFar>>
            \/ \E x \in Chunk :
                 /\ x = [file |-> p.file, lines |-> p.lines, start |-> mergedSoFar]
                 /\ p.lines > 0
                 /\ chunks' = Append(chunks, x)
                 /\ mergedSoFar' = mergedSoFar + x.lines
<1> DEFINE i == added[c] + 1
           p == results[c][i]
<1>1. /\ results[c] \in Seq(Part) /\ added[c] \in Nat /\ chunks \in Seq(Chunk)
      /\ mergedSoFar \in Nat /\ mergedSoFar = MergedLinesOf(chunks) /\ Tiled(chunks)
  BY DEF WriterInv, ChunkInv, ChunkTypeOK, LogInv, StoreTypeOK, ManifestTiles, MergedLines
<1>2. i \in DOMAIN results[c] /\ p \in Part
  BY <1>1 DEF AddPart
<1>3. AddChunk(p.file, p.lines, mergedSoFar) /\ mergedSoFar' = mergedSoFar + p.lines
  BY Zenon DEF AddPart
<1>4. p.file \in Nat /\ p.lines \in Nat
  BY <1>2 DEF Part
<1>5. p.lines > 0 => p.file > 0
  <2>1. p.lines > 0 => p.file \in DOMAIN parts
    BY <1>2 DEF WriterInv, ReportInv
  <2>2. DOMAIN parts \subseteq Nat \ {0}
    BY DEF WriterInv, ChunkInv, ChunkTypeOK
  <2>3. \A x \in Nat \ {0} : x > 0
    OBVIOUS
  <2> QED BY <2>1, <2>2, <2>3
<1> HIDE DEF p
<1>6. CASE p.lines > 0
  <2> DEFINE x == [file |-> p.file, lines |-> p.lines, start |-> mergedSoFar]
  <2>1. x \in Chunk /\ x.start = mergedSoFar /\ x.lines = p.lines
    BY <1>1, <1>4 DEF Chunk
  <2>2. chunks' = Inserted(chunks, x)
    BY <1>3, <1>5, <1>6 DEF AddChunk
  <2>3. \A k \in 1..Len(chunks) : chunks[k].start <= mergedSoFar
    <3> SUFFICES ASSUME NEW k \in 1..Len(chunks) PROVE chunks[k].start <= mergedSoFar
      OBVIOUS
    <3>1. chunks[k].start + chunks[k].lines <= mergedSoFar
      BY <1>1, TiledEnds
    <3>2. chunks[k].start \in Nat /\ chunks[k].lines \in Nat
      BY <1>1, ChunkFields
    <3> QED BY <1>1, <3>1, <3>2
  <2> HIDE DEF x
  <2>4. chunks' = Append(chunks, x)
    BY <1>1, <2>1, <2>2, <2>3, InsertedLast, Zenon
  <2> QED BY <1>1, <1>2, <1>3, <1>6, <2>1, <2>4 DEF x, p
<1>7. CASE p.lines = 0
  <2>1. chunks' = chunks /\ mergedSoFar' = mergedSoFar
    BY <1>1, <1>3, <1>7 DEF AddChunk
  <2> QED BY <1>1, <1>2, <1>7, <2>1, Zenon DEF p
<1> QED BY <1>4, <1>6, <1>7

(* The log part of the state, when a chunk joins the list. *)
LEMMA GrowInv ==
  ASSUME LogInv, NEW x \in Chunk, x.start = mergedSoFar, chunks' = Append(chunks, x),
         mergedSoFar' = mergedSoFar + x.lines, UNCHANGED <<saveVars, readerVars>>,
         added' \in [Callers -> Nat]
  PROVE  LogInv'
<1>0. StoreTypeOK /\ UNCHANGED <<savePc, txt, disk, opened, reader>>
  BY DEF LogInv, saveVars, readerVars
<1>1. /\ chunks \in Seq(Chunk) /\ mergedSoFar \in Nat /\ x.lines \in Nat
      /\ chunks' \in Seq(Chunk) /\ mergedSoFar' \in Nat
  BY <1>0 DEF StoreTypeOK, Chunk
<1>2. StoreTypeOK'
  BY <1>0, <1>1, Zenon DEF StoreTypeOK
<1>3. ManifestTiles'
  <2>1. mergedSoFar = MergedLinesOf(chunks) /\ Tiled(chunks)
    BY DEF LogInv, ManifestTiles, MergedLines
  <2>2. Tiled(Append(chunks, x)) /\ MergedLinesOf(Append(chunks, x)) = mergedSoFar + x.lines
    BY <1>1, <2>1, TiledAppend
  <2>3. Tiled(chunks') /\ mergedSoFar' = MergedLinesOf(chunks')
    BY <2>2
  <2>4. Tiled(chunks)' /\ MergedLines' = MergedLinesOf(chunks')
    BY <2>3, Zenon DEF Tiled, HasLine, MergedLinesOf, MergedLines
  <2> QED BY <2>3, <2>4 DEF ManifestTiles
<1>4. IsPrefixOf(LoadedChunks, chunks')
  <2>1. Len(LoadedChunks) \in Nat
    BY LoadedAssumption
  <2> QED BY <1>1, <2>1, PrefixAppend DEF LogInv
<1>5. \A c \in Callers : IsPrefixOf(txt'[c], chunks') /\ IsPrefixOf(opened'[c], chunks')
  <2> SUFFICES ASSUME NEW c \in Callers
               PROVE  IsPrefixOf(txt[c], chunks') /\ IsPrefixOf(opened[c], chunks')
    BY <1>0
  <2>1. Len(txt[c]) \in Nat /\ Len(opened[c]) \in Nat
    BY <1>0 DEF StoreTypeOK
  <2> QED BY <1>1, <2>1, PrefixAppend, Zenon DEF LogInv
<1>6. DiskIsPrefix'
  <2> SUFFICES ASSUME disk # Torn PROVE IsPrefixOf(disk, chunks')
    BY <1>0 DEF DiskIsPrefix
  <2>1. Len(disk) \in Nat
    BY <1>0 DEF StoreTypeOK
  <2> QED BY <1>1, <2>1, PrefixAppend DEF LogInv, DiskIsPrefix
<1>7. ReaderIsPrefix'
  <2> SUFFICES ASSUME reader # NoReader PROVE IsPrefixOf(reader, chunks')
    BY <1>0 DEF ReaderIsPrefix
  <2>1. Len(reader) \in Nat
    BY <1>0 DEF StoreTypeOK
  <2> QED BY <1>1, <2>1, PrefixAppend DEF LogInv, ReaderIsPrefix
<1> QED BY <1>2, <1>3, <1>4, <1>5, <1>6, <1>7, Zenon DEF LogInv, IsPrefixOf

(* The log part of the state, when the list stays as it is. *)
LEMMA CopyInv ==
  ASSUME LogInv, UNCHANGED <<chunks, mergedSoFar>>,
         savePc' \in [Callers -> SaveStages], added' \in [Callers -> Nat],
         NEW c \in Callers,
         txt' \in {txt, [txt EXCEPT ![c] = chunks]},
         disk' \in {disk, Torn, txt[c]},
         \/ opened' \in {opened, [opened EXCEPT ![c] = <<>>]}
         \/ disk # Torn /\ opened' = [opened EXCEPT ![c] = disk],
         reader' \in {reader, opened[c]}
  PROVE  LogInv'
<1>0. StoreTypeOK /\ chunks \in Seq(Chunk) /\ IsPrefixOf(chunks, chunks) /\ IsPrefixOf(<<>>, chunks)
  <2>1. StoreTypeOK /\ chunks \in Seq(Chunk)
    BY Zenon DEF LogInv, StoreTypeOK
  <2> QED BY <2>1, PrefixSelf DEF IsPrefixOf
<1>1. /\ txt' \in [Callers -> Seq(Chunk)]
      /\ \A d \in Callers : IsPrefixOf(txt'[d], chunks)
  <2>1. txt \in [Callers -> Seq(Chunk)]
    BY <1>0 DEF StoreTypeOK
  <2>2. \A d \in Callers : txt'[d] = txt[d] \/ txt'[d] = chunks
    BY <2>1
  <2> QED BY <1>0, <2>1, <2>2, Zenon DEF LogInv
<1>2. /\ opened' \in [Callers -> Seq(Chunk)]
      /\ \A d \in Callers : IsPrefixOf(opened'[d], chunks)
  <2>1. /\ opened \in [Callers -> Seq(Chunk)] /\ <<>> \in Seq(Chunk)
        /\ disk # Torn => disk \in Seq(Chunk) /\ IsPrefixOf(disk, chunks)
    BY <1>0 DEF LogInv, StoreTypeOK, DiskIsPrefix
  <2>2. \A d \in Callers : \/ opened'[d] = opened[d] \/ opened'[d] = <<>>
                           \/ disk # Torn /\ opened'[d] = disk
    BY <2>1
  <2> QED BY <1>0, <2>1, <2>2, Zenon DEF LogInv
<1>3. /\ disk' \in Seq(Chunk) \cup {Torn}
      /\ disk' # Torn => IsPrefixOf(disk', chunks)
  BY <1>0 DEF LogInv, StoreTypeOK, DiskIsPrefix
<1>4. /\ reader' \in Seq(Chunk) \cup {NoReader}
      /\ reader' # NoReader => IsPrefixOf(reader', chunks)
  BY <1>0 DEF LogInv, StoreTypeOK, ReaderIsPrefix
<1>5. ManifestTiles'
  BY DEF LogInv, ManifestTiles, Tiled, HasLine, MergedLinesOf, MergedLines
<1>6. StoreTypeOK'
  BY <1>0, <1>1, <1>2, <1>3, <1>4 DEF StoreTypeOK
<1> QED BY <1>1, <1>2, <1>3, <1>4, <1>5, <1>6 DEF LogInv, IsPrefixOf, DiskIsPrefix, ReaderIsPrefix

(* What a step does to the log part of the state. *)
CopyStep(c) ==
  /\ UNCHANGED <<chunks, mergedSoFar>>
  /\ savePc' \in [Callers -> SaveStages] /\ added' \in [Callers -> Nat]
  /\ txt' \in {txt, [txt EXCEPT ![c] = chunks]}
  /\ disk' \in {disk, Torn, txt[c]}
  /\ \/ opened' \in {opened, [opened EXCEPT ![c] = <<>>]}
     \/ disk # Torn /\ opened' = [opened EXCEPT ![c] = disk]
  /\ reader' \in {reader, opened[c]}
  /\ disk' = disk \/ reader' = reader

GrowStep(x) ==
  /\ x.start = mergedSoFar /\ x.lines > 0
  /\ chunks' = Append(chunks, x)
  /\ mergedSoFar' = mergedSoFar + x.lines
  /\ UNCHANGED <<saveVars, readerVars>>
  /\ added' \in [Callers -> Nat]

(* Every step is of one of these kinds. *)
LEMMA LogKinds ==
  ASSUME WriterInv, LogInv, [StoreNext]_storeVars
  PROVE  \/ UNCHANGED <<chunks, mergedSoFar, txt, disk, opened, reader>>
            /\ savePc' \in [Callers -> SaveStages] /\ added' \in [Callers -> Nat]
         \/ \E c \in Callers : CopyStep(c)
         \/ \E x \in Chunk : GrowStep(x)
<1>0. savePc \in [Callers -> SaveStages] /\ added \in [Callers -> Nat]
  BY DEF LogInv, StoreTypeOK
<1>1. CASE WorkStep \/ UNCHANGED storeVars
  BY <1>0, <1>1 DEF WorkStep, storeVars, manifestVars, saveVars, readerVars
<1>2. ASSUME NEW c \in Callers, CallStep(c)
      PROVE  /\ UNCHANGED <<chunks, mergedSoFar, txt, disk, opened, reader>>
             /\ savePc' \in [Callers -> SaveStages] /\ added' \in [Callers -> Nat]
  <2>1. added' = [added EXCEPT ![c] = 0]
    BY <1>2 DEF CallStep, CallAppend, CallFlush
  <2> QED BY <1>0, <1>2, <2>1 DEF CallStep, manifestVars, saveVars, readerVars
<1>3. ASSUME NEW c \in Callers, AddStep(c)
      PROVE  \/ UNCHANGED <<chunks, mergedSoFar, txt, disk, opened, reader>>
                /\ savePc' \in [Callers -> SaveStages] /\ added' \in [Callers -> Nat]
             \/ \E x \in Chunk : GrowStep(x)
  <2>1. AddPart(c) /\ UNCHANGED <<saveVars, readerVars>>
    BY <1>3 DEF AddStep
  <2>2. added' \in [Callers -> Nat]
    <3>1. added' = [added EXCEPT ![c] = added[c] + 1]
      BY <2>1 DEF AddPart
    <3> QED BY <1>0, <3>1
  <2>3. \/ UNCHANGED <<chunks, mergedSoFar>>
        \/ \E x \in Chunk : /\ x.start = mergedSoFar /\ x.lines > 0
                            /\ chunks' = Append(chunks, x)
                            /\ mergedSoFar' = mergedSoFar + x.lines
    BY <2>1, AddFacts
  <2>4. CASE UNCHANGED <<chunks, mergedSoFar>>
    BY <1>0, <2>1, <2>2, <2>4 DEF saveVars, readerVars
  <2>5. ASSUME NEW x \in Chunk, x.start = mergedSoFar, x.lines > 0,
               chunks' = Append(chunks, x), mergedSoFar' = mergedSoFar + x.lines
        PROVE  GrowStep(x)
    BY <2>1, <2>2, <2>5 DEF GrowStep
  <2> QED BY <2>3, <2>4, <2>5
<1>4. ASSUME NEW c \in Callers, SaveStoreStep(c) PROVE CopyStep(c)
  <2>1. \E v \in SaveStages : savePc' = [savePc EXCEPT ![c] = v]
    BY <1>4 DEF SaveStoreStep, SaveSnapshot, SaveRename, SaveOverwrite, SaveRenameFails,
                SaveFails, SaveCall, SaveReturn, SaveStages
  <2>2. savePc' \in [Callers -> SaveStages]
    BY <1>0, <2>1
  <2>3. /\ chunks' = chunks
        /\ txt' \in {txt, [txt EXCEPT ![c] = chunks]}
        /\ disk' \in {disk, Torn, txt[c]}
    BY <1>4 DEF SaveStoreStep, SaveSnapshot, SaveRename, SaveOverwrite, SaveRenameFails,
                SaveFails, SaveCall, SaveReturn
  <2> QED BY <1>0, <1>4, <2>2, <2>3 DEF SaveStoreStep, CopyStep, readerVars
<1>5. ASSUME NEW c \in Callers, OpenStep(c) PROVE CopyStep(c)
  BY <1>0, <1>5 DEF OpenStep, ReadManifest, InstallReader, CopyStep, manifestVars, saveVars
<1> QED BY <1>1, <1>2, <1>3, <1>4, <1>5 DEF StoreNext

(* Every step preserves the log part of the invariant. *)
LEMMA LogNextInv ==
  ASSUME WriterInv, LogInv, [StoreNext]_storeVars
  PROVE  LogInv'
<1>1. CASE /\ UNCHANGED <<chunks, mergedSoFar, txt, disk, opened, reader>>
           /\ savePc' \in [Callers -> SaveStages] /\ added' \in [Callers -> Nat]
  BY <1>1 DEF LogInv, StoreTypeOK, ManifestTiles, Tiled, HasLine, MergedLinesOf, MergedLines,
              IsPrefixOf, DiskIsPrefix, ReaderIsPrefix
<1>2. ASSUME NEW c \in Callers, CopyStep(c) PROVE LogInv'
  BY <1>2, CopyInv DEF CopyStep
<1>3. ASSUME NEW x \in Chunk, GrowStep(x) PROVE LogInv'
  BY <1>3, GrowInv DEF GrowStep
<1> QED BY <1>1, <1>2, <1>3, LogKinds, Zenon

(* The writer and the log together. *)
StoreInv == WriterInv /\ LogInv

LEMMA StoreInvariant == StoreSpec => []StoreInv
<1>1. WriterInv /\ LogInv /\ [StoreNext]_storeVars => LogInv'
  BY LogNextInv
<1>2. WriterInv /\ LogInv => StoreInv
  BY DEF StoreInv
<1> QED BY <1>1, <1>2, WriterInvariant, LogInitInv, PTL DEF StoreSpec

(* The manifest, the running total and the reader keep their types. *)
THEOREM StoreTypeCorrect == StoreSpec => []StoreTypeOK
<1>1. StoreInv => StoreTypeOK
  BY DEF StoreInv, LogInv
<1> QED BY <1>1, StoreInvariant, PTL

(* However the tasks of a session interleave, its manifest covers the      *)
(* lines 0..mergedSoFar-1 without a gap or an overlap: every line number   *)
(* is in exactly one chunk.                                                *)
THEOREM ManifestAlwaysTiles == StoreSpec => []ManifestTiles
<1>1. StoreInv => ManifestTiles
  BY DEF StoreInv, LogInv
<1> QED BY <1>1, StoreInvariant, PTL

(* Whatever the order in which overlapping saves and opens complete, both  *)
(* manifest.json and the reader list a beginning of the chunk list.        *)
THEOREM CopiesArePrefixes == StoreSpec => [](DiskIsPrefix /\ ReaderIsPrefix)
<1>1. StoreInv => DiskIsPrefix /\ ReaderIsPrefix
  BY DEF StoreInv, LogInv
<1> QED BY <1>1, StoreInvariant, PTL

(* A beginning of the list is one of its versions. *)
LEMMA PrefixIsVersion ==
  ASSUME StoreTypeOK, NEW s \in Seq(Chunk), IsPrefixOf(s, chunks)
  PROVE  s \in Log!Versions
<1> DEFINE t == SubSeq(chunks, 1, Len(s))
<1>1. Len(s) \in 0..Len(chunks) /\ chunks \in Seq(Chunk) /\ \A i \in 1..Len(s) : s[i] = chunks[i]
  BY DEF IsPrefixOf, StoreTypeOK
<1>2. t \in Seq(Chunk) /\ Len(t) = Len(s) /\ \A i \in 1..Len(s) : t[i] = chunks[i]
  BY <1>1
<1> HIDE DEF t
<1>3. s = t
  BY <1>1, <1>2
<1> QED BY <1>1, <1>3, Zenon DEF t, Log!Versions

(* Every step of the store is a step of the append-only log, or none. *)
LEMMA LogSteps ==
  ASSUME StoreInv, [StoreNext]_storeVars
  PROVE  [Log!LogNext]_(Log!logVars)
<1>0. WriterInv /\ LogInv /\ StoreTypeOK
  BY DEF StoreInv, LogInv
<1>1. CASE UNCHANGED <<chunks, mergedSoFar, txt, disk, opened, reader>>
  BY <1>1 DEF Log!logVars
<1>2. ASSUME NEW x \in Chunk, GrowStep(x) PROVE Log!Extend
  <2>1. /\ Len(chunks') = Len(chunks) + 1
        /\ \A i \in 1..Len(chunks) : chunks'[i] = chunks[i]
        /\ chunks'[Len(chunks) + 1] = x
    BY <1>0, <1>2 DEF StoreTypeOK, GrowStep
  <2>2. x.start = Log!Total
    BY <1>0, <1>2 DEF GrowStep, LogInv, ManifestTiles, MergedLines, MergedLinesOf, Log!Total
  <2> QED BY <1>2, <2>1, <2>2 DEF Log!Extend, GrowStep, saveVars, readerVars
<1>3. ASSUME NEW c \in Callers, CopyStep(c) PROVE [Log!LogNext]_(Log!logVars)
  <2>1. /\ chunks' = chunks /\ disk' \in {txt[c], disk, Torn} /\ reader' \in {opened[c], reader}
        /\ disk' = disk \/ reader' = reader
    BY <1>3 DEF CopyStep
  <2>2. txt[c] \in Log!Versions /\ opened[c] \in Log!Versions
    BY <1>0, PrefixIsVersion DEF LogInv, StoreTypeOK
  <2> QED BY <2>1, <2>2 DEF Log!LogNext, Log!Save, Log!Open, Log!logVars
<1> QED BY <1>0, <1>1, <1>2, <1>3, LogKinds, Zenon DEF Log!LogNext

(* The store, with any number of tasks and any I/O error, implements the   *)
(* append-only log of MergedLog.                                           *)
THEOREM StoreImplementsLog == StoreSpec => ImplementsMergedLog
<1>1. StoreInit => Log!LogInit
  BY DEF StoreInit, ManifestInit, Log!LogInit
<1>2. StoreInv /\ [StoreNext]_storeVars => [Log!LogNext]_(Log!logVars)
  BY LogSteps
<1> QED BY <1>1, <1>2, StoreInvariant, PTL DEF StoreSpec, ImplementsMergedLog, Log!LogSpec

-----------------------------------------------------------------------------
(* The parts that a caller has been given and has not added yet. *)
Unlisted(c) == {i \in DOMAIN results[c] : i > added[c] /\ results[c][i].lines > 0}

(* A part of this session: its number has been passed, and its lines are   *)
(* lines of the stream.                                                    *)
OwnPart(n) == /\ n \in DOMAIN parts
              /\ n <= currentIndex
              /\ \A i \in DOMAIN parts[n] : parts[n][i] \in 1..emitted

(* The parts of the manifest, and with them the parts still to be added:   *)
(* no two of these are the same.                                           *)
FiledInv ==
  /\ ManifestPartsExist
  /\ \A k \in 1..Len(chunks) : k > Len(LoadedChunks) => OwnPart(chunks[k].file)
  /\ \A c \in Callers : \A i \in Unlisted(c) :
       /\ OwnPart(results[c][i].file)
       /\ \A d \in Callers : \A j \in Unlisted(d) :
            results[c][i].file = results[d][j].file => c = d /\ i = j
       /\ \A k \in 1..Len(chunks) : Sound(k) => chunks[k].file # results[c][i].file

(* What FiledInv says of a part that is still to be added. *)
LEMMA FiledApart ==
  ASSUME FiledInv, NEW c \in Callers, NEW i \in Unlisted(c)
  PROVE  /\ OwnPart(results[c][i].file)
         /\ \A d \in Callers : \A j \in Unlisted(d) :
              results[c][i].file = results[d][j].file => c = d /\ i = j
         /\ \A k \in 1..Len(chunks) : Sound(k) => chunks[k].file # results[c][i].file
BY ZenonT(30) DEF FiledInv

(* The chunks that were found list the parts that were found. *)
LEMMA FiledInit == StoreInit => FiledInv
<1> SUFFICES ASSUME StoreInit PROVE FiledInv
  OBVIOUS
<1>1. \A c \in Callers : Unlisted(c) = {}
  <2>1. \A c \in Callers : results[c] = <<>>
    BY Zenon DEF StoreInit, ChunkInit
  <2>2. DOMAIN <<>> = {}
    OBVIOUS
  <2> QED BY <2>1, <2>2, Zenon DEF Unlisted
<1> USE StoreAssumption, LoadedAssumption, ChunkWriterAssumption
    DEF StoreInit, ManifestInit, ChunkInit
<1>2. chunks = LoadedChunks
  BY ZenonT(30)
<1>3. ASSUME NEW k \in 1..Len(chunks)
      PROVE  /\ chunks[k].file \in DOMAIN parts
             /\ chunks[k].lines = Len(parts[chunks[k].file])
  <2> DEFINE n == chunks[k].file
  <2>1. n \in OldParts /\ chunks[k].lines = OldLines[n] /\ OldLines[n] \in Nat
    BY <1>2, <1>3, Zenon
  <2>2. parts[n] = [i \in 1..OldLines[n] |-> OldLine]
    BY <2>1, Zenon DEF OldPart
  <2>3. Len(parts[n]) = OldLines[n]
    BY <2>1, <2>2 DEF OldLine
  <2> QED BY <2>1, <2>3
<1>4. \A j, k \in 1..Len(chunks) : chunks[j].file = chunks[k].file => j = k
  BY <1>2
<1>5. \A k \in 1..Len(chunks) : ~(k > Len(LoadedChunks))
  BY <1>2
<1> QED BY <1>1, <1>3, <1>4, <1>5, Zenon DEF FiledInv, ManifestPartsExist

(* Steps of the writer: a part that is committed gets a number that no     *)
(* sound chunk lists and that no call has been given.                      *)
LEMMA FiledWriter ==
  ASSUME WriterInv, LogInv, FiledInv, [ChunkNext]_chunkVars, chunks' = chunks,
         \A c \in Callers : added'[c] = added[c] \/ results'[c] = <<>>
  PROVE  FiledInv'
<1> DEFINE Z == 1..Len(chunks)
           OwnNext(n) == /\ n \in DOMAIN parts'
                         /\ n <= currentIndex'
                         /\ \A i \in DOMAIN parts'[n] : parts'[n][i] \in 1..emitted'
<1>0. /\ results \in [Callers -> Seq(Part)] /\ currentIndex \in Nat /\ emitted \in Nat
      /\ run.buf \in Seq(Line) /\ chunks \in Seq(Chunk) /\ Len(LoadedChunks) \in Nat
      /\ \A c \in Callers : added[c] \in Nat
      /\ blind => blind'
  <2>1. emitted \in 0..NumLines /\ NumLines \in Nat
    BY ChunkWriterAssumption, Zenon DEF WriterInv, ChunkInv, ChunkTypeOK
  <2>2. emitted \in Nat
    BY <2>1
  <2>3. blind => blind'
    BY FaultNext, Zenon DEF WriterInv
  <2> QED BY <2>2, <2>3, LoadedAssumption DEF WriterInv, ChunkInv, ChunkTypeOK, LogInv, StoreTypeOK
<1>1. \A k \in Z : Sound(k)' => Sound(k)
  BY <1>0 DEF Sound
<1>2. emitted' \in Nat /\ emitted' >= emitted
  <2>1. emitted' = emitted \/ \E c \in Callers : \E first, last, n \in Nat : PushStep(c, first, last, n)
    BY StepKinds, Zenon DEF WriterInv, QuietStep, SnapshotStep, CommitStep, DropStep
  <2>2. ASSUME NEW c \in Callers, NEW first \in Nat, NEW last \in Nat, NEW n \in Nat,
               PushStep(c, first, last, n)
        PROVE  emitted' \in Nat /\ emitted' >= emitted
    <3>1. \/ emitted' = emitted
          \/ first = emitted + 1 /\ last = emitted' /\ first <= last + 1
      BY <2>2 DEF PushStep
    <3> QED BY <1>0, <3>1
  <2>3. CASE emitted' = emitted
    BY <1>0, <2>3
  <2> QED BY <2>1, <2>2, <2>3
<1>3. CASE ~\E m \in Nat : CommitStep(m)
  <2>1. /\ parts' = parts /\ currentIndex' \in Nat /\ currentIndex' >= currentIndex
        /\ \A c \in Callers : \/ results'[c] = results[c]
                              \/ results'[c] = <<>>
                              \/ results'[c] = Append(results[c], EmptyPart)
    <3>1. \/ \E c \in Callers : \E first, last, n \in Nat : PushStep(c, first, last, n)
          \/ QuietStep \/ SnapshotStep
          \/ \E c \in Callers : DropStep(c)
      BY <1>3, StepKinds, Zenon DEF WriterInv
    <3>2. ASSUME NEW c \in Callers, NEW first \in Nat, NEW last \in Nat, NEW n \in Nat,
                 PushStep(c, first, last, n)
          PROVE  /\ parts' = parts /\ currentIndex' = currentIndex
                 /\ \A d \in Callers : results'[d] = results[d] \/ results'[d] = <<>>
      BY <3>2, Zenon DEF PushStep
    <3>3. ASSUME NEW c \in Callers, DropStep(c)
          PROVE  parts' = parts /\ currentIndex' = currentIndex /\ results' = results
      BY <3>3, Zenon DEF DropStep
    <3>4. currentIndex \in Nat /\ currentIndex >= currentIndex
      BY <1>0
    <3> QED BY <3>1, <3>2, <3>3, <3>4, Zenon DEF QuietStep, SnapshotStep
  <2>2. \A n \in Nat : OwnPart(n) => OwnNext(n)
    BY <1>0, <1>2, <2>1 DEF OwnPart
  <2>3. ASSUME NEW c \in Callers
        PROVE  /\ Unlisted(c)' \subseteq Unlisted(c)
               /\ \A i \in Unlisted(c)' : results'[c][i] = results[c][i]
    <3> SUFFICES ASSUME NEW i \in Unlisted(c)'
                 PROVE  i \in Unlisted(c) /\ results'[c][i] = results[c][i]
      OBVIOUS
    <3>0. i \in DOMAIN results'[c] /\ i > added'[c] /\ results'[c][i].lines > 0
          /\ results[c] \in Seq(Part)
      BY <1>0, Zenon DEF Unlisted
    <3>1. CASE results'[c] = <<>>
      BY <3>0, <3>1
    <3>2. CASE results'[c] = results[c]
      BY <3>0, <3>1, <3>2, Zenon DEF Unlisted
    <3>3. CASE results'[c] = Append(results[c], EmptyPart)
      <4>1. /\ i \in 1..(Len(results[c]) + 1) /\ Len(results[c]) \in Nat
            /\ results'[c][Len(results[c]) + 1] = EmptyPart
            /\ \A j \in 1..Len(results[c]) : results'[c][j] = results[c][j]
            /\ DOMAIN results[c] = 1..Len(results[c])
        BY <3>0, <3>3
      <4>2. i # Len(results[c]) + 1
        BY <3>0, <4>1 DEF EmptyPart
      <4>3. i \in 1..Len(results[c])
        BY <4>1, <4>2
      <4>4. results'[c] # <<>>
        BY <3>0, <3>3
      <4> QED BY <3>0, <4>1, <4>3, <4>4, Zenon DEF Unlisted
    <3> QED BY <2>1, <3>1, <3>2, <3>3, Zenon
  <2>4. ManifestPartsExist'
    <3>1. ManifestPartsExist
      BY Zenon DEF FiledInv
    <3> QED BY <1>1, <2>1, <3>1, Zenon DEF ManifestPartsExist
  <2>5. \A k \in 1..Len(chunks') : k > Len(LoadedChunks) => OwnNext(chunks'[k].file)
    <3> SUFFICES ASSUME NEW k \in 1..Len(chunks), k > Len(LoadedChunks)
                 PROVE  OwnNext(chunks[k].file)
      BY Zenon
    <3>1. OwnPart(chunks[k].file) /\ chunks[k].file \in Nat
      BY <1>0, ChunkFields, Zenon DEF FiledInv
    <3> QED BY <2>2, <3>1, Zenon
  <2>6. ASSUME NEW c \in Callers, NEW i \in Unlisted(c)'
        PROVE  /\ OwnNext(results'[c][i].file)
               /\ \A d \in Callers : \A j \in Unlisted(d)' :
                    results'[c][i].file = results'[d][j].file => c = d /\ i = j
               /\ \A k \in 1..Len(chunks') : Sound(k)' => chunks'[k].file # results'[c][i].file
    <3>1. i \in Unlisted(c) /\ results'[c][i] = results[c][i]
      BY <2>3, <2>6
    <3>2. results[c][i].file \in Nat
      <4>1. results[c][i] \in Part
        <5>1. i \in DOMAIN results[c] /\ results[c] \in Seq(Part)
          BY <1>0, <3>1, Zenon DEF Unlisted
        <5> QED BY <5>1
      <4> QED BY <4>1, Zenon DEF Part
    <3>3. OwnNext(results'[c][i].file)
      <4>1. OwnPart(results[c][i].file)
        BY <3>1, Zenon DEF FiledInv
      <4> QED BY <2>2, <3>1, <3>2, <4>1, Zenon
    <3>4. ASSUME NEW d \in Callers, NEW j \in Unlisted(d)', results'[c][i].file = results'[d][j].file
          PROVE  c = d /\ i = j
      <4>1. j \in Unlisted(d) /\ results'[d][j] = results[d][j]
        BY <2>3, Zenon
      <4>2. results[c][i].file = results[d][j].file
        BY <3>1, <3>4, <4>1, Zenon
      <4>3. i \in Unlisted(c)
        BY <3>1, Zenon
      <4>4. \A e \in Callers : \A l \in Unlisted(e) :
              results[c][i].file = results[e][l].file => c = e /\ i = l
        BY <4>3, FiledApart, ZenonT(40)
      <4> QED BY <4>1, <4>2, <4>4, Zenon
    <3>5. ASSUME NEW k \in 1..Len(chunks), Sound(k)' PROVE chunks[k].file # results'[c][i].file
      <4>1. chunks[k].file # results[c][i].file
        <5>1. Sound(k)
          BY <1>1, <3>5, Zenon
        <5>2. i \in Unlisted(c)
          BY <3>1, Zenon
        <5> QED BY <5>1, <5>2, FiledApart, ZenonT(40)
      <4> QED BY <3>1, <4>1, Zenon
    <3> QED BY <3>3, <3>4, <3>5, Zenon
  <2> QED BY <2>4, <2>5, <2>6, Zenon DEF FiledInv, OwnPart
<1>4. ASSUME NEW m \in Nat, CommitStep(m) PROVE FiledInv'
  <2> DEFINE q == [file |-> m, lines |-> Len(run.buf)]
  <2>1. /\ m = currentIndex + 1 /\ currentIndex' = m
        /\ m \in DOMAIN parts => blind
        /\ parts' = [k \in DOMAIN parts \cup {m} |-> IF k = m THEN run.buf ELSE parts[k]]
        /\ emitted' = emitted
    BY <1>4, Zenon DEF CommitStep
  <2>2. PICK h \in Callers : /\ \A d \in Callers : d # h => results'[d] = results[d]
                             /\ \/ results'[h] = Append(results[h], q)
                                \/ results'[h] = results[h]
    BY <1>4, Zenon DEF CommitStep
  <2>3. q \in Part /\ q.file = m
    BY <1>0 DEF Part
  <2>4. \A n \in Nat : n <= currentIndex => n # m
    BY <1>0, <2>1
  <2>5. \A n \in Nat : OwnPart(n) => OwnNext(n) /\ n # m /\ parts'[n] = parts[n]
    <3> SUFFICES ASSUME NEW n \in Nat, OwnPart(n)
                 PROVE  OwnNext(n) /\ n # m /\ parts'[n] = parts[n]
      OBVIOUS
    <3>1. n \in DOMAIN parts /\ n <= currentIndex /\ n # m
      BY <2>4, Zenon DEF OwnPart
    <3>2. n \in DOMAIN parts' /\ parts'[n] = parts[n] /\ n <= currentIndex'
      BY <1>0, <2>1, <3>1
    <3> QED BY <2>1, <3>1, <3>2, Zenon DEF OwnPart
  <2>6. OwnNext(m)
    <3>1. m \in DOMAIN parts' /\ parts'[m] = run.buf /\ m <= currentIndex'
      BY <1>0, <2>1
    <3>2. \A i \in DOMAIN run.buf : run.buf[i] \in 1..emitted
      BY Zenon DEF WriterInv, StreamInv, PlaceInv, Known
    <3> QED BY <2>1, <3>1, <3>2, Zenon DEF OwnPart
  <2>7. ASSUME NEW k \in Z, Sound(k)'
        PROVE  /\ Sound(k)
               /\ chunks[k].file # m
               /\ chunks[k].file \in DOMAIN parts'
               /\ parts'[chunks[k].file] = parts[chunks[k].file]
    <3>1. Sound(k) /\ chunks[k].file \in DOMAIN parts /\ chunks[k].file \in Nat
      BY <1>0, <1>1, <2>7, ChunkFields, Zenon DEF FiledInv, ManifestPartsExist
    <3>2. chunks[k].file # m
      <4>1. CASE k > Len(LoadedChunks)
        <5>1. OwnPart(chunks[k].file)
          BY <4>1, Zenon DEF FiledInv
        <5> QED BY <2>5, <3>1, <5>1, Zenon
      <4>2. CASE ~(k > Len(LoadedChunks))
        <5>1. ~blind
          BY <1>0, <2>7, <4>2, Zenon DEF Sound
        <5> QED BY <2>1, <3>1, <5>1, Zenon
      <4> QED BY <4>1, <4>2, Zenon
    <3> QED BY <2>1, <3>1, <3>2, Zenon
  <2>8. ASSUME NEW c \in Callers, NEW i \in Unlisted(c)'
        PROVE  \/ /\ i \in Unlisted(c) /\ results'[c][i] = results[c][i]
                  /\ results[c][i].file \in Nat
               \/ c = h /\ i = Len(results[h]) + 1 /\ results'[c][i].file = m
    <3>0. /\ i \in DOMAIN results'[c] /\ i > added'[c] /\ results'[c][i].lines > 0
          /\ results[c] \in Seq(Part) /\ results'[c] # <<>>
      BY <1>0, <2>8 DEF Unlisted
    <3>1. added'[c] = added[c]
      BY <3>0, Zenon
    <3>2. CASE results'[c] = results[c]
      <4>1. i \in Unlisted(c) /\ results'[c][i] = results[c][i] /\ results[c][i] \in Part
        <5>1. i \in Unlisted(c) /\ results'[c][i] = results[c][i] /\ i \in DOMAIN results[c]
          BY <3>0, <3>1, <3>2, Zenon DEF Unlisted
        <5> QED BY <3>0, <5>1
      <4> QED BY <4>1, Zenon DEF Part
    <3>3. CASE c = h /\ results'[h] = Append(results[h], q)
      <4> HIDE DEF q
      <4>1. /\ i \in 1..(Len(results[c]) + 1) /\ Len(results[c]) \in Nat
            /\ results'[c][Len(results[c]) + 1] = q
            /\ \A j \in 1..Len(results[c]) : results'[c][j] = results[c][j]
            /\ DOMAIN results[c] = 1..Len(results[c])
        BY <2>3, <3>0, <3>3
      <4>2. CASE i = Len(results[c]) + 1
        BY <2>3, <3>3, <4>1, <4>2, Zenon
      <4>3. CASE i # Len(results[c]) + 1
        <5>1. i \in 1..Len(results[c])
          BY <4>1, <4>3
        <5>2. i \in Unlisted(c) /\ results'[c][i] = results[c][i] /\ results[c][i] \in Part
          BY <3>0, <3>1, <4>1, <5>1 DEF Unlisted
        <5> QED BY <5>2 DEF Part
      <4> QED BY <4>2, <4>3, Zenon
    <3> QED BY <2>2, <3>2, <3>3, Zenon
  <2>9. ManifestPartsExist'
    <3>1. \A k \in Z : Sound(k)' => /\ chunks[k].file \in DOMAIN parts'
                                    /\ chunks[k].lines = Len(parts'[chunks[k].file])
      BY <2>7, Zenon DEF FiledInv, ManifestPartsExist
    <3>2. \A j, k \in Z : Sound(j)' /\ Sound(k)' /\ chunks[j].file = chunks[k].file => j = k
      BY <2>7, Zenon DEF FiledInv, ManifestPartsExist
    <3> QED BY <3>1, <3>2, Zenon DEF ManifestPartsExist
  <2>10. \A k \in 1..Len(chunks') : k > Len(LoadedChunks) => OwnNext(chunks'[k].file)
    <3> SUFFICES ASSUME NEW k \in 1..Len(chunks), k > Len(LoadedChunks)
                 PROVE  OwnNext(chunks[k].file)
      BY Zenon
    <3>1. OwnPart(chunks[k].file) /\ chunks[k].file \in Nat
      BY <1>0, ChunkFields, Zenon DEF FiledInv
    <3> QED BY <2>5, <3>1, Zenon
  <2>11. ASSUME NEW c \in Callers, NEW i \in Unlisted(c)'
         PROVE  /\ OwnNext(results'[c][i].file)
                /\ \A k \in 1..Len(chunks') : Sound(k)' => chunks'[k].file # results'[c][i].file
    <3>1. CASE i \in Unlisted(c) /\ results'[c][i] = results[c][i] /\ results[c][i].file \in Nat
      <4>1. OwnNext(results'[c][i].file)
        <5>1. OwnPart(results[c][i].file)
          BY <3>1, Zenon DEF FiledInv
        <5> QED BY <2>5, <3>1, <5>1, Zenon
      <4>2. \A k \in Z : Sound(k) => chunks[k].file # results[c][i].file
        BY <3>1, Zenon DEF FiledInv
      <4>3. \A k \in Z : Sound(k)' => chunks[k].file # results'[c][i].file
        BY <2>7, <3>1, <4>2, Zenon
      <4> QED BY <4>1, <4>3, Zenon
    <3>2. CASE results'[c][i].file = m
      <4>1. OwnNext(results'[c][i].file)
        BY <2>6, <3>2, ZenonT(30)
      <4> QED BY <2>7, <3>2, <4>1, Zenon
    <3> QED BY <2>8, <2>11, <3>1, <3>2, Zenon
  <2>12. ASSUME NEW c \in Callers, NEW i \in Unlisted(c)', NEW d \in Callers, NEW j \in Unlisted(d)',
                results'[c][i].file = results'[d][j].file
         PROVE  c = d /\ i = j
    <3>1. ASSUME NEW e \in Callers, NEW l \in Unlisted(e), results[e][l].file \in Nat
          PROVE  results[e][l].file # m
      <4>1. OwnPart(results[e][l].file)
        BY ZenonT(30) DEF FiledInv
      <4> QED BY <2>5, <3>1, <4>1, ZenonT(30)
    <3>2. CASE /\ i \in Unlisted(c) /\ results'[c][i] = results[c][i] /\ results[c][i].file \in Nat
               /\ j \in Unlisted(d) /\ results'[d][j] = results[d][j]
      <4>1. results[c][i].file = results[d][j].file
        BY <2>12, <3>2, Zenon
      <4>2. i \in Unlisted(c) /\ j \in Unlisted(d)
        BY <3>2, Zenon
      <4>3. \A e \in Callers : \A l \in Unlisted(e) :
              results[c][i].file = results[e][l].file => c = e /\ i = l
        BY <4>2, FiledApart
      <4> QED BY <4>1, <4>2, <4>3, Zenon
    <3> QED BY <2>8, <2>12, <3>1, <3>2
  <2>13. \A c \in Callers : \A i \in Unlisted(c)' :
           \A d \in Callers : \A j \in Unlisted(d)' :
             results'[c][i].file = results'[d][j].file => c = d /\ i = j
    BY <2>12, Zenon
  <2>14. \A c \in Callers : \A i \in Unlisted(c)' :
           /\ OwnNext(results'[c][i].file)
           /\ \A k \in 1..Len(chunks') : Sound(k)' => chunks'[k].file # results'[c][i].file
    BY <2>11, Zenon
  <2>15. \A n : OwnPart(n)' <=> OwnNext(n)
    BY Zenon DEF OwnPart
  <2> HIDE DEF OwnNext
  <2>16. \A k \in 1..Len(chunks') : k > Len(LoadedChunks) => OwnPart(chunks[k].file)'
    BY <2>10, <2>15, Zenon
  <2>17. \A c \in Callers : \A i \in Unlisted(c)' :
           /\ OwnPart(results[c][i].file)'
           /\ \A d \in Callers : \A j \in Unlisted(d)' :
                results'[c][i].file = results'[d][j].file => c = d /\ i = j
           /\ \A k \in 1..Len(chunks') : Sound(k)' => chunks'[k].file # results'[c][i].file
    BY <2>13, <2>14, <2>15
  <2> QED BY <2>9, <2>16, <2>17, ZenonT(30) DEF FiledInv
<1> QED BY <1>3, <1>4, Zenon

(* One turn of the loop over the returned parts: the part leaves those     *)
(* still to be added and becomes the last chunk.                           *)
LEMMA FiledAdd ==
  ASSUME WriterInv, LogInv, FiledInv, NEW c \in Callers, AddStep(c)
  PROVE  FiledInv'
<1> DEFINE a == added[c] + 1
           p == results[c][a]
<1>0. AddPart(c) /\ UNCHANGED <<results, parts, blind, currentIndex, emitted>>
  BY Zenon DEF AddStep, chunkVars, writerVars, callVars, diskVars
<1>1. /\ results \in [Callers -> Seq(Part)] /\ added \in [Callers -> Nat]
      /\ chunks \in Seq(Chunk) /\ Len(LoadedChunks) \in Nat /\ Len(LoadedChunks) <= Len(chunks)
  <2>1. /\ results \in [Callers -> Seq(Part)] /\ added \in [Callers -> Nat]
        /\ chunks \in Seq(Chunk) /\ IsPrefixOf(LoadedChunks, chunks)
    BY Zenon DEF WriterInv, ChunkInv, ChunkTypeOK, LogInv, StoreTypeOK
  <2>2. Len(LoadedChunks) \in Nat
    BY LoadedAssumption
  <2> QED BY <2>1, <2>2, Zenon DEF IsPrefixOf
<1>2. /\ \A n : OwnPart(n)' <=> OwnPart(n)
      /\ \A k : Sound(k)' <=> Sound(k)
  BY <1>0, Zenon DEF OwnPart, Sound
<1>3. /\ a \in DOMAIN results[c] /\ added[c] \in Nat
      /\ added' = [added EXCEPT ![c] = a]
  BY <1>0, AddFacts, Zenon DEF AddPart
<1>4. \A d \in Callers : Unlisted(d)' = IF d = c THEN Unlisted(d) \ {a} ELSE Unlisted(d)
  <2>1. \A d \in Callers : d # c => Unlisted(d)' = Unlisted(d)
    BY <1>0, <1>1, <1>3, ZenonT(30) DEF Unlisted
  <2>2. Unlisted(c)' = Unlisted(c) \ {a}
    <3>1. added'[c] = a /\ results'[c] = results[c] /\ DOMAIN results[c] \subseteq Nat
      BY <1>0, <1>1, <1>3
    <3>2. \A i \in Nat : i > a <=> (i > added[c] /\ i # a)
      BY <1>3
    <3> QED BY <3>1, <3>2, Zenon DEF Unlisted
  <2> QED BY <2>1, <2>2
<1>5. CASE UNCHANGED chunks
  <2>1. ManifestPartsExist'
    BY <1>0, <1>2, <1>5, ZenonT(30) DEF FiledInv, ManifestPartsExist
  <2>2. \A k \in 1..Len(chunks') : k > Len(LoadedChunks) => OwnPart(chunks[k].file)'
    BY <1>0, <1>5, Zenon DEF FiledInv, OwnPart
  <2>3. ASSUME NEW d \in Callers, NEW i \in Unlisted(d)'
        PROVE  /\ OwnPart(results[d][i].file)'
               /\ \A e \in Callers : \A j \in Unlisted(e)' :
                    results'[d][i].file = results'[e][j].file => d = e /\ i = j
               /\ \A k \in 1..Len(chunks') : Sound(k)' => chunks'[k].file # results'[d][i].file
    <3>1. \A e \in Callers : Unlisted(e)' \subseteq Unlisted(e)
      BY <1>4
    <3>2. i \in Unlisted(d)
      BY <3>1
    <3>3. OwnPart(results[d][i].file)'
      BY <1>0, <3>2, Zenon DEF FiledInv, OwnPart
    <3>4. /\ \A e \in Callers : \A j \in Unlisted(e) :
               results[d][i].file = results[e][j].file => d = e /\ i = j
          /\ \A k \in 1..Len(chunks) : Sound(k) => chunks[k].file # results[d][i].file
      BY <3>2, Zenon DEF FiledInv
    <3>5. results' = results /\ chunks' = chunks
      BY <1>0, <1>5, Zenon
    <3>6. \A e \in Callers : \A j \in Unlisted(e)' :
            results'[d][i].file = results'[e][j].file => d = e /\ i = j
      BY <3>1, <3>4, <3>5, Zenon
    <3>7. \A k \in 1..Len(chunks') : Sound(k)' => chunks'[k].file # results'[d][i].file
      BY <1>2, <3>4, <3>5, Zenon
    <3> QED BY <3>3, <3>6, <3>7, Zenon
  <2> QED BY <2>1, <2>2, <2>3, ZenonT(30) DEF FiledInv
<1>6. ASSUME NEW x \in Chunk, x.file = p.file, x.lines = p.lines, p.lines > 0,
             chunks' = Append(chunks, x)
      PROVE  FiledInv'
  <2> DEFINE z == Len(chunks) + 1
  <2>1. /\ Len(chunks') = z /\ z \in Nat /\ chunks'[z] = x
        /\ \A k \in 1..Len(chunks) : chunks'[k] = chunks[k]
        /\ \A k \in 1..z : k = z \/ k \in 1..Len(chunks)
        /\ z > Len(LoadedChunks)
    BY <1>1, <1>6
  <2>2. a \in Unlisted(c)
    <3>1. a > added[c]
      BY <1>3
    <3> QED BY <1>3, <1>6, <3>1, ZenonT(30) DEF Unlisted
  <2>3. /\ OwnPart(x.file) /\ x.file \in DOMAIN parts
        /\ x.lines = Len(parts[x.file])
        /\ \A k \in 1..Len(chunks) : Sound(k) => chunks[k].file # x.file
    <3>1. OwnPart(x.file) /\ x.file \in DOMAIN parts
      <4>1. OwnPart(results[c][a].file)
        BY <2>2, Zenon DEF FiledInv
      <4>2. x.file = results[c][a].file
        BY <1>6, Zenon
      <4> QED BY <4>1, <4>2, Zenon DEF OwnPart
    <3>2. x.lines = Len(parts[x.file])
      BY <1>3, <1>6, ZenonT(30) DEF WriterInv, ReportInv
    <3>3. \A k \in 1..Len(chunks) : Sound(k) => chunks[k].file # x.file
      BY <1>6, <2>2 DEF FiledInv
    <3> QED BY <3>1, <3>2, <3>3
  <2> HIDE DEF z
  <2>4. ManifestPartsExist'
    <3>1. \A k \in 1..z : Sound(k) => /\ chunks'[k].file \in DOMAIN parts
                                      /\ chunks'[k].lines = Len(parts[chunks'[k].file])
      BY <2>1, <2>3 DEF FiledInv, ManifestPartsExist
    <3>2. \A j, k \in 1..z : Sound(j) /\ Sound(k) /\ chunks'[j].file = chunks'[k].file => j = k
      BY <2>1, <2>3, ZenonT(40) DEF FiledInv, ManifestPartsExist
    <3> QED BY <1>0, <1>2, <2>1, <3>1, <3>2, ZenonT(30) DEF ManifestPartsExist
  <2>5. \A k \in 1..Len(chunks') : k > Len(LoadedChunks) => OwnPart(chunks[k].file)'
    <3>1. \A k \in 1..z : k > Len(LoadedChunks) => OwnPart(chunks'[k].file)
      BY <2>1, <2>3 DEF FiledInv
    <3> QED BY <1>0, <2>1, <3>1, Zenon DEF OwnPart
  <2>6. ASSUME NEW d \in Callers, NEW i \in Unlisted(d)'
        PROVE  /\ OwnPart(results[d][i].file)'
               /\ \A e \in Callers : \A j \in Unlisted(e)' :
                    results'[d][i].file = results'[e][j].file => d = e /\ i = j
               /\ \A k \in 1..Len(chunks') : Sound(k)' => chunks'[k].file # results'[d][i].file
    <3>1. \A e \in Callers : Unlisted(e)' \subseteq Unlisted(e)
      BY <1>4
    <3>2. i \in Unlisted(d) /\ ~(d = c /\ i = a)
      BY <1>4, <3>1
    <3>3. OwnPart(results[d][i].file)'
      BY <1>0, <3>2, ZenonT(30) DEF FiledInv, OwnPart
    <3>4. results[d][i].file # x.file
      <4>1. x.file = results[c][a].file
        BY <1>6, Zenon
      <4>2. \A e \in Callers : \A l \in Unlisted(e) :
              results[c][a].file = results[e][l].file => c = e /\ a = l
        BY <2>2, FiledApart
      <4> QED BY <3>2, <4>1, <4>2, Zenon
    <3>5. \A k \in 1..z : Sound(k) => chunks'[k].file # results[d][i].file
      BY <2>1, <3>2, <3>4 DEF FiledInv
    <3>6. \A e \in Callers : \A j \in Unlisted(e) :
            results[d][i].file = results[e][j].file => d = e /\ i = j
      BY <3>2, ZenonT(30) DEF FiledInv
    <3> QED BY <1>0, <1>2, <2>1, <3>1, <3>3, <3>5, <3>6, Zenon
  <2> QED BY <2>4, <2>5, <2>6, ZenonT(30) DEF FiledInv
<1>7. \/ UNCHANGED chunks
      \/ \E x \in Chunk : /\ x.file = p.file /\ x.lines = p.lines /\ p.lines > 0
                          /\ chunks' = Append(chunks, x)
  BY <1>0, AddFacts
<1> QED BY <1>5, <1>6, <1>7, Zenon

(* Every step keeps the manifest and the parts in agreement. *)
LEMMA FiledNext ==
  ASSUME StoreInv, FiledInv, [StoreNext]_storeVars
  PROVE  FiledInv'
<1>0. WriterInv /\ LogInv /\ [ChunkNext]_chunkVars
  BY WriterSteps, Zenon DEF StoreInv
<1>1. results \in [Callers -> Seq(Part)] /\ added \in [Callers -> Nat]
  BY <1>0 DEF WriterInv, ChunkInv, ChunkTypeOK, LogInv, StoreTypeOK
<1>2. CASE UNCHANGED <<chunks, added>>
  BY <1>0, <1>2, FiledWriter
<1>3. CASE WorkStep \/ UNCHANGED storeVars
  BY <1>2, <1>3 DEF WorkStep, storeVars, manifestVars
<1>4. ASSUME NEW c \in Callers, CallStep(c) PROVE FiledInv'
  <2>1. chunks' = chunks /\ added' = [added EXCEPT ![c] = 0] /\ results' = [results EXCEPT ![c] = <<>>]
    BY <1>4 DEF CallStep, CallAppend, CallFlush, AppendBatch, FlushRemainder, manifestVars
  <2>2. \A d \in Callers : added'[d] = added[d] \/ results'[d] = <<>>
    BY <1>1, <2>1
  <2> QED BY <1>0, <2>1, <2>2, FiledWriter, Zenon
<1>5. ASSUME NEW c \in Callers, AddStep(c) PROVE FiledInv'
  BY <1>0, <1>5, FiledAdd, Zenon
<1>6. ASSUME NEW c \in Callers, SaveStoreStep(c) \/ OpenStep(c) PROVE UNCHANGED <<chunks, added>>
  BY <1>6 DEF SaveStoreStep, OpenStep, SaveSnapshot, SaveRename, SaveOverwrite,
              SaveRenameFails, SaveFails, manifestVars
<1> QED BY <1>2, <1>3, <1>4, <1>5, <1>6 DEF StoreNext

LEMMA FiledInvariant == StoreSpec => []FiledInv
<1>1. StoreInv /\ FiledInv /\ [StoreNext]_storeVars => FiledInv'
  BY FiledNext
<1> QED BY <1>1, FiledInit, StoreInvariant, PTL DEF StoreSpec

(* The manifest never lists a part twice, and what it lists is in the      *)
(* directory with the lines it claims: a part gets a number that was never *)
(* used, is reported to one call, and is added by it once.                 *)
THEOREM ManifestPartsAlwaysExist == StoreSpec => []ManifestPartsExist
<1>1. FiledInv => ManifestPartsExist
  BY Zenon DEF FiledInv
<1> QED BY <1>1, FiledInvariant, PTL

-----------------------------------------------------------------------------
(* The chunk that a row of the log is read from. *)
ChunkOf(cs, i) == CHOOSE k \in DOMAIN cs : HasLine(cs[k], i)

(* Every line of a list that tiles its lines has a chunk, which lists it. *)
LEMMA ChunkOfLine ==
  ASSUME NEW cs \in Seq(Chunk), Tiled(cs), NEW i \in 1..MergedLinesOf(cs)
  PROVE  ChunkOf(cs, i) \in 1..Len(cs) /\ HasLine(cs[ChunkOf(cs, i)], i)
<1>1. \E k \in 1..Len(cs) : HasLine(cs[k], i)
  BY DEF Tiled
<1>2. DOMAIN cs = 1..Len(cs)
  OBVIOUS
<1> QED BY <1>1, <1>2, Zenon DEF ChunkOf

(* A line has the same chunk in a list and in a beginning of the list. *)
LEMMA PrefixLine ==
  ASSUME NEW s \in Seq(Chunk), NEW t \in Seq(Chunk), IsPrefixOf(s, t), Tiled(s), Tiled(t),
         NEW i \in 1..MergedLinesOf(s)
  PROVE  /\ i \in 1..MergedLinesOf(t)
         /\ ChunkOf(t, i) = ChunkOf(s, i)
         /\ ChunkOf(s, i) \in 1..Len(s)
         /\ HasLine(s[ChunkOf(s, i)], i)
         /\ t[ChunkOf(s, i)] = s[ChunkOf(s, i)]
<1> DEFINE k == ChunkOf(s, i)
<1>1. k \in 1..Len(s) /\ HasLine(s[k], i)
  BY ChunkOfLine
<1>2. k \in 1..Len(t) /\ t[k] = s[k]
  BY <1>1 DEF IsPrefixOf
<1>3. MergedLinesOf(s) \in Nat /\ MergedLinesOf(t) \in Nat /\ i \in Int
  BY MergedLinesType
<1>4. t[k].start + t[k].lines <= MergedLinesOf(t) /\ t[k].start \in Nat /\ t[k].lines \in Nat
  BY <1>2, TiledEnds, ChunkFields, Zenon
<1> HIDE DEF k
<1>5. i \in 1..MergedLinesOf(t)
  BY <1>1, <1>2, <1>3, <1>4 DEF HasLine
<1>6. ChunkOf(t, i) \in 1..Len(t) /\ HasLine(t[ChunkOf(t, i)], i)
  BY <1>5, ChunkOfLine
<1>7. ChunkOf(t, i) = k
  BY <1>1, <1>2, <1>3, <1>6, LineInOneChunk, Zenon
<1> QED BY <1>1, <1>2, <1>5, <1>7 DEF k

(* A beginning of a list that tiles its lines tiles its own. *)
LEMMA PrefixTiled ==
  ASSUME NEW s \in Seq(Chunk), NEW t \in Seq(Chunk), IsPrefixOf(s, t), Tiled(t)
  PROVE  Tiled(s)
<1>0. /\ Len(s) \in Nat /\ Len(t) \in Nat /\ Len(s) <= Len(t)
      /\ \A k \in 1..Len(s) : k \in 1..Len(t) /\ s[k] = t[k]
  BY DEF IsPrefixOf
<1>1. s # <<>> => s[1].start = 0
  <2>1. s # <<>> => 1 \in 1..Len(s) /\ t # <<>>
    BY <1>0
  <2> QED BY <1>0, <2>1 DEF Tiled
<1>2. \A k \in 1..(Len(s) - 1) : s[k + 1].start = s[k].start + s[k].lines
  <2>1. \A k \in 1..(Len(s) - 1) : k \in 1..Len(s) /\ k + 1 \in 1..Len(s) /\ k \in 1..(Len(t) - 1)
    BY <1>0
  <2> QED BY <1>0, <2>1, Zenon DEF Tiled
<1>3. \A j, k \in 1..Len(s) : j < k => s[j].start + s[j].lines <= s[k].start
  BY <1>0, Zenon DEF Tiled
<1>4. ASSUME NEW i \in 1..MergedLinesOf(s)
      PROVE  \E k \in 1..Len(s) : HasLine(s[k], i)
  <2> DEFINE z == Len(s)
  <2>1. MergedLinesOf(s) \in Nat /\ MergedLinesOf(t) \in Nat
    BY MergedLinesType, Zenon
  <2>2. z \in 1..z
    BY <1>0, <2>1, MergedLinesType
  <2>3. /\ MergedLinesOf(s) = t[z].start + t[z].lines /\ z \in 1..Len(t)
        /\ t[z].start \in Nat /\ t[z].lines \in Nat
    BY <1>0, <2>2, MergedLinesType, ChunkFields
  <2>4. MergedLinesOf(s) <= MergedLinesOf(t)
    BY <2>3, TiledEnds, Zenon
  <2>5. PICK k \in 1..Len(t) : HasLine(t[k], i)
    <3>1. i \in 1..MergedLinesOf(t)
      BY <2>1, <2>4
    <3> QED BY <3>1 DEF Tiled
  <2>6. t[k].start \in Nat /\ t[k].lines \in Nat
    BY ChunkFields, Zenon
  <2>7. ~(z < k)
    <3>1. z < k => t[z].start + t[z].lines <= t[k].start
      BY <2>3, Zenon DEF Tiled
    <3>2. i > t[k].start /\ i <= MergedLinesOf(s)
      BY <2>1, <2>5, <2>6 DEF HasLine
    <3> QED BY <2>1, <2>3, <2>6, <3>1, <3>2
  <2>8. k \in 1..z
    BY <1>0, <2>7
  <2> QED BY <1>0, <2>5, <2>8, Zenon
<1> QED BY <1>1, <1>2, <1>3, <1>4, Zenon DEF Tiled

(* The row that a reader gives is the one that the log has there. *)
LEMMA ReaderRow ==
  ASSUME LogInv, reader # NoReader, NEW i \in 1..MergedLinesOf(reader)
  PROVE  i \in 1..MergedLines /\ RowOf(reader, i) = RowOf(chunks, i)
<1>1. /\ reader \in Seq(Chunk) /\ chunks \in Seq(Chunk) /\ IsPrefixOf(reader, chunks)
      /\ Tiled(chunks)
  BY DEF LogInv, StoreTypeOK, ReaderIsPrefix, ManifestTiles
<1>2. Tiled(reader)
  BY <1>1, PrefixTiled, Zenon
<1>3. /\ i \in 1..MergedLinesOf(chunks) /\ ChunkOf(chunks, i) = ChunkOf(reader, i)
      /\ chunks[ChunkOf(reader, i)] = reader[ChunkOf(reader, i)]
  BY <1>1, <1>2, PrefixLine
<1> QED BY <1>3, Zenon DEF RowOf, ChunkOf, MergedLines

(* A step keeps the list that a row is found in, and the part it is in. *)
LEMMA RowKept ==
  ASSUME StoreInv, FiledInv, [StoreNext]_storeVars, NEW i \in 1..MergedLines
  PROVE  /\ i \in 1..MergedLines'
         /\ ~blind' \/ i > MergedLinesOf(LoadedChunks) => RowOf(chunks, i)' = RowOf(chunks, i)
<1> DEFINE k == ChunkOf(chunks, i)
           n == chunks[k].file
<1>0. WriterInv /\ LogInv /\ LogInv' /\ [ChunkNext]_chunkVars
  BY WriterSteps, LogNextInv DEF StoreInv
<1>1. /\ chunks \in Seq(Chunk) /\ chunks' \in Seq(Chunk) /\ Tiled(chunks) /\ Tiled(chunks')
      /\ IsPrefixOf(LoadedChunks, chunks)
  BY <1>0, Zenon DEF LogInv, StoreTypeOK, ManifestTiles, Tiled, MergedLinesOf, HasLine
<1>2. IsPrefixOf(chunks, chunks')
  <2>1. chunks' = chunks \/ \E x \in Chunk : chunks' = Append(chunks, x)
    BY <1>0, LogKinds, Zenon DEF CopyStep, GrowStep
  <2>2. Len(chunks) \in Nat /\ IsPrefixOf(chunks, chunks)
    BY <1>1, PrefixSelf
  <2> QED BY <1>1, <2>1, <2>2, PrefixAppend, Zenon
<1>3. /\ i \in 1..MergedLinesOf(chunks') /\ ChunkOf(chunks', i) = k
      /\ k \in 1..Len(chunks) /\ HasLine(chunks[k], i) /\ chunks'[k] = chunks[k]
  BY <1>1, <1>2, PrefixLine DEF MergedLines
<1>4. /\ RowOf(chunks, i)  = parts[chunks[k].file][i - chunks[k].start]
      /\ RowOf(chunks, i)' = parts'[chunks[k].file][i - chunks[k].start]
  BY <1>3, Zenon DEF RowOf, ChunkOf
<1>5. i > MergedLinesOf(LoadedChunks) => k > Len(LoadedChunks)
  <2>1. LoadedChunks \in Seq(Chunk) /\ Tiled(LoadedChunks) /\ Len(LoadedChunks) \in Nat
    BY LoadedAssumption
  <2>2. ASSUME k \in 1..Len(LoadedChunks) PROVE i <= MergedLinesOf(LoadedChunks)
    <3>1. LoadedChunks[k] = chunks[k]
      BY <1>1, <2>2 DEF IsPrefixOf
    <3>2. /\ chunks[k].start + chunks[k].lines <= MergedLinesOf(LoadedChunks)
          /\ chunks[k].start \in Nat /\ chunks[k].lines \in Nat
      BY <2>1, <2>2, <3>1, TiledEnds, ChunkFields, ZenonT(30)
    <3>3. MergedLinesOf(LoadedChunks) \in Nat
      BY <2>1, MergedLinesType
    <3> HIDE DEF k
    <3> QED BY <1>3, <3>2, <3>3 DEF HasLine
  <2>3. MergedLinesOf(LoadedChunks) \in Nat /\ MergedLines \in Nat
    BY <1>1, <2>1, MergedLinesType, ZenonT(30) DEF MergedLines
  <2> HIDE DEF k
  <2> QED BY <1>3, <2>1, <2>2, <2>3
<1>6. ASSUME ~blind' \/ k > Len(LoadedChunks)
      PROVE  n \in DOMAIN parts /\ parts'[n] = parts[n]
  <2>1. blind => blind'
    BY <1>0, FaultNext DEF WriterInv
  <2>2. Sound(k)
    BY <1>6, <2>1 DEF Sound
  <2>3. n \in DOMAIN parts /\ chunks[k].lines = Len(parts[n])
    BY <1>3, <2>2, ZenonT(30) DEF FiledInv, ManifestPartsExist
  <2>4. parts'[n] = parts[n] \/ (blind /\ IsOld(n))
    BY <1>0, <2>3, PartKept, ZenonT(30) DEF WriterInv
  <2>5. ASSUME blind, IsOld(n) PROVE FALSE
    <3>1. OwnPart(n)
      BY <1>3, <1>6, <2>1, <2>5, ZenonT(30) DEF FiledInv
    <3>2. parts[n] \in Seq(Line) /\ emitted \in Int
      <4>1. emitted \in 0..NumLines /\ NumLines \in Nat
        BY <1>0, ChunkWriterAssumption, Zenon DEF WriterInv, ChunkInv, ChunkTypeOK
      <4>2. emitted \in Int
        BY <4>1
      <4> QED BY <1>0, <2>3, <4>2, ZenonT(30) DEF WriterInv, ChunkInv, ChunkTypeOK
    <3>3. Len(parts[n]) > 0
      <4>1. chunks[k].start \in Nat /\ chunks[k].lines \in Nat
        BY <1>1, <1>3, ChunkFields, ZenonT(30)
      <4>2. MergedLines \in Nat
        BY <1>1, MergedLinesType, ZenonT(30) DEF MergedLines
      <4> HIDE DEF k
      <4> QED BY <1>3, <2>3, <4>1, <4>2 DEF HasLine
    <3>4. 1 \in DOMAIN parts[n]
      BY <3>2, <3>3
    <3>5. parts[n][1] \in 1..emitted
      BY <3>1, <3>4, ZenonT(30) DEF OwnPart
    <3>6. parts[n] = [j \in 1..OldLines[n] |-> 0]
      BY <2>5, ZenonT(30) DEF IsOld, OldPart, OldLine
    <3>7. parts[n][1] = 0
      BY <3>4, <3>6, Zenon
    <3> QED BY <3>2, <3>5, <3>7
  <2> QED BY <2>3, <2>4, <2>5, ZenonT(30)
<1> QED BY <1>3, <1>4, <1>5, <1>6, Zenon DEF MergedLines

(* The line at an index of the log stays there. *)
THEOREM RowsStay == StoreSpec => RowsKept
<1>1. StoreInv /\ FiledInv /\ [StoreNext]_storeVars =>
        [\A i \in 1..MergedLines :
           /\ i <= MergedLines'
           /\ ~blind' \/ i > MergedLinesOf(LoadedChunks) =>
                RowOf(chunks, i)' = RowOf(chunks, i)]_storeVars
  <2> SUFFICES ASSUME StoreInv, FiledInv, [StoreNext]_storeVars, NEW i \in 1..MergedLines
               PROVE  /\ i <= MergedLines'
                      /\ ~blind' \/ i > MergedLinesOf(LoadedChunks) =>
                           RowOf(chunks, i)' = RowOf(chunks, i)
    BY ZenonT(30)
  <2>1. MergedLines \in Nat
    BY MergedLinesType, ZenonT(30) DEF StoreInv, LogInv, StoreTypeOK, MergedLines
  <2>2. i \in 1..MergedLines' /\ i \in Int
    BY <2>1, RowKept
  <2>3. i <= MergedLines'
    BY <2>2
  <2> QED BY <2>3, RowKept
<1> QED BY <1>1, StoreInvariant, FiledInvariant, PTL DEF StoreSpec, RowsKept

=============================================================================
