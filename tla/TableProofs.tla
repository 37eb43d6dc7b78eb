----------------------------- MODULE TableProofs -----------------------------
(* Theorems about Table, for all types, values, chunk sizes and builds.        *)
EXTENDS TableRefinement, SequenceTheorems, TLAPS

\* The lemmas about concatenations; nothing here reasons about a loop.
INSTANCE SequenceLemmas WITH Step <- LAMBDA p, q, x, e : x, Holds <- LAMBDA p, q, x, k : TRUE

\* What the lemmas say of FlattenSeq.
LEMMA FlattenSeqIsFlatten == \A seqs : FlattenSeq(seqs) = Flatten(seqs)
BY Zenon DEF FlattenSeq, Flatten

LEMMA FlattenSeqType ==
    ASSUME NEW S, NEW seqs \in Seq(Seq(S))
    PROVE  FlattenSeq(seqs) \in Seq(S)
BY FlattenType, FlattenSeqIsFlatten, Zenon

LEMMA FlattenSeqAppend ==
    ASSUME NEW S, NEW seqs \in Seq(Seq(S)), NEW e \in Seq(S)
    PROVE  FlattenSeq(Append(seqs, e)) = FlattenSeq(seqs) \o e
BY FlattenAppend, FlattenSeqIsFlatten, Zenon

LEMMA FlattenSeqEmpty ==
    ASSUME NEW S, NEW seqs \in Seq(Seq(S))
    PROVE  FlattenSeq(seqs) = <<>> <=> \A i \in 1 .. Len(seqs) : seqs[i] = <<>>
BY FlattenEmpty, FlattenSeqIsFlatten, Zenon

LEMMA FlattenSeqExtend ==
    ASSUME NEW S, NEW s \in Seq(Seq(S)), s # <<>>, NEW e \in S
    PROVE  FlattenSeq([s EXCEPT ![Len(s)] = Append(s[Len(s)], e)]) = Append(FlattenSeq(s), e)
BY FlattenExtend, FlattenSeqIsFlatten, Zenon

LEMMA RangeIsElements == \A s : Range(s) = Elements(s)
BY Zenon DEF Range, Elements

LEMMA FlattenSeqRange ==
    ASSUME NEW S, NEW seqs \in Seq(Seq(S)), NEW j \in 1 .. Len(seqs)
    PROVE  Range(seqs[j]) \subseteq Range(FlattenSeq(seqs))
BY FlattenElements, FlattenSeqIsFlatten, RangeIsElements, Zenon

-----------------------------------------------------------------------------
(* The operators on segments and chunks.                                       *)

\* A new segment is empty, and only a known type gets a real one.
LEMMA NewSegmentFacts ==
    ASSUME NEW T \in TypeNames
    PROVE  /\ NewSegment(T) \in Segment
           /\ NewSegment(T).type = T
           /\ NewSegment(T).values = <<>>
           /\ NewSegment(T).kind = IF T \in DataTypes THEN "value" ELSE "null"
BY DEF NewSegment, Segment, Kinds

\* A fresh chunk has one empty new segment for each column.
LEMMA FreshChunkFacts ==
    ASSUME columnTypes \in Seq(TypeNames)
    PROVE  /\ FreshChunk \in Seq(Segment)
           /\ Len(FreshChunk) = Len(columnTypes)
           /\ \A i \in 1 .. Len(columnTypes) : FreshChunk[i] = NewSegment(columnTypes[i])
           /\ Size(FreshChunk) = 0
<1>1. \A i \in 1 .. Len(columnTypes) : columnTypes[i] \in TypeNames
  OBVIOUS
<1>2. \A i \in 1 .. Len(columnTypes) : NewSegment(columnTypes[i]) \in Segment
  BY <1>1, NewSegmentFacts
<1>3. FreshChunk = [i \in 1 .. Len(columnTypes) |-> NewSegment(columnTypes[i])]
  BY DEF FreshChunk
<1>4. FreshChunk \in Seq(Segment) /\ Len(FreshChunk) = Len(columnTypes)
  BY <1>2, <1>3
<1>5. Size(FreshChunk) = 0
  <2>1. CASE FreshChunk = <<>>
    BY <2>1 DEF Size
  <2>2. CASE FreshChunk # <<>>
    <3>1. FreshChunk[1] = NewSegment(columnTypes[1]) /\ columnTypes[1] \in TypeNames
      BY <1>1, <1>3, <1>4, <2>2
    <3> QED
      BY <2>2, <3>1, NewSegmentFacts DEF Size
  <2> QED
    BY <2>1, <2>2
<1> QED
  BY <1>3, <1>4, <1>5

\* Compressing a chunk changes the kinds of its segments and nothing else.
LEMMA CompressedFacts ==
    ASSUME NEW chunk \in Seq(Segment)
    PROVE  /\ Compressed(chunk) \in Seq(Segment)
           /\ Len(Compressed(chunk)) = Len(chunk)
           /\ \A i \in 1 .. Len(chunk) :
                /\ Compressed(chunk)[i].type = chunk[i].type
                /\ Compressed(chunk)[i].values = chunk[i].values
                /\ Compressed(chunk)[i].kind = IF chunk[i].kind = "null" THEN "null" ELSE "dictionary"
           /\ Size(Compressed(chunk)) = Size(chunk)
<1>1. \A i \in 1 .. Len(chunk) : chunk[i] \in Segment
  OBVIOUS
<1>2. Compressed(chunk) =
        [i \in 1 .. Len(chunk) |->
          IF chunk[i].kind = "null" THEN chunk[i] ELSE [chunk[i] EXCEPT !.kind = "dictionary"]]
  BY DEF Compressed
<1>3. ASSUME NEW i \in 1 .. Len(chunk)
      PROVE  /\ Compressed(chunk)[i] \in Segment
             /\ Compressed(chunk)[i].type = chunk[i].type
             /\ Compressed(chunk)[i].values = chunk[i].values
             /\ Compressed(chunk)[i].kind = IF chunk[i].kind = "null" THEN "null" ELSE "dictionary"
  <2>1. CASE chunk[i].kind = "null"
    BY <1>1, <1>2, <2>1
  <2>2. CASE chunk[i].kind # "null"
    <3>1. Compressed(chunk)[i] = [chunk[i] EXCEPT !.kind = "dictionary"]
      BY <1>2, <2>2
    <3>2. chunk[i] \in Segment
      BY <1>1
    <3> QED
      BY <2>2, <3>1, <3>2 DEF Segment, Kinds
  <2> QED
    BY <2>1, <2>2
<1>4. Compressed(chunk) \in Seq(Segment) /\ Len(Compressed(chunk)) = Len(chunk)
  BY <1>2, <1>3
<1>5. Size(Compressed(chunk)) = Size(chunk)
  BY <1>3, <1>4 DEF Size
<1> QED
  BY <1>3, <1>4, <1>5

\* A cell that is written is a value of its column's type.
LEMMA CastRowsFacts ==
    ASSUME NEW chunk \in Seq(Segment), IsTyped(chunk),
           NEW row \in Rows, NEW cells \in CastRows(chunk, row)
    PROVE  /\ DOMAIN cells = 1 .. Len(row) /\ Len(row) \in Nat
           /\ WrittenCells(chunk, cells) \subseteq 1 .. Len(chunk)
           /\ \A i \in WrittenCells(chunk, cells) :
                /\ chunk[i].kind = "value"
                /\ cells[i] \in AllTypeVariant
                /\ cells[i].type = chunk[i].type
<1>1. PICK n \in 0 .. MaxColumns : row \in [1 .. n -> Values]
  BY DEF Rows
<1>2. n \in Nat /\ DOMAIN row = 1 .. n /\ Len(row) = n
  BY <1>1, BoundsAssumption
<1>3. DOMAIN cells = 1 .. n
  BY <1>2 DEF CastRows
<1>4. ASSUME NEW i \in WrittenCells(chunk, cells)
      PROVE  /\ i \in 1 .. Len(chunk) /\ chunk[i].kind = "value"
             /\ cells[i] \in AllTypeVariant /\ cells[i].type = chunk[i].type
  <2>1. i \in 1 .. n /\ Writable(chunk, cells, i)
    BY <1>2, <1>3, <1>4 DEF WrittenCells
  <2>2. i \in 1 .. Len(chunk) /\ chunk[i].kind = "value" /\ cells[i] # BadCast
    BY <2>1 DEF Writable
  <2>3. chunk[i].type \in DataTypes
    BY <2>2 DEF IsTyped
  <2>4. row[i] \in AllTypeVariant
    BY <1>1, <2>1, ValuesAssumption
  <2>5. cells[i] \in TypeCast(chunk[i].type, row[i])
    BY <1>2, <2>1, <2>2 DEF CastRows
  <2> QED
    BY <2>2, <2>3, <2>4, <2>5, TypeCastType
<1> QED
  BY <1>2, <1>3, <1>4

\* Appending cells to a chunk lengthens the written columns by one and leaves the
\* others, their types and their kinds as they were.
LEMMA WithCellsFacts ==
    ASSUME NEW chunk \in Seq(Segment), IsTyped(chunk),
           NEW row \in Rows, NEW cells \in CastRows(chunk, row)
    PROVE  LET after == WithCells(chunk, cells)
               written == WrittenCells(chunk, cells)
           IN  /\ after \in Seq(Segment)
               /\ Len(after) = Len(chunk)
               /\ \A i \in 1 .. Len(chunk) :
                    /\ after[i].type = chunk[i].type
                    /\ after[i].kind = chunk[i].kind
                    /\ i \in written => /\ after[i].values = Append(chunk[i].values, cells[i])
                                       /\ Len(after[i].values) = Len(chunk[i].values) + 1
                    /\ i \notin written => after[i] = chunk[i]
<1> DEFINE after == WithCells(chunk, cells)
           written == WrittenCells(chunk, cells)
<1>1. after = [i \in 1 .. Len(chunk) |->
                IF i \in written THEN [chunk[i] EXCEPT !.values = Append(@, cells[i])]
                                 ELSE chunk[i]]
  BY DEF WithCells
<1>2. ASSUME NEW i \in 1 .. Len(chunk)
      PROVE  /\ after[i] \in Segment
             /\ after[i].type = chunk[i].type
             /\ after[i].kind = chunk[i].kind
             /\ i \in written => /\ after[i].values = Append(chunk[i].values, cells[i])
                                /\ Len(after[i].values) = Len(chunk[i].values) + 1
             /\ i \notin written => after[i] = chunk[i]
  <2>1. chunk[i] \in Segment
    OBVIOUS
  <2>2. CASE i \in written
    <3>1. cells[i] \in AllTypeVariant
      BY <2>2, CastRowsFacts
    <3> DEFINE longer == Append(chunk[i].values, cells[i])
    <3>2. chunk[i].values \in Seq(AllTypeVariant)
      BY <2>1 DEF Segment
    <3>3. longer \in Seq(AllTypeVariant) /\ Len(longer) = Len(chunk[i].values) + 1
      BY <3>1, <3>2
    <3>4. after[i] = [chunk[i] EXCEPT !.values = longer]
      BY <1>1, <2>2
    <3> HIDE DEF longer
    <3>5. /\ after[i] \in Segment
          /\ after[i].type = chunk[i].type
          /\ after[i].kind = chunk[i].kind
          /\ after[i].values = longer
      BY <2>1, <3>3, <3>4 DEF Segment
    <3> QED
      BY <2>2, <3>3, <3>5 DEF longer
  <2>3. CASE i \notin written
    BY <1>1, <2>1, <2>3
  <2> QED
    BY <2>2, <2>3
<1> HIDE DEF after, written
<1>3. after \in Seq(Segment) /\ Len(after) = Len(chunk)
  <2>1. DOMAIN after = 1 .. Len(chunk) /\ \A i \in 1 .. Len(chunk) : after[i] \in Segment
    BY <1>1, <1>2
  <2>2. after = [i \in 1 .. Len(chunk) |-> after[i]]
    BY <1>1, <2>1
  <2> QED
    BY <2>1, <2>2
<1> QED
  BY <1>2, <1>3 DEF after, written

\* append's chunks are the table's, followed by a fresh one if the last is full.
LEMMA ChunksWithRoomFacts ==
    ASSUME TypeOK
    PROVE  /\ LastChunk \in Seq(Segment)
           /\ ChunksWithRoom \in Seq(Seq(Segment))
           /\ Len(ChunksWithRoom) = IF LastChunkIsFull THEN Len(chunks) + 1 ELSE Len(chunks)
           /\ \A c \in 1 .. Len(chunks) : ChunksWithRoom[c] = chunks[c]
           /\ Last(ChunksWithRoom) = IF LastChunkIsFull THEN FreshChunk ELSE LastChunk
           /\ Last(ChunksWithRoom) = ChunksWithRoom[Len(ChunksWithRoom)]
           /\ Last(ChunksWithRoom) \in Seq(Segment)
<1>1. chunks \in Seq(Seq(Segment)) /\ chunks # <<>> /\ columnTypes \in Seq(TypeNames)
  BY DEF TypeOK
<1>2. Len(chunks) \in 1 .. Len(chunks) /\ LastChunk \in Seq(Segment)
  BY <1>1 DEF LastChunk
<1>3. FreshChunk \in Seq(Segment)
  BY <1>1, FreshChunkFacts
<1>4. CASE LastChunkIsFull
  <2>1. ChunksWithRoom = Append(chunks, FreshChunk)
    BY <1>4 DEF ChunksWithRoom
  <2> QED
    BY <1>1, <1>2, <1>3, <1>4, <2>1 DEF Last
<1>5. CASE ~LastChunkIsFull
  <2>1. ChunksWithRoom = chunks
    BY <1>5 DEF ChunksWithRoom
  <2> QED
    BY <1>1, <1>2, <1>5, <2>1 DEF Last, LastChunk
<1> QED
  BY <1>4, <1>5

\* A step gives the table a sequence of chunks, and each of them is an old chunk
\* that is unchanged, has got a column, has been compressed or has got a row, or
\* the fresh chunk, empty or with a row.
LEMMA ChunkCases ==
    ASSUME TypeOK, [Next]_vars
    PROVE  /\ \E n \in Nat \ {0} : DOMAIN chunks' = 1 .. n /\ chunks' = [c \in 1 .. n |-> chunks'[c]]
           /\ \A c \in DOMAIN chunks' :
                \/ c \in DOMAIN chunks /\ chunks'[c] = chunks[c]
                \/ /\ c \in DOMAIN chunks
                   /\ \E T \in TypeNames : AddColumn(T) /\ chunks'[c] = Append(chunks[c], NewSegment(T))
                \/ c \in DOMAIN chunks /\ chunks'[c] = Compressed(chunks[c])
                \/ chunks'[c] = FreshChunk /\ LastChunkIsFull /\ HasRoom
                \/ \E row \in Rows : \E cells \in CastRows(Last(ChunksWithRoom), row) :
                     AppendRow(row) /\ chunks'[c] = WithCells(Last(ChunksWithRoom), cells)
<1> DEFINE Changes(c) ==
             \/ c \in DOMAIN chunks /\ chunks'[c] = chunks[c]
             \/ /\ c \in DOMAIN chunks
                /\ \E T \in TypeNames : AddColumn(T) /\ chunks'[c] = Append(chunks[c], NewSegment(T))
             \/ c \in DOMAIN chunks /\ chunks'[c] = Compressed(chunks[c])
             \/ chunks'[c] = FreshChunk /\ LastChunkIsFull /\ HasRoom
             \/ \E row \in Rows : \E cells \in CastRows(Last(ChunksWithRoom), row) :
                  AppendRow(row) /\ chunks'[c] = WithCells(Last(ChunksWithRoom), cells)
           Changed == /\ \E n \in Nat \ {0} :
                           DOMAIN chunks' = 1 .. n /\ chunks' = [c \in 1 .. n |-> chunks'[c]]
                      /\ \A c \in DOMAIN chunks' : Changes(c)
<1>1. /\ chunks \in Seq(Seq(Segment)) /\ Len(chunks) \in Nat \ {0}
      /\ DOMAIN chunks = 1 .. Len(chunks)
  BY DEF TypeOK
<1>2. /\ ChunksWithRoom \in Seq(Seq(Segment)) /\ Len(ChunksWithRoom) \in Nat \ {0}
      /\ DOMAIN ChunksWithRoom = 1 .. Len(ChunksWithRoom)
      /\ \A c \in 1 .. Len(ChunksWithRoom) :
           \/ c \in DOMAIN chunks /\ ChunksWithRoom[c] = chunks[c]
           \/ ChunksWithRoom[c] = FreshChunk /\ LastChunkIsFull
  <2> DEFINE room == ChunksWithRoom
  <2>1. /\ room \in Seq(Seq(Segment))
        /\ Len(room) = IF LastChunkIsFull THEN Len(chunks) + 1 ELSE Len(chunks)
        /\ \A c \in 1 .. Len(chunks) : room[c] = chunks[c]
        /\ LastChunkIsFull => room[Len(room)] = FreshChunk
    BY ChunksWithRoomFacts
  <2> HIDE DEF room
  <2>2. Len(room) \in Nat \ {0} /\ DOMAIN room = 1 .. Len(room)
    BY <1>1, <2>1
  <2>3. ASSUME NEW c \in 1 .. Len(room)
        PROVE  \/ c \in DOMAIN chunks /\ room[c] = chunks[c]
               \/ room[c] = FreshChunk /\ LastChunkIsFull
    BY SMTT(30), <1>1, <2>1, <2>3
  <2> QED
    BY <2>1, <2>2, <2>3 DEF room
<1>3. ASSUME NEW T \in TypeNames, AddColumn(T) PROVE Changed
  <2>1. chunks' = [c \in DOMAIN chunks |-> Append(chunks[c], NewSegment(T))]
    BY <1>3 DEF AddColumn
  <2> QED
    BY <1>1, <1>3, <2>1
<1>4. ASSUME NEW row \in Rows, AppendArity(row) PROVE Changed
  <2>1. chunks' = ChunksWithRoom /\ HasRoom
    BY <1>4 DEF AppendArity
  <2> QED
    BY <1>2, <2>1
<1>5. ASSUME NEW row \in Rows, AppendRow(row) PROVE Changed
  <2> DEFINE n == Len(ChunksWithRoom)
             chunk == Last(ChunksWithRoom)
  <2>1. PICK cells \in CastRows(chunk, row) :
          chunks' = [ChunksWithRoom EXCEPT ![n] = WithCells(chunk, cells)]
    BY <1>5, Zenon DEF AppendRow
  <2>2. DOMAIN chunks' = 1 .. n /\ chunks' = [c \in 1 .. n |-> chunks'[c]]
    BY <1>2, <2>1
  <2>3. ASSUME NEW c \in 1 .. n PROVE Changes(c)
    <3>1. CASE c = n
      <4>1. chunks'[c] = WithCells(chunk, cells)
        BY <1>2, <2>1, <3>1
      <4> QED
        BY <1>5, <4>1
    <3>2. CASE c # n
      <4>1. chunks'[c] = ChunksWithRoom[c] /\ HasRoom
        BY <1>2, <1>5, <2>1, <3>2 DEF AppendRow
      <4> QED
        BY SMTT(30), <1>2, <4>1
    <3> QED
      BY <3>1, <3>2
  <2> QED
    BY <1>2, <2>2, <2>3
<1>6. ASSUME NEW d \in DOMAIN chunks, CompressChunk(d) PROVE Changed
  <2>1. chunks' = [chunks EXCEPT ![d] = Compressed(chunks[d])]
    BY <1>6 DEF CompressChunk
  <2>2. DOMAIN chunks' = DOMAIN chunks /\ chunks' = [c \in DOMAIN chunks |-> chunks'[c]]
    BY <1>1, <2>1
  <2>3. \A c \in DOMAIN chunks : chunks'[c] = chunks[c] \/ chunks'[c] = Compressed(chunks[c])
    BY <1>1, <2>1
  <2> QED
    BY <1>1, <2>2, <2>3
<1>7. CASE UNCHANGED chunks
  <2>1. DOMAIN chunks' = DOMAIN chunks /\ chunks' = [c \in DOMAIN chunks |-> chunks'[c]]
    BY <1>1, <1>7
  <2> QED
    BY <1>1, <1>7, <2>1
<1>8. \/ \E T \in TypeNames : AddColumn(T)
      \/ \E row \in Rows : AppendArity(row) \/ AppendRow(row)
      \/ \E d \in DOMAIN chunks : CompressChunk(d)
      \/ UNCHANGED chunks
  BY DEF Next, vars, AddColumnRefused, AddColumnThrows, AppendUndefined, AppendThrows,
         CompressNoChunk, CompressTerminates, ReadRow, ReadFails
<1> QED
  BY <1>3, <1>4, <1>5, <1>6, <1>7, <1>8

-----------------------------------------------------------------------------
(* The invariants that hold whatever the callers do.                           *)

\* Type correctness and typed columns go together: a cast to the type of a
\* column is a variant only because that type is known.
TypedInv == TypeOK /\ ColumnsAreTyped

\* A new table is typed: it has one chunk, which has no segments.
LEMMA TypedInit == Init => TypedInv
<1> SUFFICES ASSUME Init PROVE TypedInv
  OBVIOUS
<1>1. chunks = <<<<>>>> /\ columnTypes = <<>>
  BY DEF Init
<1>2. chunks \in Seq(Seq(Segment)) /\ chunks # <<>> /\ columnTypes \in Seq(TypeNames)
  BY <1>1
<1>3. TypeOK
  BY <1>2 DEF Init, TypeOK, Outcome
<1>4. ColumnsAreTyped
  BY <1>1 DEF ColumnsAreTyped, IsTyped
<1> QED
  BY <1>3, <1>4 DEF TypedInv

\* A typed table's fresh chunk is a chunk of typed segments.
LEMMA TypedFreshChunk ==
    ASSUME columnTypes \in Seq(TypeNames)
    PROVE  IsTyped(FreshChunk)
<1>1. ASSUME NEW i \in 1 .. Len(columnTypes)
      PROVE  /\ FreshChunk[i].kind # "null" => FreshChunk[i].type \in DataTypes
             /\ FreshChunk[i].values = <<>>
  <2>1. FreshChunk[i] = NewSegment(columnTypes[i]) /\ columnTypes[i] \in TypeNames
    BY FreshChunkFacts
  <2> QED
    BY <2>1, NewSegmentFacts
<1>2. DOMAIN FreshChunk = 1 .. Len(columnTypes)
  BY FreshChunkFacts
<1> QED
  BY <1>1, <1>2 DEF IsTyped

\* add_column leaves every chunk typed: the new segment has no values yet.
LEMMA TypedNewColumn ==
    ASSUME NEW chunk \in Seq(Segment), IsTyped(chunk), NEW T \in TypeNames
    PROVE  IsTyped(Append(chunk, NewSegment(T)))
<1> DEFINE after == Append(chunk, NewSegment(T))
<1>1. /\ DOMAIN after = 1 .. (Len(chunk) + 1)
      /\ \A i \in 1 .. Len(chunk) : after[i] = chunk[i]
      /\ after[Len(chunk) + 1] = NewSegment(T)
  OBVIOUS
<1> HIDE DEF after
<1>2. \A i \in DOMAIN after : i \in 1 .. Len(chunk) \/ after[i] = NewSegment(T)
  BY <1>1
<1> QED
  BY <1>1, <1>2, NewSegmentFacts DEF IsTyped, after

\* compress_chunk leaves the chunk typed: a value keeps its type in a dictionary.
LEMMA TypedCompressed ==
    ASSUME NEW chunk \in Seq(Segment), IsTyped(chunk)
    PROVE  IsTyped(Compressed(chunk))
<1>1. DOMAIN Compressed(chunk) = DOMAIN chunk
  BY DEF Compressed
<1>2. ASSUME NEW i \in DOMAIN chunk, Compressed(chunk)[i].kind # "null"
      PROVE  /\ Compressed(chunk)[i].type \in DataTypes
             /\ \A r \in DOMAIN Compressed(chunk)[i].values :
                  Compressed(chunk)[i].values[r].type = Compressed(chunk)[i].type
  <2>1. /\ chunk[i].kind # "null"
        /\ Compressed(chunk)[i].type = chunk[i].type
        /\ Compressed(chunk)[i].values = chunk[i].values
    BY <1>2, CompressedFacts
  <2> QED
    BY <2>1 DEF IsTyped
<1> QED
  BY <1>1, <1>2 DEF IsTyped

\* Chunk::append leaves the chunk typed: what it writes has been cast.
LEMMA TypedWithCells ==
    ASSUME NEW chunk \in Seq(Segment), IsTyped(chunk),
           NEW row \in Rows, NEW cells \in CastRows(chunk, row)
    PROVE  IsTyped(WithCells(chunk, cells))
<1> DEFINE after == WithCells(chunk, cells)
           written == WrittenCells(chunk, cells)
<1>1. DOMAIN after = DOMAIN chunk
  BY DEF WithCells
<1>2. ASSUME NEW i \in 1 .. Len(chunk), after[i].kind # "null"
      PROVE  /\ after[i].type \in DataTypes
             /\ \A r \in DOMAIN after[i].values : after[i].values[r].type = after[i].type
  <2>1. /\ after[i].type = chunk[i].type /\ chunk[i].type \in DataTypes
        /\ \A r \in DOMAIN chunk[i].values : chunk[i].values[r].type = chunk[i].type
    BY <1>2, WithCellsFacts DEF IsTyped
  <2>2. CASE i \notin written
    BY <2>1, <2>2, WithCellsFacts
  <2>3. CASE i \in written
    <3>1. after[i].values = Append(chunk[i].values, cells[i])
      BY <2>3, WithCellsFacts
    <3>2. cells[i].type = chunk[i].type
      BY <2>3, CastRowsFacts
    <3>3. chunk[i] \in Segment
      OBVIOUS
    <3>4. chunk[i].values \in Seq(AllTypeVariant)
      BY <3>3 DEF Segment
    <3> HIDE DEF after
    <3> QED
      BY <2>1, <3>1, <3>2, <3>4
  <2> QED
    BY <2>2, <2>3
<1> QED
  BY <1>1, <1>2 DEF IsTyped

\* No step makes a typed table untyped.
LEMMA TypedStep == TypedInv /\ [Next]_vars => TypedInv'
<1> SUFFICES ASSUME TypedInv, [Next]_vars PROVE TypedInv'
  OBVIOUS
<1>1. TypeOK /\ ColumnsAreTyped
  BY DEF TypedInv
<1>2. /\ chunks \in Seq(Seq(Segment)) /\ columnTypes \in Seq(TypeNames)
      /\ \A c \in DOMAIN chunks : chunks[c] \in Seq(Segment) /\ IsTyped(chunks[c])
  BY <1>1 DEF TypeOK, ColumnsAreTyped
<1>3. FreshChunk \in Seq(Segment) /\ IsTyped(FreshChunk)
  BY <1>2, FreshChunkFacts, TypedFreshChunk
<1>4. Last(ChunksWithRoom) \in Seq(Segment) /\ IsTyped(Last(ChunksWithRoom))
  <2>1. LastChunk \in Seq(Segment) /\ IsTyped(LastChunk)
    BY <1>1, <1>2 DEF LastChunk, TypeOK
  <2> QED
    BY <1>1, <1>3, <2>1, ChunksWithRoomFacts
<1>5. ASSUME NEW c \in DOMAIN chunks'
      PROVE  chunks'[c] \in Seq(Segment) /\ IsTyped(chunks'[c])
  <2>1. CASE c \in DOMAIN chunks /\ chunks'[c] = chunks[c]
    BY <1>2, <2>1
  <2>2. CASE c \in DOMAIN chunks /\ \E T \in TypeNames : chunks'[c] = Append(chunks[c], NewSegment(T))
    <3>1. PICK T \in TypeNames : chunks'[c] = Append(chunks[c], NewSegment(T))
      BY <2>2
    <3>2. chunks[c] \in Seq(Segment) /\ IsTyped(chunks[c]) /\ NewSegment(T) \in Segment
      BY <1>2, <2>2, NewSegmentFacts
    <3> QED
      BY <3>1, <3>2, TypedNewColumn
  <2>3. CASE c \in DOMAIN chunks /\ chunks'[c] = Compressed(chunks[c])
    BY <1>2, <2>3, CompressedFacts, TypedCompressed
  <2>4. CASE chunks'[c] = FreshChunk
    BY <1>3, <2>4
  <2>5. CASE \E row \in Rows : \E cells \in CastRows(Last(ChunksWithRoom), row) :
               chunks'[c] = WithCells(Last(ChunksWithRoom), cells)
    BY <1>4, <2>5, WithCellsFacts, TypedWithCells
  <2> QED
    BY <1>1, <2>1, <2>2, <2>3, <2>4, <2>5, ChunkCases
<1>6. chunks' \in Seq(Seq(Segment)) /\ chunks' # <<>>
  <2>1. PICK n \in Nat \ {0} : DOMAIN chunks' = 1 .. n /\ chunks' = [c \in 1 .. n |-> chunks'[c]]
    BY <1>1, ChunkCases
  <2> QED
    BY <1>5, <2>1
<1>7. ColumnsAreTyped'
  BY <1>5 DEF ColumnsAreTyped
<1>8. /\ debug' \in Builds /\ maximumChunkSize' \in MaxChunkSizes
      /\ columnTypes' \in Seq(TypeNames)
      /\ status' \in {"running", "terminated", "undefined"}
      /\ result'.outcome \in {"done", "thrown"}
  <2>1. CASE Next
    <3>1. UNCHANGED <<debug, maximumChunkSize>>
      BY <2>1
         DEF Next, AddColumnRefused, AddColumnThrows, AddColumn, AppendUndefined,
             AppendThrows, AppendArity, AppendRow, CompressNoChunk, CompressChunk,
             CompressTerminates, ReadRow, ReadFails
    <3>2. UNCHANGED columnTypes \/ \E T \in TypeNames : columnTypes' = Append(columnTypes, T)
      BY <2>1
         DEF Next, AddColumnRefused, AddColumnThrows, AddColumn, AppendUndefined,
             AppendThrows, AppendArity, AppendRow, CompressNoChunk, CompressChunk,
             CompressTerminates, ReadRow, ReadFails
    <3>3. status' \in {status, "terminated", "undefined"}
      BY <2>1
         DEF Next, AddColumnRefused, AddColumnThrows, AddColumn, AppendUndefined,
             AppendThrows, AppendArity, AppendRow, CompressNoChunk, CompressChunk,
             CompressTerminates, ReadRow, ReadFails
    <3>4. result' = result \/ \E call, row : result' \in {Outcome(call, "done", row), Outcome(call, "thrown", row)}
      BY <2>1
         DEF Next, AddColumnRefused, AddColumnThrows, AddColumn, AppendUndefined,
             AppendThrows, AppendArity, AppendRow, CompressNoChunk, CompressChunk,
             CompressTerminates, ReadRow, ReadFails
    <3>5. columnTypes' \in Seq(TypeNames)
      BY <1>2, <3>2
    <3>6. result'.outcome \in {"done", "thrown"}
      BY <1>1, <3>4 DEF TypeOK, Outcome
    <3> QED
      BY <1>1, <3>1, <3>3, <3>5, <3>6 DEF TypeOK
  <2>2. CASE UNCHANGED vars
    BY <1>1, <2>2 DEF TypeOK, vars
  <2> QED
    BY <2>1, <2>2
<1> QED
  BY <1>6, <1>7, <1>8 DEF TypedInv, TypeOK

\* The state of a table is always made of what its members can hold.
THEOREM TypeCorrect == Spec => []TypeOK
<1>1. TypedInv => TypeOK
  BY DEF TypedInv
<1> QED
  BY <1>1, TypedInit, TypedStep, PTL DEF Spec

\* Whatever is appended to a table, a column holds values of its own type only.
THEOREM ColumnsStayTyped == Spec => []ColumnsAreTyped
<1>1. TypedInv => ColumnsAreTyped
  BY DEF TypedInv
<1> QED
  BY <1>1, TypedInit, TypedStep, PTL DEF Spec

-----------------------------------------------------------------------------
(* Columns of descending length, and compressed segments on the left.          *)

\* What is needed of the chunks before and after a step: their types.
LEMMA TypedChunks ==
    ASSUME TypedInv
    PROVE  /\ TypeOK
           /\ \A c \in DOMAIN chunks : chunks[c] \in Seq(Segment) /\ IsTyped(chunks[c])
           /\ FreshChunk \in Seq(Segment) /\ IsTyped(FreshChunk)
           /\ Len(chunks) \in DOMAIN chunks
           /\ Last(ChunksWithRoom) \in Seq(Segment) /\ IsTyped(Last(ChunksWithRoom))
           /\ Last(ChunksWithRoom) = FreshChunk \/ Last(ChunksWithRoom) = chunks[Len(chunks)]
<1>1. /\ TypeOK /\ columnTypes \in Seq(TypeNames)
      /\ \A c \in DOMAIN chunks : chunks[c] \in Seq(Segment) /\ IsTyped(chunks[c])
      /\ Len(chunks) \in DOMAIN chunks
  BY DEF TypedInv, TypeOK, ColumnsAreTyped
<1>2. FreshChunk \in Seq(Segment) /\ IsTyped(FreshChunk)
  BY <1>1, FreshChunkFacts, TypedFreshChunk
<1>3. Last(ChunksWithRoom) = FreshChunk \/ Last(ChunksWithRoom) = chunks[Len(chunks)]
  BY <1>1, ChunksWithRoomFacts DEF LastChunk
<1> QED
  BY <1>1, <1>2, <1>3

\* Every segment of a fresh chunk is an empty new one.
LEMMA FreshSegments ==
    ASSUME TypedInv, NEW i \in DOMAIN FreshChunk
    PROVE  Len(FreshChunk[i].values) = 0 /\ FreshChunk[i].kind \in {"value", "null"}
<1>1. columnTypes \in Seq(TypeNames) /\ i \in 1 .. Len(columnTypes)
  BY FreshChunkFacts DEF TypedInv, TypeOK
<1>2. FreshChunk[i] = NewSegment(columnTypes[i]) /\ columnTypes[i] \in TypeNames
  BY <1>1, FreshChunkFacts
<1> QED
  BY <1>2, NewSegmentFacts

\* The segments of a chunk that has got a new column.
LEMMA NewColumnSegments ==
    ASSUME NEW chunk \in Seq(Segment), NEW T \in TypeNames
    PROVE  LET after == Append(chunk, NewSegment(T))
           IN  /\ DOMAIN after = 1 .. (Len(chunk) + 1)
               /\ \A i \in 1 .. Len(chunk) : after[i] = chunk[i]
               /\ Len(after[Len(chunk) + 1].values) = 0
               /\ after[Len(chunk) + 1].kind \in {"value", "null"}
<1>1. /\ NewSegment(T) \in Segment /\ Len(NewSegment(T).values) = 0
      /\ NewSegment(T).kind \in {"value", "null"}
  BY NewSegmentFacts
<1> QED
  BY <1>1

\* The length of a segment's values is a number.
LEMMA LengthType ==
    ASSUME NEW chunk \in Seq(Segment), NEW i \in DOMAIN chunk
    PROVE  Len(chunk[i].values) \in Nat /\ i \in 1 .. Len(chunk)
<1>1. chunk[i] \in Segment
  OBVIOUS
<1> QED
  BY <1>1 DEF Segment

\* An append writes to a prefix of the columns.
LEMMA WrittenIsPrefix ==
    ASSUME NEW chunk \in Seq(Segment), IsTyped(chunk),
           NEW row \in Rows, NEW cells \in CastRows(chunk, row),
           NEW j \in WrittenCells(chunk, cells), NEW i \in 1 .. j
    PROVE  i \in WrittenCells(chunk, cells)
<1>1. DOMAIN cells = 1 .. Len(row) /\ Len(row) \in Nat
  BY CastRowsFacts
<1> QED
  BY <1>1 DEF WrittenCells

\* Chunk::append keeps the lengths descending: it writes a prefix of the columns.
LEMMA DescendsWithCells ==
    ASSUME NEW chunk \in Seq(Segment), IsTyped(chunk), Descends(chunk),
           NEW row \in Rows, NEW cells \in CastRows(chunk, row)
    PROVE  Descends(WithCells(chunk, cells))
<1> DEFINE after == WithCells(chunk, cells)
           written == WrittenCells(chunk, cells)
<1>1. DOMAIN after = 1 .. Len(chunk)
  BY WithCellsFacts
<1>2. ASSUME NEW i \in 1 .. Len(chunk), NEW j \in 1 .. Len(chunk), i < j
      PROVE  Len(after[i].values) >= Len(after[j].values)
  <2>1. /\ Len(chunk[i].values) \in Nat /\ Len(chunk[j].values) \in Nat
        /\ Len(chunk[i].values) >= Len(chunk[j].values)
    BY <1>2, LengthType DEF Descends
  <2>2. j \in written => i \in written
    BY <1>2, WrittenIsPrefix
  <2>3. /\ Len(after[i].values) = IF i \in written THEN Len(chunk[i].values) + 1 ELSE Len(chunk[i].values)
        /\ Len(after[j].values) = IF j \in written THEN Len(chunk[j].values) + 1 ELSE Len(chunk[j].values)
    BY WithCellsFacts
  <2> HIDE DEF after, written
  <2> QED
    BY <2>1, <2>2, <2>3
<1> QED
  BY <1>1, <1>2 DEF Descends

\* No step makes a column longer than one on its left.
LEMMA DescendsStep == TypedInv /\ LengthsDescend /\ [Next]_vars => LengthsDescend'
<1> SUFFICES ASSUME TypedInv, LengthsDescend, [Next]_vars, NEW c \in DOMAIN chunks'
             PROVE  Descends(chunks'[c])
  BY DEF LengthsDescend
<1>1. \A d \in DOMAIN chunks : chunks[d] \in Seq(Segment) /\ Descends(chunks[d])
  BY TypedChunks DEF LengthsDescend
<1>2. Descends(FreshChunk)
  BY FreshSegments DEF Descends
<1>3. CASE c \in DOMAIN chunks /\ chunks'[c] = chunks[c]
  BY <1>1, <1>3
<1>4. CASE c \in DOMAIN chunks /\ \E T \in TypeNames : chunks'[c] = Append(chunks[c], NewSegment(T))
  <2>1. PICK T \in TypeNames : chunks'[c] = Append(chunks[c], NewSegment(T))
    BY <1>4
  <2> DEFINE chunk == chunks[c]
             after == Append(chunk, NewSegment(T))
  <2>2. chunk \in Seq(Segment) /\ Descends(chunk)
    BY <1>1, <1>4
  <2>3. /\ DOMAIN after = 1 .. (Len(chunk) + 1)
        /\ \A i \in 1 .. Len(chunk) : after[i] = chunk[i] /\ Len(chunk[i].values) \in Nat
        /\ Len(after[Len(chunk) + 1].values) = 0
    BY <2>2, NewColumnSegments, LengthType
  <2> HIDE DEF after, chunk
  <2>4. Descends(after)
    BY <2>2, <2>3 DEF Descends
  <2> QED
    BY <2>1, <2>4 DEF after, chunk
<1>5. CASE c \in DOMAIN chunks /\ chunks'[c] = Compressed(chunks[c])
  BY <1>1, <1>5, CompressedFacts DEF Descends
<1>6. CASE chunks'[c] = FreshChunk
  BY <1>2, <1>6
<1>7. CASE \E row \in Rows : \E cells \in CastRows(Last(ChunksWithRoom), row) :
             chunks'[c] = WithCells(Last(ChunksWithRoom), cells)
  BY <1>1, <1>2, <1>7, TypedChunks, DescendsWithCells
<1> QED
  BY <1>3, <1>4, <1>5, <1>6, <1>7, ChunkCases, TypedChunks

\* Whatever is called, and however it fails, no column of a chunk is longer than
\* one on its left, in any build: the size of a chunk is its longest column's.
THEOREM LengthsAlwaysDescend == Spec => []LengthsDescend
<1>1. Init => LengthsDescend
  BY DEF Init, LengthsDescend, Descends
<1> QED
  BY <1>1, DescendsStep, TypedInit, TypedStep, PTL DEF Spec

\* No step puts a segment that takes values on the left of a compressed one.
LEMMA OnTheLeftStep == TypedInv /\ CompressedOnTheLeft /\ [Next]_vars => CompressedOnTheLeft'
<1> SUFFICES ASSUME TypedInv, CompressedOnTheLeft, [Next]_vars, NEW c \in DOMAIN chunks'
             PROVE  IsCompressedOnTheLeft(chunks'[c])
  BY DEF CompressedOnTheLeft
<1>1. \A d \in DOMAIN chunks : chunks[d] \in Seq(Segment) /\ IsCompressedOnTheLeft(chunks[d])
  BY TypedChunks DEF CompressedOnTheLeft
<1>2. IsCompressedOnTheLeft(FreshChunk)
  BY FreshSegments DEF IsCompressedOnTheLeft
<1>3. CASE c \in DOMAIN chunks /\ chunks'[c] = chunks[c]
  BY <1>1, <1>3
<1>4. CASE c \in DOMAIN chunks /\ \E T \in TypeNames : chunks'[c] = Append(chunks[c], NewSegment(T))
  <2>1. PICK T \in TypeNames : chunks'[c] = Append(chunks[c], NewSegment(T))
    BY <1>4
  <2> DEFINE chunk == chunks[c]
             after == Append(chunk, NewSegment(T))
  <2>2. chunk \in Seq(Segment) /\ IsCompressedOnTheLeft(chunk)
    BY <1>1, <1>4
  <2>3. /\ DOMAIN after = 1 .. (Len(chunk) + 1)
        /\ \A i \in 1 .. Len(chunk) : after[i] = chunk[i]
        /\ after[Len(chunk) + 1].kind \in {"value", "null"}
    BY <2>2, NewColumnSegments
  <2> HIDE DEF after, chunk
  <2>4. IsCompressedOnTheLeft(after)
    BY <2>2, <2>3 DEF IsCompressedOnTheLeft
  <2> QED
    BY <2>1, <2>4 DEF after, chunk
<1>5. CASE c \in DOMAIN chunks /\ chunks'[c] = Compressed(chunks[c])
  BY <1>1, <1>5, CompressedFacts DEF IsCompressedOnTheLeft
<1>6. CASE chunks'[c] = FreshChunk
  BY <1>2, <1>6
<1>7. CASE \E row \in Rows : \E cells \in CastRows(Last(ChunksWithRoom), row) :
             chunks'[c] = WithCells(Last(ChunksWithRoom), cells)
  <2>1. /\ Last(ChunksWithRoom) \in Seq(Segment) /\ IsTyped(Last(ChunksWithRoom))
        /\ IsCompressedOnTheLeft(Last(ChunksWithRoom))
    BY <1>1, <1>2, TypedChunks
  <2> QED
    BY <1>7, <2>1, WithCellsFacts DEF IsCompressedOnTheLeft
<1> QED
  BY <1>3, <1>4, <1>5, <1>6, <1>7, ChunkCases, TypedChunks

\* Whatever is called, a segment that takes values never stands on the left of a
\* compressed one: an append to a compressed chunk throws before writing.
THEOREM CompressedStaysOnTheLeft == Spec => []CompressedOnTheLeft
<1>1. Init => CompressedOnTheLeft
  BY DEF Init, CompressedOnTheLeft, IsCompressedOnTheLeft
<1> QED
  BY <1>1, OnTheLeftStep, TypedInit, TypedStep, PTL DEF Spec

-----------------------------------------------------------------------------
(* Chunks are filled one after the other.                                      *)

\* The size of a chunk without columns is 0, that of another its first column's.
LEMMA SizeCases ==
    ASSUME NEW chunk \in Seq(Segment)
    PROVE  /\ Len(chunk) = 0 => Size(chunk) = 0 /\ chunk = <<>>
           /\ Len(chunk) > 0 => Size(chunk) = Len(chunk[1].values) /\ 1 \in DOMAIN chunk
           /\ Len(chunk) \in Nat
<1>1. Len(chunk) = 0 <=> chunk = <<>>
  OBVIOUS
<1> QED
  BY <1>1 DEF Size

\* A chunk's size is a number; a new column does not change it, and an append
\* adds one at most.
LEMMA SizeFacts ==
    ASSUME NEW chunk \in Seq(Segment)
    PROVE  /\ Size(chunk) \in Nat
           /\ \A T \in TypeNames : Size(Append(chunk, NewSegment(T))) = Size(chunk)
<1>1. Size(chunk) \in Nat
  BY LengthType, SizeCases
<1>2. ASSUME NEW T \in TypeNames PROVE Size(Append(chunk, NewSegment(T))) = Size(chunk)
  <2> DEFINE after == Append(chunk, NewSegment(T))
  <2>1. /\ after \in Seq(Segment) /\ Len(after) = Len(chunk) + 1
        /\ \A i \in 1 .. Len(chunk) : after[i] = chunk[i]
        /\ Len(after[Len(chunk) + 1].values) = 0
    BY NewColumnSegments, NewSegmentFacts
  <2> HIDE DEF after
  <2>2. Size(after) = Len(after[1].values)
    BY <2>1, SizeCases
  <2>3. CASE Len(chunk) = 0
    <3>1. Size(chunk) = 0
      BY <2>3, SizeCases
    <3>2. Len(chunk) + 1 = 1
      BY <2>3
    <3> QED
      BY <2>1, <2>2, <3>1, <3>2 DEF after
  <2>4. CASE Len(chunk) > 0
    <3>1. Size(chunk) = Len(chunk[1].values) /\ 1 \in 1 .. Len(chunk)
      BY <2>4, SizeCases
    <3> QED
      BY <2>1, <2>2, <3>1 DEF after
  <2> QED
    BY <2>3, <2>4, SizeCases
<1> QED
  BY <1>1, <1>2

\* Chunk::append adds one row to the size of a chunk, or none.
LEMMA SizeWithCells ==
    ASSUME NEW chunk \in Seq(Segment), IsTyped(chunk),
           NEW row \in Rows, NEW cells \in CastRows(chunk, row)
    PROVE  Size(WithCells(chunk, cells)) \in {Size(chunk), Size(chunk) + 1}
<1> DEFINE after == WithCells(chunk, cells)
<1>1. /\ after \in Seq(Segment) /\ Len(after) = Len(chunk)
      /\ \A i \in 1 .. Len(chunk) :
           \/ Len(after[i].values) = Len(chunk[i].values) + 1
           \/ after[i] = chunk[i]
  BY WithCellsFacts
<1> HIDE DEF after
<1>2. CASE Len(chunk) = 0
  <2>1. Size(chunk) = 0
    BY <1>2, SizeCases
  <2>2. Size(after) = 0
    BY <1>1, <1>2, SizeCases
  <2> QED
    BY <2>1, <2>2 DEF after
<1>3. CASE Len(chunk) > 0
  <2>1. /\ Size(chunk) = Len(chunk[1].values) /\ 1 \in 1 .. Len(chunk)
        /\ Len(chunk[1].values) \in Nat
    BY <1>3, SizeCases, LengthType
  <2>2. Size(after) = Len(after[1].values)
    BY <1>1, <1>3, SizeCases
  <2> QED
    BY <1>1, <2>1, <2>2 DEF after
<1> QED
  BY <1>2, <1>3, SizeCases

\* No step leaves a chunk behind that is not full, nor overfills the last one.
LEMMA FilledStep == TypedInv /\ ChunksFilledInOrder /\ [Next]_vars => ChunksFilledInOrder'
<1> SUFFICES ASSUME TypedInv, ChunksFilledInOrder, [Next]_vars
             PROVE  ChunksFilledInOrder'
  OBVIOUS
<1> DEFINE n == Len(chunks)
           room == ChunksWithRoom
           max == maximumChunkSize
<1>1. /\ TypeOK /\ n \in Nat \ {0} /\ DOMAIN chunks = 1 .. n /\ max \in Nat
      /\ \A c \in 1 .. n : Size(chunks[c]) \in Nat
  <2>1. TypeOK /\ \A c \in DOMAIN chunks : Size(chunks[c]) \in Nat
    BY TypedChunks, SizeFacts
  <2>2. n \in Nat \ {0} /\ DOMAIN chunks = 1 .. n
    BY <2>1 DEF TypeOK
  <2>3. max \in Nat
    BY <2>1, MaxChunkSizesAssumption DEF TypeOK
  <2> QED
    BY <2>1, <2>2, <2>3
<1>2. /\ \A c \in 1 .. (n - 1) : Size(chunks[c]) = max
      /\ max > 0 => Size(chunks[n]) <= max
  BY DEF ChunksFilledInOrder, LastChunk
<1>3. maximumChunkSize' = max
  BY DEF Next, vars, AddColumnRefused, AddColumnThrows, AddColumn, AppendUndefined,
         AppendThrows, AppendArity, AppendRow, CompressNoChunk, CompressChunk,
         CompressTerminates, ReadRow, ReadFails
<1>4. ASSUME DOMAIN chunks' = 1 .. n, Len(chunks') = n,
             \A c \in 1 .. n : Size(chunks'[c]) = Size(chunks[c])
      PROVE  ChunksFilledInOrder'
  BY <1>1, <1>2, <1>3, <1>4 DEF ChunksFilledInOrder, LastChunk
<1>5. /\ Len(room) \in Nat \ {0} /\ DOMAIN room = 1 .. Len(room)
      /\ \A c \in 1 .. (Len(room) - 1) : Size(room[c]) = max
      /\ Size(room[Len(room)]) \in Nat
      /\ max > 0 => Size(room[Len(room)]) < max
  <2>1. /\ room \in Seq(Seq(Segment))
        /\ Len(room) = IF LastChunkIsFull THEN n + 1 ELSE n
        /\ \A c \in 1 .. n : room[c] = chunks[c]
        /\ room[Len(room)] = IF LastChunkIsFull THEN FreshChunk ELSE chunks[n]
    BY <1>1, ChunksWithRoomFacts DEF LastChunk
  <2>2. Size(FreshChunk) = 0
    BY <1>1, FreshChunkFacts DEF TypeOK
  <2>3. LastChunkIsFull <=> Size(chunks[n]) = max
    BY DEF LastChunkIsFull, LastChunk
  <2> HIDE DEF n, room, max
  <2>4. CASE LastChunkIsFull
    BY <1>1, <1>2, <2>1, <2>2, <2>3, <2>4
  <2>5. CASE ~LastChunkIsFull
    BY <1>1, <1>2, <2>1, <2>3, <2>5
  <2> QED
    BY <2>4, <2>5
<1>6. ASSUME NEW T \in TypeNames, AddColumn(T) PROVE ChunksFilledInOrder'
  <2>1. chunks' = [c \in DOMAIN chunks |-> Append(chunks[c], NewSegment(T))]
    BY <1>6 DEF AddColumn
  <2>2. DOMAIN chunks' = 1 .. n /\ Len(chunks') = n
    BY <1>1, <2>1
  <2>3. \A c \in 1 .. n : Size(chunks'[c]) = Size(chunks[c])
    BY <1>1, <2>1, TypedChunks, SizeFacts
  <2> QED
    BY <1>4, <2>2, <2>3
<1>7. ASSUME NEW row \in Rows, AppendArity(row) PROVE ChunksFilledInOrder'
  <2>1. chunks' = room
    BY <1>7 DEF AppendArity
  <2> QED
    BY <1>1, <1>3, <1>5, <2>1 DEF ChunksFilledInOrder, LastChunk
<1>8. ASSUME NEW row \in Rows, AppendRow(row) PROVE ChunksFilledInOrder'
  <2> DEFINE chunk == Last(ChunksWithRoom)
  <2>1. PICK cells \in CastRows(chunk, row) :
          chunks' = [room EXCEPT ![Len(room)] = WithCells(chunk, cells)]
    BY <1>8, Zenon DEF AppendRow
  <2>2. /\ chunk = room[Len(room)]
        /\ Size(WithCells(chunk, cells)) \in {Size(chunk), Size(chunk) + 1}
    BY TypedChunks, SizeWithCells, ChunksWithRoomFacts
  <2>3. DOMAIN chunks' = 1 .. Len(room) /\ Len(chunks') = Len(room)
    BY <1>5, <2>1
  <2>4. /\ \A c \in 1 .. (Len(room) - 1) : chunks'[c] = room[c]
        /\ chunks'[Len(room)] = WithCells(chunk, cells)
    BY <1>5, <2>1
  <2> HIDE DEF room, chunk
  <2>5. /\ \A c \in 1 .. (Len(chunks') - 1) : Size(chunks'[c]) = max
        /\ max > 0 => Size(chunks'[Len(chunks')]) <= max
    BY <1>1, <1>5, <2>2, <2>3, <2>4
  <2> QED
    BY <1>3, <2>5 DEF ChunksFilledInOrder, LastChunk
<1>9. ASSUME NEW d \in DOMAIN chunks, CompressChunk(d) PROVE ChunksFilledInOrder'
  <2>1. chunks' = [chunks EXCEPT ![d] = Compressed(chunks[d])]
    BY <1>9 DEF CompressChunk
  <2>2. DOMAIN chunks' = 1 .. n /\ Len(chunks') = n
    BY <1>1, <2>1
  <2>3. \A c \in 1 .. n : Size(chunks'[c]) = Size(chunks[c])
    BY <1>1, <2>1, TypedChunks, CompressedFacts
  <2> QED
    BY <1>4, <2>2, <2>3
<1>10. CASE UNCHANGED chunks
  BY <1>3, <1>10 DEF ChunksFilledInOrder, LastChunk
<1> QED
  BY <1>6, <1>7, <1>8, <1>9, <1>10
     DEF Next, vars, AddColumnRefused, AddColumnThrows, AppendUndefined, AppendThrows,
         CompressNoChunk, CompressTerminates, ReadRow, ReadFails

\* Whatever is called, and however it fails, every chunk but the last holds
\* exactly the rows that a chunk may, and the last holds no more (if any).
THEOREM ChunksAreFilledInOrder == Spec => []ChunksFilledInOrder
<1>1. Init => ChunksFilledInOrder
  BY MaxChunkSizesAssumption DEF Init, ChunksFilledInOrder, LastChunk, Size
<1> QED
  BY <1>1, FilledStep, TypedInit, TypedStep, PTL DEF Spec

-----------------------------------------------------------------------------
(* Compressed segments stay.                                                   *)

\* No step writes to a compressed segment or moves it.
LEMMA SealedStep ==
    ASSUME TypedInv, [Next]_vars, NEW c \in DOMAIN chunks, NEW i \in DOMAIN chunks[c],
           chunks[c][i].kind = "dictionary"
    PROVE  chunks'[c][i] = chunks[c][i]
<1>1. /\ TypeOK /\ chunks \in Seq(Seq(Segment)) /\ Len(chunks) \in Nat
      /\ chunks[c] \in Seq(Segment) /\ IsTyped(chunks[c])
      /\ c \in 1 .. Len(chunks) /\ i \in 1 .. Len(chunks[c])
  BY DEF TypedInv, TypeOK, ColumnsAreTyped
<1>2. /\ \A d \in 1 .. Len(chunks) : ChunksWithRoom[d] = chunks[d]
      /\ ChunksWithRoom \in Seq(Seq(Segment)) /\ Len(chunks) <= Len(ChunksWithRoom)
      /\ Last(ChunksWithRoom) = ChunksWithRoom[Len(ChunksWithRoom)]
  <2>1. /\ ChunksWithRoom \in Seq(Seq(Segment))
        /\ Len(ChunksWithRoom) = IF LastChunkIsFull THEN Len(chunks) + 1 ELSE Len(chunks)
        /\ \A d \in 1 .. Len(chunks) : ChunksWithRoom[d] = chunks[d]
        /\ Last(ChunksWithRoom) = ChunksWithRoom[Len(ChunksWithRoom)]
    BY <1>1, ChunksWithRoomFacts
  <2>2. Len(chunks) <= Len(ChunksWithRoom)
    BY <1>1, <2>1
  <2> QED
    BY <2>1, <2>2
<1>3. ASSUME NEW T \in TypeNames, AddColumn(T)
      PROVE  chunks'[c][i] = chunks[c][i]
  <2>1. chunks'[c] = Append(chunks[c], NewSegment(T)) /\ NewSegment(T) \in Segment
    BY <1>3, NewSegmentFacts DEF AddColumn
  <2> QED
    BY <1>1, <2>1
<1>4. ASSUME NEW row \in Rows, AppendRow(row)
      PROVE  chunks'[c][i] = chunks[c][i]
  <2>1. PICK cells \in CastRows(Last(ChunksWithRoom), row) :
            chunks' = [ChunksWithRoom EXCEPT
                        ![Len(ChunksWithRoom)] = WithCells(Last(ChunksWithRoom), cells)]
    BY <1>4 DEF AppendRow
  <2>2. CASE c # Len(ChunksWithRoom)
    BY <1>1, <1>2, <2>1, <2>2
  <2>3. CASE c = Len(ChunksWithRoom)
    <3>1. Last(ChunksWithRoom) = chunks[c] /\ chunks'[c] = WithCells(chunks[c], cells)
      BY <1>1, <1>2, <2>1, <2>3
    <3>2. cells \in CastRows(chunks[c], row)
      BY <3>1
    <3>3. i \notin WrittenCells(chunks[c], cells)
      BY <1>1, <3>2, CastRowsFacts
    <3> QED
      BY <1>1, <3>1, <3>2, <3>3, WithCellsFacts
  <2> QED
    BY <2>2, <2>3
<1>5. ASSUME NEW row \in Rows, AppendArity(row)
      PROVE  chunks'[c][i] = chunks[c][i]
  BY <1>1, <1>2, <1>5 DEF AppendArity
<1>6. ASSUME NEW d \in DOMAIN chunks, CompressChunk(d)
      PROVE  chunks'[c][i] = chunks[c][i]
  <2>1. chunks'[c] = chunks[c] \/ chunks'[c] = Compressed(chunks[c])
    BY <1>1, <1>6 DEF CompressChunk
  <2>2. Compressed(chunks[c])[i] = [chunks[c][i] EXCEPT !.kind = "dictionary"]
    BY <1>1 DEF Compressed
  <2>3. [chunks[c][i] EXCEPT !.kind = "dictionary"] = chunks[c][i]
    <3>1. chunks[c][i] \in Segment
      BY <1>1
    <3> QED
      BY <3>1 DEF Segment
  <2> QED
    BY <2>1, <2>2, <2>3
<1>7. CASE chunks' = chunks
  BY <1>7
<1> QED
  BY <1>3, <1>4, <1>5, <1>6, <1>7
  DEF Next, vars, AddColumnRefused, AddColumnThrows, AppendUndefined, AppendThrows,
      CompressNoChunk, CompressTerminates, ReadRow, ReadFails

\* Whatever is called, and however it fails, a compressed segment is never written
\* again, in any build.
THEOREM CompressedSegmentsStay == Spec => CompressedStays
<1>1. ASSUME TypedInv, [Next]_vars
      PROVE  [\A c \in DOMAIN chunks : \A i \in DOMAIN chunks[c] :
                chunks[c][i].kind = "dictionary" => chunks'[c][i] = chunks[c][i]]_vars
  BY <1>1, SealedStep
<1> QED
  BY <1>1, TypedInit, TypedStep, PTL DEF Spec, CompressedStays

-----------------------------------------------------------------------------
(* The rows of a table, and that refused calls keep them.                      *)

\* The shortest column of a chunk is its last one.
LEMMA ShortestColumn ==
    ASSUME NEW chunk \in Seq(Segment), chunk # <<>>, Descends(chunk)
    PROVE  Min({Len(chunk[i].values) : i \in DOMAIN chunk}) = Len(chunk[Len(chunk)].values)
<1> DEFINE lengths == {Len(chunk[i].values) : i \in DOMAIN chunk}
           last == Len(chunk[Len(chunk)].values)
<1>1. Len(chunk) \in DOMAIN chunk /\ DOMAIN chunk = 1 .. Len(chunk)
  OBVIOUS
<1>2. lengths \subseteq Nat /\ last \in lengths
  BY <1>1, LengthType
<1>3. ASSUME NEW i \in DOMAIN chunk PROVE last <= Len(chunk[i].values)
  BY <1>1, LengthType DEF Descends
<1>4. \A n \in lengths : last <= n
  BY <1>3
<1> HIDE DEF lengths, last
<1>5. \A x \in lengths : (\A n \in lengths : x <= n) => x = last
  BY <1>2, <1>4
<1>6. (CHOOSE x \in lengths : \A n \in lengths : x <= n) = last
  BY <1>2, <1>4, <1>5
<1> QED
  BY <1>6, Zenon DEF lengths, last, Min

\* The complete rows of a chunk are as many as its last column has values.
LEMMA CompleteRowsFacts ==
    ASSUME NEW chunk \in Seq(Segment), Descends(chunk)
    PROVE  /\ CompleteRows(chunk) \in Seq(Seq(AllTypeVariant))
           /\ chunk = <<>> => CompleteRows(chunk) = <<>>
           /\ chunk # <<>> =>
                CompleteRows(chunk) =
                    [r \in 1 .. Len(chunk[Len(chunk)].values) |->
                        [i \in 1 .. Len(chunk) |-> chunk[i].values[r]]]
<1>1. CASE chunk = <<>>
  <2>1. CompleteRows(chunk) = <<>>
    BY <1>1, Zenon DEF CompleteRows
  <2>2. <<>> \in Seq(Seq(AllTypeVariant))
    OBVIOUS
  <2> QED
    BY <1>1, <2>1, <2>2, Zenon
<1>2. CASE chunk # <<>>
  <2> DEFINE n == Len(chunk[Len(chunk)].values)
             Row(r) == [i \in 1 .. Len(chunk) |-> chunk[i].values[r]]
  <2>1. Len(chunk) \in DOMAIN chunk /\ DOMAIN chunk = 1 .. Len(chunk) /\ n \in Nat
    BY <1>2, LengthType
  <2>2. CompleteRows(chunk) =
          [r \in 1 .. Min({Len(chunk[i].values) : i \in DOMAIN chunk}) |->
            [i \in DOMAIN chunk |-> chunk[i].values[r]]]
    BY <1>2, Zenon DEF CompleteRows
  <2>3. CompleteRows(chunk) = [r \in 1 .. n |-> Row(r)]
    BY <1>2, <2>1, <2>2, ShortestColumn, Zenon
  <2>4. ASSUME NEW r \in 1 .. n PROVE Row(r) \in Seq(AllTypeVariant)
    <3>1. ASSUME NEW i \in 1 .. Len(chunk) PROVE chunk[i].values[r] \in AllTypeVariant
      <4>1. chunk[i] \in Segment
        OBVIOUS
      <4>2. chunk[i].values \in Seq(AllTypeVariant)
        BY <4>1 DEF Segment
      <4>3. n <= Len(chunk[i].values)
        BY <2>1, LengthType DEF Descends
      <4> QED
        BY <2>1, <4>2, <4>3
    <3> QED
      BY <2>1, <3>1
  <2> HIDE DEF n, Row
  <2>5. CompleteRows(chunk) \in Seq(Seq(AllTypeVariant))
    BY <2>1, <2>3, <2>4
  <2> QED
    BY <1>2, <2>3, <2>5, Zenon DEF n, Row
<1> QED
  BY <1>1, <1>2

\* Compressing a chunk changes none of its rows, whole or torn.
LEMMA CompressedRows ==
    ASSUME NEW chunk \in Seq(Segment), Descends(chunk)
    PROVE  CompleteRows(Compressed(chunk)) = CompleteRows(chunk)
<1> DEFINE after == Compressed(chunk)
           n == Len(chunk)
<1>1. /\ after \in Seq(Segment) /\ Len(after) = n
      /\ \A i \in 1 .. n : after[i].values = chunk[i].values
  BY CompressedFacts
<1> HIDE DEF after
<1>2. Descends(after)
  BY <1>1 DEF Descends
<1>3. CASE chunk = <<>>
  <2>1. after = <<>>
    BY <1>1, <1>3
  <2> QED
    BY <1>3, <2>1 DEF after
<1>4. CASE chunk # <<>>
  <2>1. n \in 1 .. n /\ after # <<>>
    BY <1>1, <1>4
  <2>2. /\ CompleteRows(chunk) =
              [r \in 1 .. Len(chunk[n].values) |-> [i \in 1 .. n |-> chunk[i].values[r]]]
        /\ CompleteRows(after) =
              [r \in 1 .. Len(after[n].values) |-> [i \in 1 .. n |-> after[i].values[r]]]
    <3>1. /\ CompleteRows(chunk) =
                [r \in 1 .. Len(chunk[Len(chunk)].values) |->
                    [i \in 1 .. Len(chunk) |-> chunk[i].values[r]]]
          /\ CompleteRows(after) =
                [r \in 1 .. Len(after[Len(after)].values) |->
                    [i \in 1 .. Len(after) |-> after[i].values[r]]]
      BY <1>1, <1>2, <1>4, <2>1, CompleteRowsFacts, Zenon
    <3> QED
      BY <1>1, <3>1
  <2> HIDE DEF n
  <2> QED
    BY <1>1, <2>1, <2>2 DEF after
<1> QED
  BY <1>3, <1>4

\* A fresh chunk has no rows.
LEMMA FreshChunkRows ==
    ASSUME TypedInv
    PROVE  CompleteRows(FreshChunk) = <<>> /\ Descends(FreshChunk)
<1>1. FreshChunk \in Seq(Segment) /\ Descends(FreshChunk)
  BY TypedChunks, FreshSegments DEF Descends
<1>2. CASE FreshChunk = <<>>
  BY <1>1, <1>2, CompleteRowsFacts
<1>3. CASE FreshChunk # <<>>
  <2>1. Len(FreshChunk) \in DOMAIN FreshChunk
    BY <1>1, <1>3
  <2>2. Len(FreshChunk[Len(FreshChunk)].values) = 0
    BY <2>1, FreshSegments
  <2>3. CompleteRows(FreshChunk) = [r \in 1 .. 0 |-> [i \in 1 .. Len(FreshChunk) |-> FreshChunk[i].values[r]]]
    BY <1>1, <1>3, <2>2, CompleteRowsFacts
  <2> QED
    BY <1>1, <2>3
<1> QED
  BY <1>1, <1>2, <1>3

\* An append that throws leaves the last column, and so the complete rows, as
\* they were.
LEMMA ThrownAppendRows ==
    ASSUME NEW chunk \in Seq(Segment), IsTyped(chunk), Descends(chunk),
           NEW row \in Rows, NEW cells \in CastRows(chunk, row),
           WrittenCells(chunk, cells) # DOMAIN cells, ~StopsUndefined(chunk, cells)
    PROVE  CompleteRows(WithCells(chunk, cells)) = CompleteRows(chunk)
<1> DEFINE after == WithCells(chunk, cells)
           written == WrittenCells(chunk, cells)
           n == Len(chunk)
<1>1. /\ after \in Seq(Segment) /\ Len(after) = n /\ n \in Nat /\ Descends(after)
      /\ written \subseteq 1 .. n /\ DOMAIN cells = 1 .. Len(row) /\ Len(row) \in Nat
  BY WithCellsFacts, DescendsWithCells, CastRowsFacts
<1>2. n \notin written
  <2> SUFFICES ASSUME n \in written PROVE FALSE
    OBVIOUS
  <2>1. 1 .. n \subseteq written /\ written \subseteq DOMAIN cells
    BY <1>1, WrittenIsPrefix DEF WrittenCells
  <2>2. PICK k \in DOMAIN cells : k \notin written
    BY <2>1
  <2>3. n + 1 \in (DOMAIN cells) \ written
    BY <1>1, <2>1, <2>2
  <2>4. \A j \in 1 .. ((n + 1) - 1) : Writable(chunk, cells, j)
    <3>1. (n + 1) - 1 = n
      BY <1>1
    <3>2. ASSUME NEW j \in 1 .. n PROVE Writable(chunk, cells, j)
      BY <2>1 DEF WrittenCells
    <3> QED
      BY <3>1, <3>2
  <2>5. n + 1 \notin DOMAIN chunk
    BY <1>1
  <2> QED
    BY <2>3, <2>4, <2>5 DEF StopsUndefined
<1>3. CASE n = 0
  <2>1. chunk = <<>> /\ after = <<>>
    BY <1>1, <1>3
  <2> QED
    BY <1>1, <2>1, CompleteRowsFacts
<1>4. CASE n # 0
  <2>1. chunk # <<>> /\ after # <<>> /\ n \in 1 .. n
    BY <1>1, <1>4
  <2>2. after[n] = chunk[n]
    BY <1>2, <2>1, WithCellsFacts
  <2> DEFINE last == Len(chunk[n].values)
  <2>3. last \in Nat
    BY <2>1, LengthType
  <2>4. ASSUME NEW r \in 1 .. last, NEW i \in 1 .. n
        PROVE  after[i].values[r] = chunk[i].values[r]
    <3>1. chunk[i] \in Segment
      OBVIOUS
    <3>2. chunk[i].values \in Seq(AllTypeVariant) /\ last <= Len(chunk[i].values)
      <4>1. i < n => Len(chunk[i].values) >= last
        BY <1>1, <2>1 DEF Descends
      <4>2. chunk[i].values \in Seq(AllTypeVariant)
        BY <3>1 DEF Segment
      <4>3. Len(chunk[i].values) \in Nat
        BY LengthType
      <4> QED
        BY <1>1, <2>3, <4>1, <4>2, <4>3
    <3>3. r \in 1 .. Len(chunk[i].values)
      BY <2>3, <3>2
    <3>4. CASE i \in written
      <4>1. after[i].values = Append(chunk[i].values, cells[i]) /\ cells[i] \in AllTypeVariant
        BY <3>4, WithCellsFacts, CastRowsFacts
      <4> HIDE DEF after, last
      <4> QED
        BY <3>2, <3>3, <4>1
    <3>5. CASE i \notin written
      BY <3>5, WithCellsFacts
    <3> QED
      BY <3>4, <3>5
  <2>5. CompleteRows(chunk) = [r \in 1 .. last |-> [i \in 1 .. n |-> chunk[i].values[r]]]
    BY <2>1, CompleteRowsFacts
  <2>6. CompleteRows(after) = [r \in 1 .. last |-> [i \in 1 .. n |-> after[i].values[r]]]
    <3> HIDE DEF after
    <3>1. CompleteRows(after) = [r \in 1 .. Len(after[n].values) |-> [i \in 1 .. n |-> after[i].values[r]]]
      BY <1>1, <2>1, CompleteRowsFacts
    <3> QED
      BY <2>2, <3>1
  <2> HIDE DEF after, last, n
  <2>7. [r \in 1 .. last |-> [i \in 1 .. n |-> after[i].values[r]]] =
        [r \in 1 .. last |-> [i \in 1 .. n |-> chunk[i].values[r]]]
    BY <2>4
  <2> QED
    BY <2>5, <2>6, <2>7 DEF after
<1> QED
  BY <1>3, <1>4

\* The complete rows of each of a sequence of chunks.
RowsOf(cs) == [c \in DOMAIN cs |-> CompleteRows(cs[c])]

\* They are sequences of rows, one for each chunk.
LEMMA RowsOfFacts ==
    ASSUME NEW cs \in Seq(Seq(Segment)), \A c \in DOMAIN cs : Descends(cs[c])
    PROVE  /\ RowsOf(cs) \in Seq(Seq(Seq(AllTypeVariant)))
           /\ Len(RowsOf(cs)) = Len(cs)
           /\ \A c \in 1 .. Len(cs) : RowsOf(cs)[c] = CompleteRows(cs[c])
<1>1. \A c \in 1 .. Len(cs) : cs[c] \in Seq(Segment) /\ Descends(cs[c])
  OBVIOUS
<1>2. \A c \in 1 .. Len(cs) : CompleteRows(cs[c]) \in Seq(Seq(AllTypeVariant))
  BY <1>1, CompleteRowsFacts
<1>3. RowsOf(cs) = [c \in 1 .. Len(cs) |-> CompleteRows(cs[c])]
  BY DEF RowsOf
<1> QED
  BY <1>2, <1>3

\* One more chunk gives the rows of one more chunk.
LEMMA RowsOfAppend ==
    ASSUME NEW cs \in Seq(Seq(Segment)), NEW chunk \in Seq(Segment)
    PROVE  RowsOf(Append(cs, chunk)) = Append(RowsOf(cs), CompleteRows(chunk))
<1>1. PICK n, more, e : n = Len(cs) /\ more = Append(cs, chunk) /\ e = CompleteRows(chunk)
  OBVIOUS
<1>2. /\ n \in Nat /\ DOMAIN cs = 1 .. n /\ DOMAIN more = 1 .. (n + 1)
      /\ more[n + 1] = chunk /\ \A c \in 1 .. n : more[c] = cs[c]
  BY <1>1
<1> DEFINE R == {CompleteRows(more[c]) : c \in 1 .. (n + 1)}
           a == RowsOf(cs)
           b == RowsOf(more)
<1>3. a \in [1 .. n -> R] /\ \A c \in 1 .. n : a[c] = CompleteRows(more[c])
  BY <1>2 DEF RowsOf
<1>4. b \in [1 .. (n + 1) -> R] /\ \A c \in 1 .. (n + 1) : b[c] = CompleteRows(more[c])
  BY <1>2 DEF RowsOf
<1>5. e \in R /\ CompleteRows(more[n + 1]) = e
  BY <1>1, <1>2
<1> HIDE DEF R, a, b
<1>6. a \in Seq(R) /\ Len(a) = n /\ b \in Seq(R) /\ Len(b) = n + 1
  BY <1>2, <1>3, <1>4
<1>7. PICK g : g = Append(a, e)
  OBVIOUS
<1>8. /\ g \in Seq(R) /\ Len(g) = n + 1 /\ g[n + 1] = e
      /\ \A c \in 1 .. n : g[c] = a[c]
  BY <1>5, <1>6, <1>7
<1>9. \A c \in 1 .. (n + 1) : b[c] = g[c]
  BY <1>2, <1>3, <1>4, <1>5, <1>8
<1>10. b = g
  BY <1>6, <1>8, <1>9, SeqEqual
<1> QED
  BY <1>1, <1>7, <1>10 DEF a, b

\* The rows of a table are those of its chunks.
LEMMA TableRowsFacts ==
    ASSUME TypedInv, LengthsDescend
    PROVE  /\ chunks \in Seq(Seq(Segment)) /\ \A c \in DOMAIN chunks : Descends(chunks[c])
           /\ ChunksWithRoom \in Seq(Seq(Segment)) /\ Len(ChunksWithRoom) \in Nat \ {0}
           /\ \A c \in DOMAIN ChunksWithRoom : Descends(ChunksWithRoom[c])
           /\ TableRows = FlattenSeq(RowsOf(chunks))
           /\ TableRows \in Seq(Seq(AllTypeVariant))
           /\ TableRows = FlattenSeq(RowsOf(ChunksWithRoom))
<1>1. /\ TypeOK /\ chunks \in Seq(Seq(Segment)) /\ \A c \in DOMAIN chunks : Descends(chunks[c])
      /\ Len(chunks) \in Nat \ {0} /\ DOMAIN chunks = 1 .. Len(chunks)
  BY DEF TypedInv, TypeOK, LengthsDescend
<1>2. TableRows = FlattenSeq(RowsOf(chunks))
  BY Zenon DEF TableRows, RowsOf
<1>3. RowsOf(chunks) \in Seq(Seq(Seq(AllTypeVariant))) /\ TableRows \in Seq(Seq(AllTypeVariant))
  <2>1. RowsOf(chunks) \in Seq(Seq(Seq(AllTypeVariant)))
    BY <1>1, RowsOfFacts
  <2> QED
    BY <1>2, <2>1, FlattenSeqType
<1>4. CASE LastChunkIsFull
  <2>1. ChunksWithRoom = Append(chunks, FreshChunk) /\ FreshChunk \in Seq(Segment)
    BY <1>4, TypedChunks DEF ChunksWithRoom
  <2>2. /\ ChunksWithRoom \in Seq(Seq(Segment)) /\ Len(ChunksWithRoom) = Len(chunks) + 1
        /\ DOMAIN ChunksWithRoom = 1 .. (Len(chunks) + 1)
        /\ \A c \in 1 .. Len(chunks) : ChunksWithRoom[c] = chunks[c]
        /\ ChunksWithRoom[Len(chunks) + 1] = FreshChunk
    BY <1>1, <2>1
  <2>3. CompleteRows(FreshChunk) = <<>> /\ Descends(FreshChunk)
    BY FreshChunkRows
  <2>4. ASSUME NEW c \in DOMAIN ChunksWithRoom PROVE Descends(ChunksWithRoom[c])
    <3>1. c \in 1 .. Len(chunks) \/ c = Len(chunks) + 1
      BY <1>1, <2>2
    <3> QED
      BY <1>1, <2>2, <2>3, <3>1
  <2>5. RowsOf(ChunksWithRoom) = Append(RowsOf(chunks), <<>>)
    BY <1>1, <2>1, <2>3, RowsOfAppend
  <2>6. FlattenSeq(RowsOf(ChunksWithRoom)) = TableRows \o <<>>
    <3>1. <<>> \in Seq(Seq(AllTypeVariant))
      OBVIOUS
    <3> QED
      BY <1>2, <1>3, <2>5, <3>1, FlattenSeqAppend
  <2>7. TableRows \o <<>> = TableRows
    BY <1>3
  <2> QED
    BY <1>1, <1>2, <1>3, <2>2, <2>4, <2>6, <2>7
<1>5. CASE ~LastChunkIsFull
  <2>1. ChunksWithRoom = chunks
    BY <1>5 DEF ChunksWithRoom
  <2> QED
    BY <1>1, <1>2, <1>3, <2>1
<1> QED
  BY <1>4, <1>5

\* No step that throws, compresses or reads changes the rows of a table that keeps
\* running.
LEMMA OtherStepsKeepRows ==
    ASSUME TypedInv, LengthsDescend, [Next]_vars, status' = "running",
           result'.outcome = "thrown" \/ result'.call \in {"compress_chunk", "read"}
    PROVE  TableRows' = TableRows \/ UNCHANGED vars
<1>1. TableRows' = FlattenSeq(RowsOf(chunks'))
  BY Zenon DEF TableRows, RowsOf
<1>2. CASE chunks' = chunks
  BY <1>1, <1>2, TableRowsFacts
<1>3. ASSUME NEW row \in Rows, AppendArity(row) PROVE TableRows' = TableRows
  BY <1>1, <1>3, TableRowsFacts DEF AppendArity
<1>4. ASSUME NEW row \in Rows, AppendRow(row) PROVE TableRows' = TableRows
  <2> DEFINE room == ChunksWithRoom
             n == Len(room)
             chunk == Last(room)
  <2>1. PICK cells \in CastRows(chunk, row) :
          /\ chunks' = [room EXCEPT ![n] = WithCells(chunk, cells)]
          /\ status' = IF StopsUndefined(chunk, cells) THEN "undefined" ELSE status
          /\ result' = Outcome("append", IF WrittenCells(chunk, cells) = DOMAIN cells
                                         THEN "done" ELSE "thrown", <<>>)
    BY <1>4, Zenon DEF AppendRow
  <2>2. ~StopsUndefined(chunk, cells) /\ WrittenCells(chunk, cells) # DOMAIN cells
    BY <2>1 DEF Outcome
  <2>3. /\ room \in Seq(Seq(Segment)) /\ n \in 1 .. n /\ DOMAIN room = 1 .. n
        /\ chunk = room[n] /\ chunk \in Seq(Segment) /\ IsTyped(chunk) /\ Descends(chunk)
    BY TableRowsFacts, TypedChunks, ChunksWithRoomFacts
  <2>4. CompleteRows(WithCells(chunk, cells)) = CompleteRows(chunk)
    BY <2>2, <2>3, ThrownAppendRows
  <2>5. DOMAIN chunks' = DOMAIN room /\ \A c \in DOMAIN room : CompleteRows(chunks'[c]) = CompleteRows(room[c])
    BY <2>1, <2>3, <2>4
  <2>6. RowsOf(chunks') = RowsOf(room)
    BY <2>5 DEF RowsOf
  <2> QED
    BY <1>1, <2>6, TableRowsFacts
<1>5. ASSUME NEW d \in DOMAIN chunks, CompressChunk(d) PROVE TableRows' = TableRows
  <2>1. chunks' = [chunks EXCEPT ![d] = Compressed(chunks[d])]
    BY <1>5 DEF CompressChunk
  <2>2. \A c \in DOMAIN chunks : chunks[c] \in Seq(Segment) /\ Descends(chunks[c])
    BY TypedChunks DEF LengthsDescend
  <2>3. /\ DOMAIN chunks' = DOMAIN chunks
        /\ \A c \in DOMAIN chunks : CompleteRows(chunks'[c]) = CompleteRows(chunks[c])
    BY <2>1, <2>2, CompressedRows
  <2>4. RowsOf(chunks') = RowsOf(chunks)
    BY <2>3 DEF RowsOf
  <2> QED
    BY <1>1, <2>4, TableRowsFacts
<1>6. \/ chunks' = chunks
      \/ \E row \in Rows : AppendArity(row) \/ AppendRow(row)
      \/ \E d \in DOMAIN chunks : CompressChunk(d)
  BY DEF Next, vars, Outcome, AddColumnRefused, AddColumnThrows, AddColumn, AppendUndefined,
         AppendThrows, CompressNoChunk, CompressTerminates, ReadRow, ReadFails
<1> QED
  BY <1>2, <1>3, <1>4, <1>5, <1>6

\* Whatever is called, in any build and whatever the callers do, a call that
\* throws, a compression that returns and a read leave the complete rows of the
\* table as they were: an append that fails has not reached the last column
\* (Chunk::append), and a compressed chunk has the rows of the old one, torn or not.
THEOREM OnlyStoringEverChangesRows == Spec => OnlyStoringChangesRows
<1>1. Init => LengthsDescend
  BY DEF Init, LengthsDescend, Descends
<1>2. TypedInv /\ LengthsDescend /\ [Next]_vars =>
        [Running' /\ (result'.outcome = "thrown" \/ result'.call \in {"compress_chunk", "read"})
            => TableRows' = TableRows]_vars
  BY OtherStepsKeepRows DEF Running
<1> QED
  BY <1>1, <1>2, DescendsStep, TypedInit, TypedStep, PTL DEF Spec, OnlyStoringChangesRows

-----------------------------------------------------------------------------
(* Types and segments, and what checked builds leave defined.                  *)

\* SegmentsLineUp for one chunk, some types and a build.
IsAligned(chunk, types, checked) ==
    /\ Len(chunk) <= Len(types)
    /\ \A i \in DOMAIN types : (\A j \in 1 .. i : ~(checked /\ types[j] \notin DataTypes)) =>
            i \in DOMAIN chunk /\ chunk[i].type = types[i]

LEMMA AlignedChunks ==
    SegmentsLineUp <=> \A c \in DOMAIN chunks : IsAligned(chunks[c], columnTypes, debug)
BY DEF SegmentsLineUp, LinesUp, IsAligned, SegmentThrows

\* The alignment of a chunk is one of its types.
LEMMA SameTypesAligned ==
    ASSUME NEW chunk \in Seq(Segment), NEW types, NEW checked, IsAligned(chunk, types, checked),
           NEW after \in Seq(Segment), Len(after) = Len(chunk),
           \A i \in 1 .. Len(chunk) : after[i].type = chunk[i].type
    PROVE  IsAligned(after, types, checked)
BY DEF IsAligned

\* A type that is added to the table, with a segment or after an exception.
LEMMA AddedTypeAligned ==
    ASSUME NEW chunk \in Seq(Segment), NEW types \in Seq(TypeNames), NEW checked,
           IsAligned(chunk, types, checked), NEW T \in TypeNames
    PROVE  /\ IsAligned(Append(chunk, NewSegment(T)), Append(types, T), checked)
           /\ checked /\ T \notin DataTypes => IsAligned(chunk, Append(types, T), checked)
<1> DEFINE more == Append(types, T)
           n == Len(types)
<1>1. /\ n \in Nat /\ Len(more) = n + 1 /\ DOMAIN more = 1 .. n + 1 /\ DOMAIN types = 1 .. n
      /\ \A i \in 1 .. n : more[i] = types[i]
      /\ more[n + 1] = T
      /\ Len(chunk) \in Nat /\ Len(chunk) <= n
  BY DEF IsAligned
<1> HIDE DEF more, n
<1>2. ASSUME NEW i \in 1 .. n, \A j \in 1 .. i : ~(checked /\ more[j] \notin DataTypes)
      PROVE  i \in DOMAIN chunk /\ chunk[i].type = more[i]
  <2>1. \A j \in 1 .. i : more[j] = types[j]
    BY <1>1
  <2> QED
    BY <1>1, <1>2, <2>1 DEF IsAligned
<1>3. IsAligned(Append(chunk, NewSegment(T)), more, checked)
  <2> DEFINE after == Append(chunk, NewSegment(T))
  <2>1. /\ Len(after) = Len(chunk) + 1 /\ DOMAIN after = 1 .. Len(chunk) + 1
        /\ \A i \in 1 .. Len(chunk) : after[i] = chunk[i]
        /\ after[Len(chunk) + 1].type = T
    BY NewSegmentFacts
  <2> HIDE DEF after
  <2>2. ASSUME NEW i \in 1 .. n + 1, \A j \in 1 .. i : ~(checked /\ more[j] \notin DataTypes)
        PROVE  i \in DOMAIN after /\ after[i].type = more[i]
    <3>1. CASE i \in 1 .. n
      <4>1. i \in DOMAIN chunk /\ chunk[i].type = more[i]
        BY <1>2, <2>2, <3>1
      <4> QED
        BY <1>1, <2>1, <4>1
    <3>2. CASE i = n + 1
      <4>1. n = 0 \/ n \in DOMAIN chunk
        <5>1. n # 0 => n \in 1 .. n /\ \A j \in 1 .. n : j \in 1 .. i
          BY <1>1, <3>2
        <5> QED
          BY <1>2, <2>2, <5>1
      <4>2. Len(chunk) = n
        BY <1>1, <4>1
      <4> QED
        BY <1>1, <2>1, <3>2, <4>2
    <3> QED
      BY <1>1, <2>2, <3>1, <3>2
  <2>3. Len(after) <= Len(more)
    BY <1>1, <2>1
  <2> QED
    BY <1>1, <2>2, <2>3 DEF IsAligned, after
<1>4. ASSUME checked, T \notin DataTypes PROVE IsAligned(chunk, more, checked)
  <2>1. ASSUME NEW i \in 1 .. n + 1, \A j \in 1 .. i : ~(checked /\ more[j] \notin DataTypes)
        PROVE  i \in DOMAIN chunk /\ chunk[i].type = more[i]
    <3>1. i # n + 1
      BY <1>1, <1>4, <2>1
    <3> QED
      BY <1>1, <1>2, <2>1, <3>1
  <2>2. Len(chunk) <= Len(more)
    BY <1>1
  <2> QED
    BY <1>1, <2>1, <2>2 DEF IsAligned
<1> QED
  BY <1>3, <1>4 DEF more

\* No step shifts a segment against its type without a type that throws before it.
LEMMA LinesUpStep == TypedInv /\ SegmentsLineUp /\ [Next]_vars => SegmentsLineUp'
<1> SUFFICES ASSUME TypedInv, SegmentsLineUp, [Next]_vars, NEW c \in DOMAIN chunks'
             PROVE  IsAligned(chunks'[c], columnTypes', debug')
  <2>1. SegmentsLineUp' <=> \A c \in DOMAIN chunks' : IsAligned(chunks'[c], columnTypes', debug')
    BY DEF SegmentsLineUp, LinesUp, IsAligned, SegmentThrows
  <2> QED
    BY <2>1
<1>1. /\ columnTypes \in Seq(TypeNames)
      /\ \A d \in DOMAIN chunks :
            chunks[d] \in Seq(Segment) /\ IsAligned(chunks[d], columnTypes, debug)
  BY TypedChunks, AlignedChunks DEF TypeOK
<1>2. IsAligned(FreshChunk, columnTypes, debug)
  <2>1. \A i \in DOMAIN columnTypes : i \in 1 .. Len(columnTypes) /\ columnTypes[i] \in TypeNames
    BY <1>1
  <2>2. /\ Len(FreshChunk) = Len(columnTypes) /\ FreshChunk \in Seq(Segment)
        /\ \A i \in 1 .. Len(columnTypes) : FreshChunk[i] = NewSegment(columnTypes[i])
    BY <1>1, FreshChunkFacts
  <2>3. \A i \in DOMAIN columnTypes : i \in DOMAIN FreshChunk /\ FreshChunk[i].type = columnTypes[i]
    BY <2>1, <2>2, NewSegmentFacts
  <2> QED
    BY <1>1, <2>2, <2>3 DEF IsAligned
<1>3. ASSUME NEW T \in TypeNames, AddColumn(T) PROVE IsAligned(chunks'[c], columnTypes', debug')
  <2>1. /\ columnTypes' = Append(columnTypes, T) /\ debug' = debug
        /\ c \in DOMAIN chunks /\ chunks'[c] = Append(chunks[c], NewSegment(T))
    BY <1>3 DEF AddColumn
  <2>2. chunks[c] \in Seq(Segment) /\ IsAligned(chunks[c], columnTypes, debug)
    BY <1>1, <2>1
  <2> QED
    BY <1>1, <2>1, <2>2, AddedTypeAligned
<1>4. ASSUME NEW T \in TypeNames, AddColumnThrows(T)
      PROVE  IsAligned(chunks'[c], columnTypes', debug')
  <2>1. /\ columnTypes' = Append(columnTypes, T) /\ debug' = debug /\ chunks' = chunks
        /\ debug /\ T \notin DataTypes
    BY <1>4 DEF AddColumnThrows, SegmentThrows
  <2>2. chunks[c] \in Seq(Segment) /\ IsAligned(chunks[c], columnTypes, debug)
    BY <1>1, <2>1
  <2> QED
    BY <1>1, <2>1, <2>2, AddedTypeAligned
<1>5. CASE \A T \in TypeNames : ~AddColumn(T) /\ ~AddColumnThrows(T)
  <2>1. columnTypes' = columnTypes /\ debug' = debug
    BY <1>5
       DEF Next, vars, AddColumnRefused, AppendUndefined, AppendThrows, AppendArity, AppendRow,
           CompressNoChunk, CompressChunk, CompressTerminates, ReadRow, ReadFails
  <2>2. CASE c \in DOMAIN chunks /\ chunks'[c] = chunks[c]
    BY <1>1, <2>1, <2>2
  <2>3. CASE c \in DOMAIN chunks /\ chunks'[c] = Compressed(chunks[c])
    <3>1. chunks[c] \in Seq(Segment) /\ IsAligned(chunks[c], columnTypes, debug)
      BY <1>1, <2>3
    <3> QED
      BY <2>1, <2>3, <3>1, CompressedFacts, SameTypesAligned
  <2>4. CASE chunks'[c] = FreshChunk
    BY <1>2, <2>1, <2>4
  <2>5. ASSUME NEW row \in Rows, NEW cells \in CastRows(Last(ChunksWithRoom), row),
               chunks'[c] = WithCells(Last(ChunksWithRoom), cells)
        PROVE  IsAligned(chunks'[c], columnTypes', debug')
    <3> DEFINE chunk == Last(ChunksWithRoom)
    <3>1. chunk \in Seq(Segment) /\ IsTyped(chunk) /\ IsAligned(chunk, columnTypes, debug)
      BY <1>1, <1>2, TypedChunks
    <3> HIDE DEF chunk
    <3>2. /\ WithCells(chunk, cells) \in Seq(Segment) /\ Len(WithCells(chunk, cells)) = Len(chunk)
          /\ \A i \in 1 .. Len(chunk) : WithCells(chunk, cells)[i].type = chunk[i].type
      BY <2>5, <3>1, WithCellsFacts DEF chunk
    <3> QED
      BY <2>1, <2>5, <3>1, <3>2, SameTypesAligned DEF chunk
  <2> QED
    BY <1>5, <2>2, <2>3, <2>4, <2>5, ChunkCases DEF TypedInv
<1> QED
  BY <1>3, <1>4, <1>5

\* However columns are added and refused, rows appended and chunks compressed, a
\* segment stands in its type's place unless a type before it has thrown
\* (Table::add_column), so that no compression gives a segment another type.
THEOREM SegmentsAlwaysLineUp == Spec => []SegmentsLineUp
<1>1. Init => SegmentsLineUp
  BY DEF Init, SegmentsLineUp, LinesUp
<1> QED
  BY <1>1, LinesUpStep, TypedInit, TypedStep, PTL DEF Spec

\* A chunk all of whose segments were made.
HasNoNull(chunk) == \A i \in DOMAIN chunk : chunk[i].kind # "null"

\* In a checked build no chunk has a null segment: what could not be made has thrown.
CheckedInv ==
    /\ TypedInv
    /\ debug => \A c \in DOMAIN chunks : HasNoNull(chunks[c])
    /\ CheckedBuildsStayDefined

\* The chunk that append writes to in a checked build.
LEMMA CheckedLastChunk ==
    ASSUME CheckedInv, debug, HasRoom
    PROVE  HasNoNull(Last(ChunksWithRoom))
<1>1. /\ TypedInv /\ columnTypes \in Seq(TypeNames) /\ Len(chunks) \in DOMAIN chunks
      /\ \A c \in DOMAIN chunks : HasNoNull(chunks[c])
      /\ Last(ChunksWithRoom) = IF LastChunkIsFull THEN FreshChunk ELSE chunks[Len(chunks)]
  BY TypedChunks, ChunksWithRoomFacts DEF CheckedInv, TypeOK, LastChunk
<1>2. ASSUME LastChunkIsFull, NEW i \in DOMAIN FreshChunk PROVE FreshChunk[i].kind # "null"
  <2>1. /\ i \in 1 .. Len(columnTypes) /\ columnTypes[i] \in TypeNames
        /\ FreshChunk[i] = NewSegment(columnTypes[i])
    BY <1>1, <1>2, FreshChunkFacts
  <2>2. columnTypes[i] \in DataTypes
    BY <1>1, <1>2, <2>1 DEF HasRoom, SegmentThrows
  <2> QED
    BY <2>1, <2>2, NewSegmentFacts
<1> QED
  BY <1>1, <1>2 DEF HasNoNull

\* An append in a checked build is defined: its row fits its chunk.
LEMMA CheckedAppend ==
    ASSUME CheckedInv, debug, NEW row \in Rows, AppendRow(row)
    PROVE  status' = status
<1> DEFINE chunk == Last(ChunksWithRoom)
<1>1. PICK cells \in CastRows(chunk, row) :
        status' = IF StopsUndefined(chunk, cells) THEN "undefined" ELSE status
  BY Zenon DEF AppendRow
<1>2. HasRoom /\ Len(row) = Len(chunk) /\ chunk \in Seq(Segment) /\ IsTyped(chunk)
  BY TypedChunks DEF AppendRow, RowFits, CheckedInv
<1>3. HasNoNull(chunk)
  BY <1>2, CheckedLastChunk
<1>4. DOMAIN cells = DOMAIN chunk
  BY <1>2, CastRowsFacts
<1>5. ~StopsUndefined(chunk, cells)
  BY <1>3, <1>4 DEF StopsUndefined, HasNoNull
<1> QED
  BY <1>1, <1>5

\* A read that is not defined in a checked build is one of a torn dictionary.
LEMMA CheckedRead ==
    ASSUME CheckedInv, debug, NEW c \in DOMAIN chunks, NEW r \in Nat, ReadFails(c, r),
           status' = "undefined"
    PROVE  \E i \in DOMAIN chunks[c] : IsTornDictionary(chunks[c], i)
<1> DEFINE chunk == chunks[c]
<1>1. chunk \in Seq(Segment) /\ HasNoNull(chunk) /\ status # "undefined"
  BY TypedChunks DEF CheckedInv, ReadFails, Running
<1>2. PICK i \in DOMAIN chunk :
        /\ ~ReadsCell(chunk[i], r)
        /\ status' = IF debug /\ chunk[i].kind = "value" THEN status ELSE "undefined"
  BY DEF ReadFails
<1>3. chunk[i].kind = "dictionary"
  <2>1. chunk[i] \in Segment /\ chunk[i].kind # "null" /\ chunk[i].kind # "value"
    BY <1>1, <1>2 DEF HasNoNull
  <2> QED
    BY <2>1 DEF Segment, Kinds
<1>4. chunk # <<>> /\ 1 \in DOMAIN chunk
  BY <1>1, <1>2
<1>5. r <= Size(chunk) /\ Size(chunk) \in Nat
  BY <1>1, <1>4, SizeFacts DEF ReadFails, SizeIsUndefined, HasNoNull
<1>6. Len(chunk[i].values) \in Nat /\ ~(r <= Len(chunk[i].values))
  BY <1>1, <1>2, <1>3, LengthType DEF ReadsCell
<1> QED
  BY <1>2, <1>3, <1>5, <1>6 DEF IsTornDictionary

\* No step of a checked build brings in a null segment.
LEMMA NoNullStep ==
    ASSUME CheckedInv, [Next]_vars, debug', NEW c \in DOMAIN chunks'
    PROVE  HasNoNull(chunks'[c])
<1>1. debug' = debug
  BY DEF Next, vars, AddColumnRefused, AddColumnThrows, AddColumn, AppendUndefined, AppendThrows,
         AppendArity, AppendRow, CompressNoChunk, CompressChunk, CompressTerminates, ReadRow,
         ReadFails
<1>2. /\ TypedInv /\ debug
      /\ \A d \in DOMAIN chunks : chunks[d] \in Seq(Segment) /\ HasNoNull(chunks[d])
  BY <1>1, TypedChunks DEF CheckedInv
<1>3. CASE c \in DOMAIN chunks /\ chunks'[c] = chunks[c]
  BY <1>2, <1>3
<1>4. ASSUME c \in DOMAIN chunks, NEW T \in TypeNames, AddColumn(T),
             chunks'[c] = Append(chunks[c], NewSegment(T))
      PROVE  HasNoNull(chunks'[c])
  <2>1. T \in DataTypes
    BY <1>2, <1>4 DEF AddColumn, SegmentThrows
  <2>2. /\ chunks[c] \in Seq(Segment) /\ HasNoNull(chunks[c])
        /\ NewSegment(T) \in Segment /\ NewSegment(T).kind = "value"
    BY <1>2, <1>4, <2>1, NewSegmentFacts
  <2> QED
    BY <1>4, <2>2 DEF HasNoNull
<1>5. CASE c \in DOMAIN chunks /\ chunks'[c] = Compressed(chunks[c])
  BY <1>2, <1>5, CompressedFacts DEF HasNoNull
<1>6. CASE chunks'[c] = FreshChunk /\ LastChunkIsFull /\ HasRoom
  <2>1. Last(ChunksWithRoom) = FreshChunk
    BY <1>2, <1>6, ChunksWithRoomFacts DEF TypedInv
  <2> QED
    BY <1>2, <1>6, <2>1, CheckedLastChunk
<1>7. ASSUME NEW row \in Rows, NEW cells \in CastRows(Last(ChunksWithRoom), row),
             AppendRow(row), chunks'[c] = WithCells(Last(ChunksWithRoom), cells)
      PROVE  HasNoNull(chunks'[c])
  <2> DEFINE chunk == Last(ChunksWithRoom)
  <2>1. chunk \in Seq(Segment) /\ IsTyped(chunk)
    BY <1>2, TypedChunks
  <2>2. HasNoNull(chunk)
    BY <1>2, <1>7, CheckedLastChunk DEF AppendRow
  <2> HIDE DEF chunk
  <2>3. /\ WithCells(chunk, cells) \in Seq(Segment) /\ Len(WithCells(chunk, cells)) = Len(chunk)
        /\ \A i \in 1 .. Len(chunk) : WithCells(chunk, cells)[i].kind = chunk[i].kind
    BY <1>7, <2>1, WithCellsFacts DEF chunk
  <2> QED
    BY <1>7, <2>1, <2>2, <2>3 DEF HasNoNull, chunk
<1> QED
  BY <1>2, <1>3, <1>4, <1>5, <1>6, <1>7, ChunkCases DEF TypedInv

\* No step of a checked build leaves what C++ defines but the read of a torn row.
LEMMA CheckedStep == CheckedInv /\ [Next]_vars => CheckedInv'
<1> SUFFICES ASSUME CheckedInv, [Next]_vars PROVE CheckedInv'
  OBVIOUS
<1>1. TypedInv' /\ (debug' => \A c \in DOMAIN chunks' : HasNoNull(chunks'[c]))
  BY TypedStep, NoNullStep DEF CheckedInv
<1>2. ASSUME debug', status' = "undefined"
      PROVE  \E c \in DOMAIN chunks' : \E i \in DOMAIN chunks'[c] : IsTornDictionary(chunks'[c], i)
  <2>1. debug' = debug
    BY DEF Next, vars, AddColumnRefused, AddColumnThrows, AddColumn, AppendUndefined,
           AppendThrows, AppendArity, AppendRow, CompressNoChunk, CompressChunk,
           CompressTerminates, ReadRow, ReadFails
  <2>2. /\ debug /\ Len(chunks) \in DOMAIN chunks
        /\ \A c \in DOMAIN chunks : chunks[c] \in Seq(Segment) /\ HasNoNull(chunks[c])
    BY <1>2, <2>1, TypedChunks DEF CheckedInv
  <2>3. ~AppendUndefined
    <3>1. LastChunk \in Seq(Segment) /\ HasNoNull(LastChunk)
      BY <2>2 DEF LastChunk
    <3>2. LastChunk # <<>> => 1 \in DOMAIN LastChunk
      BY <3>1
    <3> QED
      BY <3>1, <3>2 DEF AppendUndefined, SizeIsUndefined, HasNoNull
  <2>4. \A row \in Rows : AppendRow(row) => status' = status
    BY <2>2, CheckedAppend
  <2>5. CASE UNCHANGED vars
    BY <1>2, <2>2, <2>5 DEF vars, CheckedInv, CheckedBuildsStayDefined
  <2>6. ASSUME NEW c \in DOMAIN chunks, NEW r \in 1 .. MaxChunkRows, ReadFails(c, r)
        PROVE  \E i \in DOMAIN chunks'[c] : IsTornDictionary(chunks'[c], i)
    <3>1. r \in Nat /\ chunks' = chunks
      BY <2>6, BoundsAssumption DEF ReadFails
    <3> QED
      BY <1>2, <2>2, <2>6, <3>1, CheckedRead
  <2>7. ASSUME NEW c \in DOMAIN chunks, NEW r \in 1 .. MaxChunkRows, ReadFails(c, r)
        PROVE  c \in DOMAIN chunks'
    BY <2>7 DEF ReadFails
  <2> QED
    BY <1>2, <2>3, <2>4, <2>5, <2>6, <2>7
       DEF Next, Running, AddColumnRefused, AddColumnThrows, AddColumn, AppendThrows,
           AppendArity, AppendRow, CompressNoChunk, CompressChunk, CompressTerminates, ReadRow
<1> QED
  BY <1>1, <1>2 DEF CheckedInv, CheckedBuildsStayDefined

\* In a build with assertions nothing that any caller asks for is undefined, except
\* the read of a row that a failed append tore before its chunk was compressed.
THEOREM CheckedBuildsAlwaysStayDefined == Spec => []CheckedBuildsStayDefined
<1>1. Init => CheckedInv
  BY TypedInit DEF Init, CheckedInv, HasNoNull, CheckedBuildsStayDefined
<1>2. CheckedInv => CheckedBuildsStayDefined
  BY DEF CheckedInv
<1> QED
  BY <1>1, <1>2, CheckedStep, PTL DEF Spec

-----------------------------------------------------------------------------
(* Tables whose callers are careful and whose casts succeed, in every build:   *)
(* their rows are whole, no call crashes, and what they see is a RowStore.      *)

\* No chunk has more columns than the table; and without assertions, where only
\* the callers' care keeps the type names known, every chunk has as many.
ColumnsAgree ==
    /\ ~debug => \A i \in DOMAIN columnTypes : columnTypes[i] \in DataTypes
    /\ \A c \in DOMAIN chunks : /\ Len(chunks[c]) <= Len(columnTypes)
                                /\ ~debug => Len(chunks[c]) = Len(columnTypes)

\* What makes Rectangular inductive: an append that does not write every cell
\* writes none, because the segment that refuses it is the first.
CarefulInv ==
    /\ TypedInv
    /\ CompressedOnTheLeft
    /\ Rectangular
    /\ \A c \in DOMAIN chunks : HasNoNull(chunks[c])
    /\ ColumnsAgree

-----------------------------------------------------------------------------
\* A fresh chunk that append could make has real segments and as many columns as
\* the table.
LEMMA CarefulFreshChunk ==
    ASSUME CarefulInv, LastChunkIsFull, HasRoom
    PROVE  /\ HasNoNull(FreshChunk)
           /\ IsRectangular(FreshChunk)
           /\ IsCompressedOnTheLeft(FreshChunk)
           /\ Len(FreshChunk) = Len(columnTypes)
<1>1. TypedInv /\ columnTypes \in Seq(TypeNames)
  BY DEF CarefulInv, TypedInv, TypeOK
<1>2. \A i \in DOMAIN columnTypes : columnTypes[i] \in DataTypes
  BY DEF HasRoom, SegmentThrows, CarefulInv, ColumnsAgree
<1>3. ASSUME NEW i \in DOMAIN FreshChunk
      PROVE  FreshChunk[i].kind = "value" /\ Len(FreshChunk[i].values) = 0
  <2>1. /\ i \in 1 .. Len(columnTypes) /\ columnTypes[i] \in TypeNames
        /\ FreshChunk[i] = NewSegment(columnTypes[i])
    BY <1>1, FreshChunkFacts
  <2> QED
    BY <1>1, <1>2, <2>1, NewSegmentFacts, FreshSegments
<1> QED
  BY <1>1, <1>3, FreshChunkFacts DEF HasNoNull, IsRectangular, IsCompressedOnTheLeft

\* The chunk that append writes to.
LEMMA CarefulLastChunk ==
    ASSUME CarefulInv, HasRoom
    PROVE  LET chunk == Last(ChunksWithRoom)
           IN  /\ chunk \in Seq(Segment) /\ IsTyped(chunk)
               /\ HasNoNull(chunk)
               /\ IsRectangular(chunk)
               /\ IsCompressedOnTheLeft(chunk)
               /\ Len(chunk) <= Len(columnTypes)
               /\ ~debug => Len(chunk) = Len(columnTypes)
<1> DEFINE chunk == Last(ChunksWithRoom)
<1>1. /\ TypedInv /\ TypeOK /\ Len(chunks) \in DOMAIN chunks
      /\ chunk \in Seq(Segment) /\ IsTyped(chunk)
      /\ chunk = IF LastChunkIsFull THEN FreshChunk ELSE chunks[Len(chunks)]
  BY TypedChunks, ChunksWithRoomFacts DEF CarefulInv, LastChunk
<1> HIDE DEF chunk
<1>2. CASE LastChunkIsFull
  BY <1>1, <1>2, CarefulFreshChunk DEF chunk
<1>3. CASE ~LastChunkIsFull
  BY <1>1, <1>3 DEF chunk, CarefulInv, Rectangular, CompressedOnTheLeft, ColumnsAgree
<1> QED
  BY <1>2, <1>3

\* Careful callers' rows are as long as the chunk they are appended to.
LEMMA CarefulRow ==
    ASSUME CarefulInv, CarefulCallers, NEW row \in Rows, AppendRow(row)
    PROVE  Len(row) = Len(Last(ChunksWithRoom)) /\ HasRoom
<1>1. /\ HasRoom /\ debug \in BOOLEAN
      /\ debug => Len(row) = Len(Last(ChunksWithRoom))
      /\ ~debug => Len(row) = Len(columnTypes)
  BY BuildsAssumption DEF AppendRow, RowFits, MayAppend, CarefulInv, TypedInv, TypeOK
<1> QED
  BY <1>1, CarefulLastChunk

\* An append writes every cell of such a row or none.
LEMMA AllOrNothing ==
    ASSUME CastsSucceed,
           NEW chunk \in Seq(Segment), IsTyped(chunk), HasNoNull(chunk),
           IsCompressedOnTheLeft(chunk),
           NEW row \in Rows, NEW cells \in CastRows(chunk, row), Len(row) = Len(chunk)
    PROVE  WrittenCells(chunk, cells) \in {{}, 1 .. Len(chunk)}
<1>1. DOMAIN cells = 1 .. Len(chunk) /\ DOMAIN row = 1 .. Len(chunk)
  <2>1. PICK n \in 0 .. MaxColumns : row \in [1 .. n -> Values]
    BY DEF Rows
  <2>2. n \in Nat /\ DOMAIN row = 1 .. n /\ Len(row) = n
    BY <2>1, BoundsAssumption
  <2> QED
    BY <2>2, CastRowsFacts
<1>2. CASE \A i \in 1 .. Len(chunk) : chunk[i].kind = "value"
  <2>1. ASSUME NEW i \in 1 .. Len(chunk) PROVE Writable(chunk, cells, i)
    <3>1. /\ chunk[i] \in Segment /\ chunk[i].type \in DataTypes
          /\ row[i] \in Values
      <4>1. chunk[i] \in Segment /\ chunk[i].kind = "value"
        BY <1>2
      <4>2. row[i] \in Values
        BY <1>1 DEF Rows
      <4> QED
        BY <4>1, <4>2 DEF IsTyped
    <3>2. cells[i] \in TypeCast(chunk[i].type, row[i])
      BY <1>1, <1>2 DEF CastRows
    <3>3. chunk[i].type \in TypeNames
      BY <3>1 DEF Segment
    <3> QED
      BY <1>2, <3>1, <3>2, <3>3 DEF CastsSucceed, Writable
  <2> QED
    BY <1>1, <2>1 DEF WrittenCells
<1>3. CASE \E j \in 1 .. Len(chunk) : chunk[j].kind # "value"
  <2>1. PICK j \in 1 .. Len(chunk) : chunk[j].kind # "value"
    BY <1>3
  <2>2. chunk[j] \in Segment
    OBVIOUS
  <2>3. chunk[j].kind = "dictionary"
    BY <2>1, <2>2 DEF HasNoNull, Segment, Kinds
  <2>4. 1 \in 1 .. Len(chunk) /\ chunk[1].kind # "value"
    BY <2>1, <2>3 DEF IsCompressedOnTheLeft
  <2>5. ASSUME NEW i \in WrittenCells(chunk, cells) PROVE FALSE
    BY <1>1, <2>4, <2>5 DEF WrittenCells, Writable
  <2> QED
    BY <2>5
<1> QED
  BY <1>2, <1>3

\* So the append leaves a rectangular chunk.
LEMMA RectangularWithCells ==
    ASSUME CastsSucceed,
           NEW chunk \in Seq(Segment), IsTyped(chunk), HasNoNull(chunk),
           IsCompressedOnTheLeft(chunk), IsRectangular(chunk),
           NEW row \in Rows, NEW cells \in CastRows(chunk, row), Len(row) = Len(chunk)
    PROVE  /\ IsRectangular(WithCells(chunk, cells))
           /\ HasNoNull(WithCells(chunk, cells))
           /\ Len(WithCells(chunk, cells)) = Len(chunk)
<1> DEFINE after == WithCells(chunk, cells)
           written == WrittenCells(chunk, cells)
<1>1. /\ after \in Seq(Segment) /\ Len(after) = Len(chunk)
      /\ DOMAIN after = 1 .. Len(chunk) /\ DOMAIN chunk = 1 .. Len(chunk)
      /\ \A i \in 1 .. Len(chunk) :
           /\ after[i].kind = chunk[i].kind
           /\ i \in written => Len(after[i].values) = Len(chunk[i].values) + 1
           /\ i \notin written => after[i] = chunk[i]
  BY WithCellsFacts
<1>2. written = {} \/ written = 1 .. Len(chunk)
  BY AllOrNothing
<1> HIDE DEF after, written
<1>3. IsRectangular(after)
  BY <1>1, <1>2 DEF IsRectangular
<1>4. HasNoNull(after)
  BY <1>1 DEF HasNoNull
<1> QED
  BY <1>1, <1>3, <1>4 DEF after

\* So does a compression.
LEMMA RectangularCompressed ==
    ASSUME NEW chunk \in Seq(Segment), IsRectangular(chunk), HasNoNull(chunk)
    PROVE  /\ IsRectangular(Compressed(chunk))
           /\ HasNoNull(Compressed(chunk))
           /\ Len(Compressed(chunk)) = Len(chunk)
BY SMTT(30), CompressedFacts DEF IsRectangular, HasNoNull

\* A column is only added to a table without rows, where every column is empty.
LEMMA CarefulAddColumn ==
    ASSUME CarefulInv, CarefulCallers, NEW T \in TypeNames, AddColumn(T), NEW c \in DOMAIN chunks
    PROVE  LET after == Append(chunks[c], NewSegment(T))
           IN  /\ IsRectangular(after)
               /\ HasNoNull(after)
               /\ Len(after) = Len(chunks[c]) + 1
<1> DEFINE chunk == chunks[c]
           after == Append(chunk, NewSegment(T))
<1>1. /\ chunk \in Seq(Segment) /\ IsRectangular(chunk) /\ HasNoNull(chunk)
      /\ debug \in BOOLEAN
  BY TypedChunks, BuildsAssumption DEF CarefulInv, Rectangular, TypeOK
<1>2. IsEmpty /\ T \in DataTypes
  BY <1>1 DEF AddColumn, MayAddColumn, SegmentThrows
<1>3. Size(chunk) = 0
  BY <1>2 DEF IsEmpty
<1>4. /\ Len(after) = Len(chunk) + 1 /\ DOMAIN after = 1 .. (Len(chunk) + 1)
      /\ \A i \in 1 .. Len(chunk) : after[i] = chunk[i]
      /\ Len(after[Len(chunk) + 1].values) = 0
      /\ after[Len(chunk) + 1].kind = "value"
  BY <1>1, <1>2, NewColumnSegments, NewSegmentFacts
<1> HIDE DEF after, chunk
<1>5. \A i \in 1 .. Len(chunk) : Len(chunk[i].values) = 0
  <2>1. CASE Len(chunk) = 0
    BY <1>1, <2>1
  <2>2. CASE Len(chunk) > 0
    <3>1. Size(chunk) = Len(chunk[1].values) /\ 1 \in DOMAIN chunk
      BY <1>1, <2>2, SizeCases
    <3> QED
      BY <1>1, <1>3, <3>1 DEF IsRectangular
  <2> QED
    BY <1>1, <2>1, <2>2, SizeCases
<1>6. \A i \in DOMAIN after : i \in 1 .. Len(chunk) \/ i = Len(chunk) + 1
  BY <1>1, <1>4
<1>7. IsRectangular(after)
  BY <1>4, <1>5, <1>6 DEF IsRectangular
<1>8. HasNoNull(after)
  BY <1>1, <1>4, <1>6 DEF HasNoNull
<1> QED
  BY <1>4, <1>7, <1>8 DEF after, chunk

\* No call of a careful caller whose casts succeed tears a row.
LEMMA CarefulStep ==
    ASSUME CarefulCallers, CastsSucceed
    PROVE  CarefulInv /\ [Next]_vars => CarefulInv'
<1> SUFFICES ASSUME CarefulInv, [Next]_vars PROVE CarefulInv'
  OBVIOUS
<1>1. /\ TypedInv /\ TypeOK /\ columnTypes \in Seq(TypeNames) /\ debug \in BOOLEAN
      /\ \A c \in DOMAIN chunks :
           chunks[c] \in Seq(Segment) /\ IsRectangular(chunks[c]) /\ HasNoNull(chunks[c])
      /\ ColumnsAgree
  BY TypedChunks, BuildsAssumption DEF CarefulInv, Rectangular, TypeOK
<1>2. TypedInv' /\ CompressedOnTheLeft'
  BY TypedStep, OnTheLeftStep DEF CarefulInv
<1>3. /\ debug' = debug
      /\ \/ UNCHANGED columnTypes /\ \A T \in TypeNames : ~AddColumn(T)
         \/ \E T \in TypeNames : AddColumn(T)
         \/ debug /\ \E T \in TypeNames : columnTypes' = Append(columnTypes, T)
  <2>1. ASSUME NEW T \in TypeNames, AddColumn(T) PROVE debug' = debug
    BY <2>1 DEF AddColumn
  <2>2. ASSUME NEW T \in TypeNames, AddColumnThrows(T) PROVE  debug /\ debug' = debug /\ columnTypes' = Append(columnTypes, T)
    BY <2>2 DEF AddColumnThrows, SegmentThrows
  <2>3. ASSUME \A T \in TypeNames : ~AddColumn(T) /\ ~AddColumnThrows(T)
        PROVE  UNCHANGED <<debug, columnTypes>>
    BY <2>3
       DEF Next, vars, AddColumnRefused, AppendUndefined, AppendThrows, AppendArity, AppendRow,
           CompressNoChunk, CompressChunk, CompressTerminates, ReadRow, ReadFails
  <2> QED
    BY <2>1, <2>2, <2>3
<1>4. ASSUME NEW c \in DOMAIN chunks'
      PROVE  /\ IsRectangular(chunks'[c]) /\ HasNoNull(chunks'[c])
             /\ Len(chunks'[c]) <= Len(columnTypes')
             /\ ~debug => Len(chunks'[c]) = Len(columnTypes')
  <2>1. CASE \E T \in TypeNames : AddColumn(T)
    <3>1. PICK T \in TypeNames : AddColumn(T)
      BY <2>1
    <3>2. /\ columnTypes' = Append(columnTypes, T)
          /\ c \in DOMAIN chunks /\ chunks'[c] = Append(chunks[c], NewSegment(T))
      BY <3>1 DEF AddColumn
    <3>3. Len(columnTypes') = Len(columnTypes) + 1
      BY <1>1, <3>2
    <3> QED
      BY <1>1, <3>1, <3>2, <3>3, CarefulAddColumn DEF ColumnsAgree
  <2>2. CASE \A T \in TypeNames : ~AddColumn(T)
    <3>1. /\ ~debug => columnTypes' = columnTypes
          /\ Len(columnTypes') >= Len(columnTypes)
      BY <1>1, <1>3, <2>2
    <3>2. CASE c \in DOMAIN chunks /\ chunks'[c] = chunks[c]
      BY <1>1, <3>1, <3>2 DEF ColumnsAgree
    <3>3. CASE c \in DOMAIN chunks /\ chunks'[c] = Compressed(chunks[c])
      <4>1. IsRectangular(chunks[c]) /\ HasNoNull(chunks[c]) /\ chunks[c] \in Seq(Segment)
        BY <1>1, <3>3
      <4>2. IsRectangular(chunks'[c]) /\ HasNoNull(chunks'[c]) /\ Len(chunks'[c]) = Len(chunks[c])
        BY <3>3, <4>1, RectangularCompressed
      <4> QED
        BY <1>1, <3>1, <3>3, <4>2 DEF ColumnsAgree
    <3>4. CASE chunks'[c] = FreshChunk /\ LastChunkIsFull /\ HasRoom
      BY <1>1, <3>1, <3>4, CarefulFreshChunk
    <3>5. ASSUME NEW row \in Rows, NEW cells \in CastRows(Last(ChunksWithRoom), row),
                 AppendRow(row), chunks'[c] = WithCells(Last(ChunksWithRoom), cells)
          PROVE  /\ IsRectangular(chunks'[c]) /\ HasNoNull(chunks'[c])
                 /\ Len(chunks'[c]) <= Len(columnTypes')
                 /\ ~debug => Len(chunks'[c]) = Len(columnTypes')
      <4>1. Len(row) = Len(Last(ChunksWithRoom)) /\ HasRoom
        BY <3>5, CarefulRow
      <4> QED
        BY <3>1, <3>5, <4>1, CarefulLastChunk, RectangularWithCells
    <3> QED
      BY <1>1, <2>2, <3>2, <3>3, <3>4, <3>5, ChunkCases
  <2> QED
    BY <2>1, <2>2
<1>5. Rectangular' /\ \A c \in DOMAIN chunks' : HasNoNull(chunks'[c])
  BY <1>4 DEF Rectangular
<1>6. ASSUME ~debug, NEW i \in DOMAIN columnTypes' PROVE columnTypes'[i] \in DataTypes
  <2>1. \A j \in DOMAIN columnTypes : columnTypes[j] \in DataTypes
    BY <1>1, <1>6 DEF ColumnsAgree
  <2>2. CASE UNCHANGED columnTypes
    BY <1>6, <2>1, <2>2
  <2>3. ASSUME NEW T \in TypeNames, AddColumn(T) PROVE columnTypes'[i] \in DataTypes
    <3>1. columnTypes' = Append(columnTypes, T) /\ T \in DataTypes
      BY <1>6, <2>3 DEF AddColumn, MayAddColumn
    <3> QED
      BY <1>1, <1>6, <2>1, <3>1
  <2> QED
    BY <1>3, <1>6, <2>2, <2>3
<1>7. ColumnsAgree'
  BY <1>3, <1>4, <1>6 DEF ColumnsAgree
<1> QED
  BY <1>2, <1>5, <1>7 DEF CarefulInv

\* A new table has no rows that could be torn.
LEMMA CarefulInit == Init => CarefulInv
BY TypedInit
   DEF Init, CarefulInv, TypedInv, CompressedOnTheLeft, IsCompressedOnTheLeft, Rectangular,
       IsRectangular, HasNoNull, ColumnsAgree

\* Careful callers whose values can be cast find a value in every column of every
\* row, in every build: no row is ever stored in part (Table::append).
THEOREM RowsAreWhole ==
    ASSUME CarefulCallers, CastsSucceed
    PROVE  Spec => []Rectangular
<1>1. CarefulInv => Rectangular
  BY DEF CarefulInv
<1> QED
  BY <1>1, CarefulInit, CarefulStep, PTL DEF Spec

-----------------------------------------------------------------------------
\* An append of a careful caller's row is defined.
LEMMA AppendIsDefined ==
    ASSUME CarefulInv, CarefulCallers, NEW row \in Rows, AppendRow(row)
    PROVE  status' = status
<1> DEFINE chunk == Last(ChunksWithRoom)
<1>1. PICK cells \in CastRows(chunk, row) :
        status' = IF StopsUndefined(chunk, cells) THEN "undefined" ELSE status
  BY Zenon DEF AppendRow
<1>2. /\ Len(row) = Len(chunk) /\ chunk \in Seq(Segment) /\ IsTyped(chunk) /\ HasNoNull(chunk)
  BY CarefulRow, CarefulLastChunk
<1>3. DOMAIN cells = DOMAIN chunk
  BY <1>2, CastRowsFacts
<1>4. ~StopsUndefined(chunk, cells)
  BY <1>2, <1>3 DEF StopsUndefined, HasNoNull
<1> QED
  BY <1>1, <1>4

\* Every row that a chunk counts can be read.
LEMMA ReadIsDefined ==
    ASSUME CarefulInv, NEW c \in DOMAIN chunks, NEW r \in Nat
    PROVE  ~ReadFails(c, r)
<1> SUFFICES ASSUME ReadFails(c, r) PROVE FALSE
  OBVIOUS
<1> DEFINE chunk == chunks[c]
<1>1. chunk \in Seq(Segment) /\ IsRectangular(chunk) /\ HasNoNull(chunk)
  BY TypedChunks DEF CarefulInv, Rectangular
<1>2. PICK i \in DOMAIN chunk : ~ReadsCell(chunk[i], r)
  BY DEF ReadFails
<1>3. Size(chunk) = Len(chunk[1].values) /\ 1 \in DOMAIN chunk /\ chunk # <<>>
  BY <1>1, <1>2, SizeCases
<1>4. r <= Size(chunk)
  BY <1>1, <1>3 DEF ReadFails, SizeIsUndefined, HasNoNull
<1>5. Len(chunk[i].values) = Len(chunk[1].values)
  BY <1>1, <1>2, <1>3 DEF IsRectangular
<1> QED
  BY <1>1, <1>2, <1>3, <1>4, <1>5 DEF ReadsCell, HasNoNull

\* No call of a careful caller is undefined or ends the program.
LEMMA RunningStep ==
    ASSUME CarefulCallers, CastsSucceed, TypeNames \subseteq DataTypes
    PROVE  CarefulInv /\ KeepsRunning /\ [Next]_vars => KeepsRunning'
<1> SUFFICES ASSUME CarefulInv, KeepsRunning, [Next]_vars PROVE status' = status
  BY DEF KeepsRunning
<1>1. /\ Len(chunks) \in DOMAIN chunks /\ columnTypes \in Seq(TypeNames)
      /\ \A c \in DOMAIN chunks : chunks[c] \in Seq(Segment) /\ HasNoNull(chunks[c])
  BY TypedChunks DEF CarefulInv, TypeOK
<1>2. ~AppendUndefined
  <2>1. LastChunk \in Seq(Segment) /\ HasNoNull(LastChunk)
    BY <1>1 DEF LastChunk
  <2>2. LastChunk # <<>> => 1 \in DOMAIN LastChunk
    BY <2>1
  <2> QED
    BY <2>1, <2>2 DEF AppendUndefined, SizeIsUndefined, HasNoNull
<1>3. ASSUME NEW c \in DOMAIN chunks PROVE ~CompressTerminates(c)
  <2>1. ASSUME NEW i \in DOMAIN chunks[c], SegmentThrows(columnTypes[i]) PROVE FALSE
    <3>1. Len(chunks[c]) <= Len(columnTypes)
      BY DEF CarefulInv, ColumnsAgree
    <3>2. i \in DOMAIN columnTypes
      BY <1>1, <2>1, <3>1
    <3> QED
      BY <1>1, <2>1, <3>2 DEF SegmentThrows
  <2> QED
    BY <2>1 DEF CompressTerminates
<1>4. ASSUME NEW c \in DOMAIN chunks, NEW r \in 1 .. MaxChunkRows PROVE ~ReadFails(c, r)
  BY BoundsAssumption, ReadIsDefined
<1>5. ASSUME NEW row \in Rows, AppendRow(row) PROVE status' = status
  BY <1>5, AppendIsDefined
<1> QED
  BY <1>2, <1>3, <1>4, <1>5
     DEF Next, vars, AddColumnRefused, AddColumnThrows, AddColumn, AppendThrows, AppendArity,
         CompressNoChunk, CompressChunk, ReadRow

\* Careful callers who ask for known types and whose values can be cast never
\* crash the program nor leave what C++ defines, in any build.
THEOREM CallsAreDefined ==
    ASSUME CarefulCallers, CastsSucceed, TypeNames \subseteq DataTypes
    PROVE  Spec => []KeepsRunning
<1>1. Init => KeepsRunning
  BY DEF Init, KeepsRunning
<1> QED
  BY <1>1, CarefulInit, CarefulStep, RunningStep, PTL DEF Spec

-----------------------------------------------------------------------------
(* Careful callers see a RowStore.                                             *)

\* Every chunk has the columns of the table, of their types.
SchemaAgrees ==
    \A c \in DOMAIN chunks :
        /\ Len(chunks[c]) = Len(columnTypes)
        /\ \A i \in DOMAIN chunks[c] : chunks[c][i].type = columnTypes[i]

\* What the refinement needs of the state before a step.
StoreInv == CarefulInv /\ SchemaAgrees

\* A fresh chunk has the columns of the table.
LEMMA SchemaFreshChunk ==
    ASSUME StoreInv
    PROVE  /\ Len(FreshChunk) = Len(columnTypes)
           /\ \A i \in DOMAIN FreshChunk : FreshChunk[i].type = columnTypes[i]
<1>1. columnTypes \in Seq(TypeNames)
  BY DEF StoreInv, CarefulInv, TypedInv, TypeOK
<1>2. ASSUME NEW i \in 1 .. Len(columnTypes) PROVE FreshChunk[i].type = columnTypes[i]
  <2>1. FreshChunk[i] = NewSegment(columnTypes[i]) /\ columnTypes[i] \in TypeNames
    BY <1>1, FreshChunkFacts
  <2> QED
    BY <2>1, NewSegmentFacts
<1> QED
  BY <1>1, <1>2, FreshChunkFacts

\* So does the chunk that append writes to.
LEMMA SchemaLastChunk ==
    ASSUME StoreInv
    PROVE  LET chunk == Last(ChunksWithRoom)
           IN  /\ chunk \in Seq(Segment) /\ IsTyped(chunk)
               /\ Len(chunk) = Len(columnTypes)
               /\ \A i \in DOMAIN chunk : chunk[i].type = columnTypes[i]
<1>1. /\ Len(chunks) \in DOMAIN chunks
      /\ Last(ChunksWithRoom) \in Seq(Segment) /\ IsTyped(Last(ChunksWithRoom))
      /\ Last(ChunksWithRoom) = FreshChunk \/ Last(ChunksWithRoom) = chunks[Len(chunks)]
  BY TypedChunks DEF StoreInv, CarefulInv
<1> QED
  BY <1>1, SchemaFreshChunk DEF StoreInv, SchemaAgrees

\* With known types only, the columns of the table and of its chunks stay the same.
LEMMA SchemaStep ==
    ASSUME TypeNames \subseteq DataTypes
    PROVE  StoreInv /\ [Next]_vars => SchemaAgrees'
<1> SUFFICES ASSUME StoreInv, [Next]_vars, NEW c \in DOMAIN chunks'
             PROVE  /\ Len(chunks'[c]) = Len(columnTypes')
                    /\ \A i \in DOMAIN chunks'[c] : chunks'[c][i].type = columnTypes'[i]
  BY DEF SchemaAgrees
<1>1. /\ TypedInv /\ TypeOK /\ columnTypes \in Seq(TypeNames) /\ Len(columnTypes) \in Nat
      /\ DOMAIN columnTypes = 1 .. Len(columnTypes)
      /\ \A d \in DOMAIN chunks : chunks[d] \in Seq(Segment)
  BY TypedChunks DEF StoreInv, CarefulInv, TypeOK
<1>2. CASE \E T \in TypeNames : AddColumn(T)
  <2>1. PICK T \in TypeNames : AddColumn(T)
    BY <1>2
  <2>2. /\ columnTypes' = Append(columnTypes, T)
        /\ c \in DOMAIN chunks /\ chunks'[c] = Append(chunks[c], NewSegment(T))
    BY <2>1 DEF AddColumn
  <2> DEFINE chunk == chunks[c]
  <2>3. /\ chunk \in Seq(Segment) /\ Len(chunk) = Len(columnTypes)
        /\ \A i \in 1 .. Len(chunk) : chunk[i].type = columnTypes[i]
    BY <1>1, <2>2 DEF StoreInv, SchemaAgrees
  <2>4. NewSegment(T).type = T /\ NewSegment(T) \in Segment
    BY NewSegmentFacts
  <2> HIDE DEF chunk
  <2>5. /\ Len(Append(chunk, NewSegment(T))) = Len(columnTypes) + 1
        /\ DOMAIN Append(chunk, NewSegment(T)) = 1 .. (Len(columnTypes) + 1)
        /\ \A i \in 1 .. Len(columnTypes) : Append(chunk, NewSegment(T))[i] = chunk[i]
        /\ Append(chunk, NewSegment(T))[Len(columnTypes) + 1] = NewSegment(T)
    BY <1>1, <2>3, <2>4
  <2>6. /\ Len(columnTypes') = Len(columnTypes) + 1
        /\ \A i \in 1 .. Len(columnTypes) : columnTypes'[i] = columnTypes[i]
        /\ columnTypes'[Len(columnTypes) + 1] = T
    BY <1>1, <2>2
  <2>7. \A i \in 1 .. (Len(columnTypes) + 1) : i \in 1 .. Len(columnTypes) \/ i = Len(columnTypes) + 1
    BY <1>1
  <2> QED
    BY <2>2, <2>3, <2>4, <2>5, <2>6, <2>7 DEF chunk
<1>3. CASE \A T \in TypeNames : ~AddColumn(T)
  <2>1. columnTypes' = columnTypes
    BY <1>3
       DEF Next, vars, AddColumnRefused, AddColumnThrows, SegmentThrows, AppendUndefined,
           AppendThrows, AppendArity, AppendRow, CompressNoChunk, CompressChunk,
           CompressTerminates, ReadRow, ReadFails
  <2>2. CASE c \in DOMAIN chunks /\ chunks'[c] = chunks[c]
    BY <2>1, <2>2 DEF StoreInv, SchemaAgrees
  <2>3. CASE c \in DOMAIN chunks /\ chunks'[c] = Compressed(chunks[c])
    <3>1. /\ chunks[c] \in Seq(Segment) /\ Len(chunks[c]) = Len(columnTypes)
          /\ \A i \in DOMAIN chunks[c] : chunks[c][i].type = columnTypes[i]
      BY <1>1, <2>3 DEF StoreInv, SchemaAgrees
    <3> QED
      BY <2>1, <2>3, <3>1, CompressedFacts
  <2>4. CASE chunks'[c] = FreshChunk
    BY <2>1, <2>4, SchemaFreshChunk
  <2>5. CASE \E row \in Rows : \E cells \in CastRows(Last(ChunksWithRoom), row) :
               chunks'[c] = WithCells(Last(ChunksWithRoom), cells)
    <3> DEFINE chunk == Last(ChunksWithRoom)
    <3>0. PICK row \in Rows : \E cells \in CastRows(chunk, row) : chunks'[c] = WithCells(chunk, cells)
      BY <2>5
    <3>1. PICK cells \in CastRows(chunk, row) : chunks'[c] = WithCells(chunk, cells)
      BY <3>0
    <3>2. /\ chunk \in Seq(Segment) /\ IsTyped(chunk) /\ Len(chunk) = Len(columnTypes)
          /\ \A i \in DOMAIN chunk : chunk[i].type = columnTypes[i]
      BY SchemaLastChunk
    <3> HIDE DEF chunk
    <3>3. /\ DOMAIN WithCells(chunk, cells) = DOMAIN chunk
          /\ Len(WithCells(chunk, cells)) = Len(chunk)
          /\ \A i \in DOMAIN chunk : WithCells(chunk, cells)[i].type = chunk[i].type
      BY <3>2, WithCellsFacts
    <3> QED
      BY <2>1, <3>1, <3>2, <3>3
  <2> QED
    BY <1>1, <1>3, <2>2, <2>3, <2>4, <2>5, ChunkCases
<1> QED
  BY <1>2, <1>3

-----------------------------------------------------------------------------
\* A rectangular chunk has as many complete rows as it counts.
LEMMA RectangularRows ==
    ASSUME NEW chunk \in Seq(Segment), IsRectangular(chunk)
    PROVE  /\ Descends(chunk)
           /\ CompleteRows(chunk) \in Seq(Seq(AllTypeVariant))
           /\ CompleteRows(chunk) = [r \in 1 .. Size(chunk) |-> [i \in 1 .. Len(chunk) |-> chunk[i].values[r]]]
           /\ Len(CompleteRows(chunk)) = Size(chunk)
           /\ Size(chunk) \in Nat
           /\ \A i \in 1 .. Len(chunk) : Len(chunk[i].values) = Size(chunk)
<1>1. Descends(chunk) /\ Size(chunk) \in Nat
  BY LengthType, SizeFacts DEF IsRectangular, Descends
<1>2. \A i \in 1 .. Len(chunk) : Len(chunk[i].values) = Size(chunk)
  <2>1. ASSUME NEW i \in 1 .. Len(chunk) PROVE Len(chunk[i].values) = Size(chunk)
    <3>1. Len(chunk) > 0
      OBVIOUS
    <3>2. Size(chunk) = Len(chunk[1].values) /\ 1 \in DOMAIN chunk /\ i \in DOMAIN chunk
      BY <3>1, SizeCases
    <3> QED
      BY <3>2 DEF IsRectangular
  <2> QED
    BY <2>1
<1>3. CompleteRows(chunk) = [r \in 1 .. Size(chunk) |-> [i \in 1 .. Len(chunk) |-> chunk[i].values[r]]]
  <2>1. CASE chunk = <<>>
    <3>1. CompleteRows(chunk) = <<>> /\ Size(chunk) = 0
      BY <1>1, <2>1, CompleteRowsFacts, SizeCases
    <3> QED
      BY <3>1
  <2>2. CASE chunk # <<>>
    <3>1. Len(chunk[Len(chunk)].values) = Size(chunk)
      BY <1>2, <2>2
    <3> QED
      BY <1>1, <2>2, <3>1, CompleteRowsFacts
  <2> QED
    BY <2>1, <2>2
<1>4. CompleteRows(chunk) \in Seq(Seq(AllTypeVariant))
  BY <1>1, CompleteRowsFacts
<1>5. Len(CompleteRows(chunk)) = Size(chunk)
  BY <1>1, <1>3
<1> QED
  BY <1>1, <1>2, <1>3, <1>4, <1>5

\* A row appended whole is the chunk's next complete row.
LEMMA WrittenRow ==
    ASSUME NEW chunk \in Seq(Segment), IsTyped(chunk), IsRectangular(chunk), chunk # <<>>,
           NEW row \in Rows, NEW cells \in CastRows(chunk, row),
           WrittenCells(chunk, cells) = DOMAIN cells, Len(row) = Len(chunk)
    PROVE  /\ cells \in Seq(AllTypeVariant)
           /\ CompleteRows(WithCells(chunk, cells)) = Append(CompleteRows(chunk), cells)
<1> DEFINE after == WithCells(chunk, cells)
           n == Len(chunk)
           size == Size(chunk)
           Row(r) == [i \in 1 .. n |-> chunk[i].values[r]]
<1>1. /\ n \in Nat \ {0} /\ size \in Nat /\ DOMAIN cells = 1 .. n
      /\ \A i \in 1 .. n : Len(chunk[i].values) = size
  BY CastRowsFacts, RectangularRows
<1>2. /\ after \in Seq(Segment) /\ Len(after) = n
      /\ \A i \in 1 .. n : /\ after[i].values = Append(chunk[i].values, cells[i])
                           /\ Len(after[i].values) = size + 1
  BY <1>1, WithCellsFacts
<1>3. cells = [i \in 1 .. n |-> cells[i]] /\ \A i \in 1 .. n : cells[i] \in AllTypeVariant
  BY <1>1, CastRowsFacts DEF CastRows
<1>4. cells \in Seq(AllTypeVariant)
  BY <1>1, <1>3
<1> HIDE DEF after
<1>5. Size(after) = size + 1 /\ IsRectangular(after)
  <2>1. Size(after) = Len(after[1].values) /\ DOMAIN after = 1 .. n /\ 1 \in 1 .. n
    BY <1>1, <1>2, SizeCases
  <2>2. Size(after) = size + 1
    BY <1>2, <2>1
  <2>3. IsRectangular(after)
    BY <1>2, <2>1, Zenon DEF IsRectangular
  <2> QED
    BY <2>2, <2>3
<1>6. ASSUME NEW i \in 1 .. n
      PROVE  /\ \A r \in 1 .. size : after[i].values[r] = chunk[i].values[r]
             /\ after[i].values[size + 1] = cells[i]
  <2>1. chunk[i] \in Segment
    OBVIOUS
  <2>2. chunk[i].values \in Seq(AllTypeVariant) /\ cells[i] \in AllTypeVariant
    BY <1>3, <2>1 DEF Segment
  <2>3. ASSUME NEW v \in Seq(AllTypeVariant), NEW x \in AllTypeVariant
        PROVE  (\A r \in 1 .. Len(v) : Append(v, x)[r] = v[r]) /\ Append(v, x)[Len(v) + 1] = x
    OBVIOUS
  <2>4. after[i].values = Append(chunk[i].values, cells[i]) /\ Len(chunk[i].values) = size
    BY <1>1, <1>2
  <2> QED
    BY <2>2, <2>3, <2>4
<1>7. CompleteRows(chunk) = [r \in 1 .. size |-> Row(r)]
  BY RectangularRows
<1>8. CompleteRows(after) = [r \in 1 .. (size + 1) |-> [i \in 1 .. n |-> after[i].values[r]]]
  BY <1>2, <1>5, RectangularRows
<1>9. ASSUME NEW r \in 1 .. (size + 1)
      PROVE  [i \in 1 .. n |-> after[i].values[r]] = IF r = size + 1 THEN cells ELSE Row(r)
  <2>1. CASE r = size + 1
    BY <1>3, <1>6, <2>1
  <2>2. CASE r # size + 1
    <3>1. r \in 1 .. size
      BY <1>1, <2>2
    <3> QED
      BY <1>6, <2>2, <3>1
  <2> QED
    BY <2>1, <2>2
<1> HIDE DEF size, n, Row
<1>10. Append([r \in 1 .. size |-> Row(r)], cells) =
         [r \in 1 .. (size + 1) |-> IF r = size + 1 THEN cells ELSE Row(r)]
  BY <1>1
<1> QED
  BY <1>4, <1>7, <1>8, <1>9, <1>10 DEF after

-----------------------------------------------------------------------------
\* The store casts as the table does.
LEMMA StoreCasts == \A T, v : RS!TypeCast(T, v) = TypeCast(T, v)
<1>1. /\ RS!IntegralTypes = IntegralTypes /\ RS!FloatingTypes = FloatingTypes /\ RS!BadCast = BadCast
      /\ \A T, half : RS!FitsIntegral(T, half) = FitsIntegral(T, half)
      /\ \A limit, half : RS!Coarse(limit, half) = Coarse(limit, half)
      /\ \A T, half : RS!Number(T, half) = Number(T, half)
      /\ \A half : RS!Truncate(half) = Truncate(half)
      /\ \A T : RS!IntegralMax(T) = IntegralMax(T)
  BY Zenon DEF RS!IntegralTypes, IntegralTypes, RS!FloatingTypes, FloatingTypes, RS!BadCast, BadCast,
               RS!FitsIntegral, FitsIntegral, RS!IntegralMax, IntegralMax, RS!Coarse, Coarse,
               RS!Number, Number, RS!Truncate, Truncate
<1>2. \A v : RS!TextOf(v) = TextOf(v)
  BY <1>1, Zenon DEF RS!TextOf, TextOf
<1>3. \A T, text : RS!LexicalCast(T, text) = LexicalCast(T, text)
  BY <1>1, Zenon DEF RS!LexicalCast, LexicalCast
<1>4. \A T, double : RS!NumericCast(T, double) = NumericCast(T, double)
  BY <1>1, Zenon DEF RS!NumericCast, NumericCast
<1> QED
  BY <1>1, <1>2, <1>3, <1>4, Zenon DEF RS!TypeCast, TypeCast

\* An answer to a caller of the store is an answer to a caller of the table.
LEMMA StoreOutcome == \A call, outcome, row : RS!Outcome(call, outcome, row) = Outcome(call, outcome, row)
BY DEF RS!Outcome, Outcome

\* What each step needs of the state it is taken in.
LEMMA StoreFacts ==
    ASSUME StoreInv
    PROVE  /\ TypedInv /\ LengthsDescend /\ CarefulInv
           /\ chunks \in Seq(Seq(Segment)) /\ Len(chunks) \in Nat \ {0}
           /\ columnTypes \in Seq(TypeNames)
           /\ RowsOf(chunks) \in Seq(Seq(Seq(AllTypeVariant))) /\ Len(RowsOf(chunks)) = Len(chunks)
           /\ TableRows = FlattenSeq(RowsOf(chunks))
           /\ TableRows \in Seq(Seq(AllTypeVariant))
           /\ \A c \in 1 .. Len(chunks) :
                /\ RowsOf(chunks)[c] = CompleteRows(chunks[c])
                /\ chunks[c] \in Seq(Segment) /\ IsRectangular(chunks[c])
                /\ Len(chunks[c]) = Len(columnTypes)
<1>1. /\ TypedInv /\ CarefulInv /\ Rectangular /\ columnTypes \in Seq(TypeNames)
      /\ chunks \in Seq(Seq(Segment)) /\ Len(chunks) \in Nat \ {0}
      /\ DOMAIN chunks = 1 .. Len(chunks)
  BY DEF StoreInv, CarefulInv, TypedInv, TypeOK
<1>2. \A c \in 1 .. Len(chunks) : /\ chunks[c] \in Seq(Segment) /\ IsRectangular(chunks[c])
                                  /\ Len(chunks[c]) = Len(columnTypes)
  <2>1. \A c \in DOMAIN chunks : IsRectangular(chunks[c])
    BY <1>1 DEF Rectangular
  <2>2. \A c \in DOMAIN chunks : Len(chunks[c]) = Len(columnTypes)
    BY DEF StoreInv, SchemaAgrees
  <2>3. \A c \in 1 .. Len(chunks) : chunks[c] \in Seq(Segment)
    BY <1>1
  <2> QED
    BY <1>1, <2>1, <2>2, <2>3, Zenon
<1>3. LengthsDescend
  BY <1>1, <1>2, RectangularRows DEF LengthsDescend
<1>4. /\ RowsOf(chunks) \in Seq(Seq(Seq(AllTypeVariant))) /\ Len(RowsOf(chunks)) = Len(chunks)
      /\ \A c \in 1 .. Len(chunks) : RowsOf(chunks)[c] = CompleteRows(chunks[c])
  BY <1>1, <1>3, RowsOfFacts DEF LengthsDescend
<1>5. TableRows = FlattenSeq(RowsOf(chunks)) /\ TableRows \in Seq(Seq(AllTypeVariant))
  BY <1>1, <1>3, TableRowsFacts
<1> QED
  BY <1>1, <1>2, <1>3, <1>4, <1>5

\* The store is empty exactly when the table is.
LEMMA StoreIsEmpty ==
    ASSUME StoreInv
    PROVE  TableRows = <<>> <=> IsEmpty
<1>1. TableRows = <<>> <=> \A c \in 1 .. Len(chunks) : RowsOf(chunks)[c] = <<>>
  BY StoreFacts, FlattenSeqEmpty
<1>2. ASSUME NEW c \in 1 .. Len(chunks)
      PROVE  RowsOf(chunks)[c] = <<>> <=> Size(chunks[c]) = 0
  <2>1. RowsOf(chunks)[c] = CompleteRows(chunks[c])
    BY StoreFacts
  <2>2. /\ CompleteRows(chunks[c]) \in Seq(Seq(AllTypeVariant))
        /\ Len(CompleteRows(chunks[c])) = Size(chunks[c])
    BY StoreFacts, RectangularRows
  <2> QED
    BY <2>1, <2>2
<1>3. DOMAIN chunks = 1 .. Len(chunks)
  BY StoreFacts
<1> QED
  BY <1>1, <1>2, <1>3 DEF IsEmpty

\* add_column adds a column to a store without rows.
LEMMA StoreAddColumn ==
    ASSUME StoreInv, CarefulCallers, NEW T \in TypeNames, AddColumn(T)
    PROVE  RS!AddColumn
<1>1. /\ columnTypes' = Append(columnTypes, T)
      /\ chunks' = [c \in DOMAIN chunks |-> Append(chunks[c], NewSegment(T))]
      /\ result' = Outcome("add_column", "done", <<>>)
      /\ T \in DataTypes
      /\ IsEmpty
  BY BuildsAssumption DEF AddColumn, MayAddColumn, SegmentThrows, StoreInv, CarefulInv, TypedInv, TypeOK
<1>2. TableRows = <<>>
  BY <1>1, StoreIsEmpty
<1>3. /\ Len(chunks') = Len(chunks) /\ DOMAIN chunks' = 1 .. Len(chunks)
      /\ DOMAIN chunks = 1 .. Len(chunks) /\ Len(chunks) \in Nat
      /\ \A c \in 1 .. Len(chunks) : chunks'[c] = Append(chunks[c], NewSegment(T))
  BY <1>1, StoreFacts
<1>4. ASSUME NEW c \in 1 .. Len(chunks)
      PROVE  CompleteRows(chunks'[c]) = <<>>
  <2> DEFINE after == Append(chunks[c], NewSegment(T))
  <2>1. IsRectangular(after) /\ after \in Seq(Segment) /\ Size(after) = 0
    <3>1. chunks[c] \in Seq(Segment) /\ NewSegment(T) \in Segment
      BY StoreFacts, NewSegmentFacts
    <3>2. Size(chunks[c]) = 0
      BY <1>1, <1>3 DEF IsEmpty
    <3> QED
      BY <1>3, <3>1, <3>2, StoreFacts, CarefulAddColumn, SizeFacts
  <2> HIDE DEF after
  <2>2. CompleteRows(after) \in Seq(Seq(AllTypeVariant)) /\ Len(CompleteRows(after)) = 0
    BY <2>1, RectangularRows
  <2>3. CompleteRows(after) = <<>>
    BY <2>2
  <2> QED
    BY <1>3, <2>3 DEF after
<1>5. TableRows' = <<>>
  <2>1. TableRows' = FlattenSeq(RowsOf(chunks'))
    BY Zenon DEF TableRows, RowsOf
  <2>2. RowsOf(chunks') = [c \in 1 .. Len(chunks) |-> CompleteRows(chunks'[c])]
    BY <1>3 DEF RowsOf
  <2>3. RowsOf(chunks') = [c \in 1 .. Len(chunks) |-> <<>>]
    BY <1>4, <2>2
  <2>4. ASSUME NEW s, s = [c \in 1 .. Len(chunks) |-> <<>>] PROVE FlattenSeq(s) = <<>>
    <3>1. /\ s \in Seq(Seq(Seq(AllTypeVariant))) /\ Len(s) = Len(chunks)
          /\ \A c \in 1 .. Len(s) : s[c] = <<>>
      BY <1>3, <2>4
    <3> QED
      BY <3>1, FlattenSeqEmpty
  <2> QED
    BY <2>1, <2>3, <2>4
<1>6. HasCompressedSegment' = HasCompressedSegment
  <2>1. ASSUME NEW c \in 1 .. Len(chunks)
        PROVE  (\E i \in DOMAIN chunks'[c] : chunks'[c][i].kind = "dictionary") <=>
               (\E i \in DOMAIN chunks[c] : chunks[c][i].kind = "dictionary")
    <3> DEFINE after == Append(chunks[c], NewSegment(T))
               n == Len(chunks[c])
    <3>1. /\ DOMAIN after = 1 .. (n + 1) /\ DOMAIN chunks[c] = 1 .. n /\ n \in Nat
          /\ \A i \in 1 .. n : after[i] = chunks[c][i]
          /\ after[n + 1].kind # "dictionary"
      <4>1. chunks[c] \in Seq(Segment)
        BY StoreFacts
      <4> QED
        BY <4>1, NewColumnSegments
    <3> HIDE DEF after, n
    <3>2. \A i \in 1 .. (n + 1) : i \in 1 .. n \/ i = n + 1
      BY <3>1
    <3>3. \A i \in 1 .. n : i \in 1 .. (n + 1)
      BY <3>1
    <3>4. chunks'[c] = after
      BY <1>3 DEF after
    <3> QED
      BY <3>1, <3>2, <3>3, <3>4
  <2> QED
    BY <1>3, <2>1, Zenon DEF HasCompressedSegment
<1> QED
  BY <1>1, <1>2, <1>5, <1>6, StoreOutcome DEF RS!AddColumn

\* Whether chunks have a compressed segment.
HasDictionary(cs) == \E c \in DOMAIN cs : \E i \in DOMAIN cs[c] : cs[c][i].kind = "dictionary"

\* Chunks whose segments are of the same kinds have compressed segments alike.
LEMMA SameKinds ==
    ASSUME NEW cs, NEW ds, DOMAIN ds = DOMAIN cs,
           \A c \in DOMAIN cs : /\ DOMAIN ds[c] = DOMAIN cs[c]
                                /\ \A i \in DOMAIN cs[c] : ds[c][i].kind = cs[c][i].kind
    PROVE  HasDictionary(ds) <=> HasDictionary(cs)
BY Zenon DEF HasDictionary

\* What append finds, or makes, to append to.
LEMMA StoreRoom ==
    ASSUME StoreInv
    PROVE  LET room == ChunksWithRoom
               chunk == Last(room)
           IN  /\ room \in Seq(Seq(Segment)) /\ Len(room) \in Nat \ {0}
               /\ DOMAIN room = 1 .. Len(room)
               /\ RowsOf(room) \in Seq(Seq(Seq(AllTypeVariant))) /\ Len(RowsOf(room)) = Len(room)
               /\ \A c \in 1 .. Len(room) : RowsOf(room)[c] = CompleteRows(room[c])
               /\ TableRows = FlattenSeq(RowsOf(room))
               /\ HasDictionary(room) <=> HasCompressedSegment
               /\ chunk = room[Len(room)]
<1> DEFINE room == ChunksWithRoom
<1>1. /\ TypedInv /\ TypeOK /\ LengthsDescend
      /\ chunks \in Seq(Seq(Segment)) /\ Len(chunks) \in Nat \ {0} /\ DOMAIN chunks = 1 .. Len(chunks)
  BY StoreFacts, TypedChunks
<1>2. /\ room \in Seq(Seq(Segment)) /\ Len(room) \in Nat \ {0} /\ DOMAIN room = 1 .. Len(room)
      /\ \A c \in DOMAIN room : Descends(room[c])
      /\ TableRows = FlattenSeq(RowsOf(room))
  BY <1>1, TableRowsFacts
<1>3. /\ RowsOf(room) \in Seq(Seq(Seq(AllTypeVariant))) /\ Len(RowsOf(room)) = Len(room)
      /\ \A c \in 1 .. Len(room) : RowsOf(room)[c] = CompleteRows(room[c])
  BY <1>2, RowsOfFacts
<1>4. /\ Len(room) = IF LastChunkIsFull THEN Len(chunks) + 1 ELSE Len(chunks)
      /\ \A c \in 1 .. Len(chunks) : room[c] = chunks[c]
      /\ Last(room) = room[Len(room)]
      /\ LastChunkIsFull => Last(room) = FreshChunk
  BY <1>1, ChunksWithRoomFacts
<1>5. HasDictionary(room) <=> HasCompressedSegment
  <2>1. HasDictionary(chunks) <=> HasCompressedSegment
    BY Zenon DEF HasDictionary, HasCompressedSegment
  <2>2. CASE LastChunkIsFull
    <3>1. \A i \in DOMAIN FreshChunk : FreshChunk[i].kind # "dictionary"
      BY <1>1, FreshSegments
    <3>2. \A c \in DOMAIN room : c \in DOMAIN chunks \/ c = Len(room)
      BY <1>1, <1>2, <1>4, <2>2
    <3>3. \A c \in DOMAIN chunks : c \in DOMAIN room
      BY <1>1, <1>2, <1>4, <2>2
    <3> HIDE DEF room
    <3>4. room[Len(room)] = FreshChunk /\ \A c \in DOMAIN chunks : room[c] = chunks[c]
      BY <1>1, <1>4, <2>2
    <3> QED
      BY <2>1, <3>1, <3>2, <3>3, <3>4, Zenon DEF HasDictionary
  <2>3. CASE ~LastChunkIsFull
    BY <2>1, <2>3 DEF ChunksWithRoom
  <2> QED
    BY <2>2, <2>3
<1> QED
  BY <1>2, <1>3, <1>4, <1>5

\* What an append of a careful caller's row leaves of the chunks.
LEMMA AppendedChunks ==
    ASSUME StoreInv, CarefulCallers, CastsSucceed, NEW row \in Rows, AppendRow(row)
    PROVE  \E cells \in CastRows(Last(ChunksWithRoom), row) :
             LET room == ChunksWithRoom
                 chunk == Last(room)
                 n == Len(room)
             IN  /\ DOMAIN chunks' = 1 .. n
                 /\ \A c \in 1 .. (n - 1) : chunks'[c] = room[c]
                 /\ chunks'[n] = WithCells(chunk, cells)
                 /\ columnTypes' = columnTypes
                 /\ result' = Outcome("append", IF WrittenCells(chunk, cells) = DOMAIN cells
                                                THEN "done" ELSE "thrown", <<>>)
                 /\ DOMAIN cells = 1 .. Len(columnTypes)
                 /\ Len(row) = Len(columnTypes) /\ row \in [1 .. Len(columnTypes) -> Values]
                 /\ chunk \in Seq(Segment) /\ IsTyped(chunk) /\ Len(chunk) = Len(columnTypes)
                 /\ \A i \in 1 .. Len(columnTypes) : chunk[i].type = columnTypes[i]
                 /\ IsRectangular(chunk) /\ HasNoNull(chunk)
                 /\ WrittenCells(chunk, cells) \in {{}, 1 .. Len(columnTypes)}
                 /\ HasDictionary(chunks') <=> HasCompressedSegment
<1> DEFINE room == ChunksWithRoom
           chunk == Last(room)
           n == Len(room)
<1>1. /\ room \in Seq(Seq(Segment)) /\ n \in Nat \ {0} /\ DOMAIN room = 1 .. n
      /\ chunk = room[n] /\ (HasDictionary(room) <=> HasCompressedSegment)
  BY StoreRoom
<1>2. /\ Len(row) = Len(chunk) /\ HasRoom
      /\ HasNoNull(chunk) /\ IsRectangular(chunk) /\ IsCompressedOnTheLeft(chunk)
  BY CarefulRow, CarefulLastChunk DEF StoreInv
<1>3. /\ chunk \in Seq(Segment) /\ IsTyped(chunk) /\ Len(chunk) = Len(columnTypes)
      /\ \A i \in 1 .. Len(columnTypes) : chunk[i].type = columnTypes[i]
  BY SchemaLastChunk
<1>4. PICK cells \in CastRows(chunk, row) :
        /\ chunks' = [room EXCEPT ![n] = WithCells(chunk, cells)]
        /\ result' = Outcome("append", IF WrittenCells(chunk, cells) = DOMAIN cells
                                       THEN "done" ELSE "thrown", <<>>)
  BY Zenon DEF AppendRow
<1>5. DOMAIN cells = 1 .. Len(columnTypes)
  BY <1>2, <1>3, CastRowsFacts
<1>6. row \in [1 .. Len(columnTypes) -> Values]
  <2>1. PICK k \in 0 .. MaxColumns : row \in [1 .. k -> Values]
    BY DEF Rows
  <2>2. k \in Nat /\ Len(row) = k
    BY <2>1, BoundsAssumption
  <2> QED
    BY <1>2, <1>3, <2>1, <2>2
<1>7. WrittenCells(chunk, cells) \in {{}, 1 .. Len(columnTypes)}
  BY <1>2, <1>3, AllOrNothing
<1>8. /\ DOMAIN chunks' = 1 .. n /\ chunks'[n] = WithCells(chunk, cells)
      /\ \A c \in 1 .. (n - 1) : chunks'[c] = room[c]
      /\ \A c \in 1 .. n : c # n => chunks'[c] = room[c]
  BY <1>1, <1>4
<1>9. HasDictionary(chunks') <=> HasDictionary(room)
  <2>1. /\ DOMAIN WithCells(chunk, cells) = DOMAIN chunk
        /\ \A i \in DOMAIN chunk : WithCells(chunk, cells)[i].kind = chunk[i].kind
    BY <1>3, WithCellsFacts
  <2> HIDE DEF room, chunk, n
  <2>2. \A c \in DOMAIN room : /\ DOMAIN chunks'[c] = DOMAIN room[c]
                               /\ \A i \in DOMAIN room[c] : chunks'[c][i].kind = room[c][i].kind
    BY <1>1, <1>8, <2>1
  <2>3. DOMAIN chunks' = DOMAIN room
    BY <1>1, <1>8
  <2> QED
    BY <2>2, <2>3, SameKinds
<1>10. columnTypes' = columnTypes
  BY DEF AppendRow
<1> HIDE DEF room, chunk, n
<1> QED
  BY <1>1, <1>2, <1>3, <1>4, <1>5, <1>6, <1>7, <1>8, <1>9, <1>10 DEF room, chunk, n

\* Cells that are cast to the types of the columns are a row the store may hold.
LEMMA StoredCells ==
    ASSUME StoreInv, NEW chunk \in Seq(Segment), Len(chunk) = Len(columnTypes),
           \A i \in 1 .. Len(columnTypes) : chunk[i].type = columnTypes[i],
           NEW row \in [1 .. Len(columnTypes) -> Values], NEW cells \in CastRows(chunk, row),
           WrittenCells(chunk, cells) = 1 .. Len(columnTypes)
    PROVE  cells \in RS!StoredRows(row)
<1> DEFINE n == Len(columnTypes)
<1>1. DOMAIN row = 1 .. n
  OBVIOUS
<1>2. ASSUME NEW i \in 1 .. n PROVE cells[i] \in TypeCast(columnTypes[i], row[i])
  <2>1. Writable(chunk, cells, i)
    <3>1. i \in WrittenCells(chunk, cells) /\ i \in 1 .. i
      OBVIOUS
    <3> QED
      BY <3>1 DEF WrittenCells
  <2>2. i \in DOMAIN chunk /\ chunk[i].kind = "value"
    BY <2>1 DEF Writable
  <2> QED
    BY <1>1, <2>2 DEF CastRows
<1>3. cells \in [1 .. n -> UNION {TypeCast(columnTypes[i], row[i]) : i \in 1 .. n}]
  <2>1. cells = [i \in 1 .. n |-> cells[i]]
    BY <1>1 DEF CastRows
  <2> QED
    BY <1>2, <2>1
<1> HIDE DEF n
<1> QED
  BY <1>1, <1>2, <1>3, StoreCasts DEF RS!StoredRows, n

\* An append inserts a row in the store, or is refused because rows have been
\* compressed.
LEMMA StoreAppend ==
    ASSUME StoreInv, CarefulCallers, CastsSucceed, NEW row \in Rows, AppendRow(row)
    PROVE  RS!Insert \/ RS!Refuse
<1> DEFINE room == ChunksWithRoom
           chunk == Last(room)
           n == Len(room)
           columns == Len(columnTypes)
<1>1. PICK cells \in CastRows(chunk, row) :
        /\ DOMAIN chunks' = 1 .. n
        /\ \A c \in 1 .. (n - 1) : chunks'[c] = room[c]
        /\ chunks'[n] = WithCells(chunk, cells)
        /\ columnTypes' = columnTypes
        /\ result' = Outcome("append", IF WrittenCells(chunk, cells) = DOMAIN cells
                                       THEN "done" ELSE "thrown", <<>>)
        /\ DOMAIN cells = 1 .. columns
        /\ Len(row) = columns /\ row \in [1 .. columns -> Values]
        /\ chunk \in Seq(Segment) /\ IsTyped(chunk) /\ Len(chunk) = columns
        /\ \A i \in 1 .. columns : chunk[i].type = columnTypes[i]
        /\ IsRectangular(chunk) /\ HasNoNull(chunk)
        /\ WrittenCells(chunk, cells) \in {{}, 1 .. columns}
        /\ HasDictionary(chunks') <=> HasCompressedSegment
  BY AppendedChunks, Zenon
<1>2. /\ room \in Seq(Seq(Segment)) /\ n \in Nat \ {0} /\ DOMAIN room = 1 .. n
      /\ RowsOf(room) \in Seq(Seq(Seq(AllTypeVariant))) /\ Len(RowsOf(room)) = n
      /\ \A c \in 1 .. n : RowsOf(room)[c] = CompleteRows(room[c])
      /\ TableRows = FlattenSeq(RowsOf(room))
      /\ chunk = room[n]
  BY StoreRoom
<1> DEFINE after == WithCells(chunk, cells)
<1>3. after \in Seq(Segment) /\ columns \in Nat
  BY <1>1, StoreFacts, WithCellsFacts
<1>4. HasCompressedSegment' = HasCompressedSegment
  <2>1. HasCompressedSegment' <=> HasDictionary(chunks')
    BY Zenon DEF HasDictionary, HasCompressedSegment
  <2> QED
    BY <1>1, <2>1, Zenon DEF HasCompressedSegment
<1>5. TableRows' = FlattenSeq(RowsOf(chunks'))
  BY Zenon DEF TableRows, RowsOf
<1> HIDE DEF room, chunk, n, columns, after
<1>6. RowsOf(chunks') = [c \in 1 .. n |-> IF c = n THEN CompleteRows(after) ELSE CompleteRows(room[c])]
  <2>1. RowsOf(chunks') = [c \in 1 .. n |-> CompleteRows(chunks'[c])]
    BY <1>1 DEF RowsOf
  <2>2. \A c \in 1 .. n : c # n => chunks'[c] = room[c]
    BY <1>1, <1>2
  <2> QED
    BY <1>1, <2>1, <2>2 DEF after
<1>7. RowsOf(room) = [c \in 1 .. n |-> CompleteRows(room[c])]
  BY <1>2 DEF RowsOf
<1>8. ASSUME CompleteRows(after) = CompleteRows(chunk) PROVE TableRows' = TableRows
  BY <1>2, <1>5, <1>6, <1>7, <1>8
<1>9. CASE columns = 0
  <2>1. chunk = <<>> /\ after = <<>>
    <3>1. Len(after) = Len(chunk)
      BY <1>1, WithCellsFacts DEF after
    <3> QED
      BY <1>1, <1>3, <1>9, <3>1
  <2>2. result' = Outcome("append", "done", <<>>) /\ columnTypes = <<>>
    BY <1>1, <1>9, StoreFacts DEF columns
  <2>3. RS!Insert
    <3>1. TableRows' = TableRows
      BY <1>8, <2>1
    <3>2. row \in [1 .. Len(columnTypes) -> Values]
      BY <1>1 DEF columns
    <3> QED
      BY <1>1, <1>4, <2>2, <3>1, <3>2, StoreOutcome, Zenon DEF RS!Insert
  <2> QED
    BY <2>3
<1>10. CASE columns # 0 /\ WrittenCells(chunk, cells) = 1 .. columns
  <2>1. cells \in Seq(AllTypeVariant) /\ CompleteRows(after) = Append(CompleteRows(chunk), cells)
    <3>1. chunk # <<>>
      BY <1>1, <1>10
    <3> QED
      BY <1>1, <1>10, <3>1, WrittenRow DEF after
  <2>2. TableRows' = Append(TableRows, cells)
    <3>1. CompleteRows(after) \in Seq(Seq(AllTypeVariant))
      <4>1. CompleteRows(chunk) \in Seq(Seq(AllTypeVariant))
        BY <1>1, RectangularRows
      <4> QED
        BY <2>1, <4>1
    <3> DEFINE rows == RowsOf(room)
    <3>2. rows # <<>> /\ rows \in Seq(Seq(Seq(AllTypeVariant)))
      BY <1>2
    <3>3. RowsOf(chunks') = [rows EXCEPT ![Len(rows)] = Append(rows[Len(rows)], cells)]
      BY <1>2, <1>6, <1>7, <2>1
    <3> HIDE DEF rows
    <3>4. FlattenSeq([rows EXCEPT ![Len(rows)] = Append(rows[Len(rows)], cells)]) = Append(FlattenSeq(rows), cells)
      BY <2>1, <3>2, FlattenSeqExtend
    <3> QED
      BY <1>2, <1>5, <3>3, <3>4 DEF rows
  <2>3. cells \in RS!StoredRows(row)
    BY <1>1, <1>10, StoredCells DEF columns
  <2>4. result' = Outcome("append", "done", <<>>) /\ columnTypes # <<>>
    BY <1>1, <1>10, StoreFacts DEF columns
  <2>5. RS!Insert
    <3>1. row \in [1 .. Len(columnTypes) -> Values]
      BY <1>1 DEF columns
    <3> QED
      BY <1>1, <1>4, <2>2, <2>3, <2>4, <3>1, StoreOutcome, Zenon DEF RS!Insert
  <2> QED
    BY <2>5
<1>11. CASE columns # 0 /\ WrittenCells(chunk, cells) = {}
  <2>1. WrittenCells(chunk, cells) # DOMAIN cells
    BY <1>1, <1>3, <1>11
  <2>2. after = chunk
    BY <1>1, <1>11 DEF after, WithCells
  <2>3. HasCompressedSegment
    <3>1. 1 \in DOMAIN chunk /\ chunk[1] \in Segment
      BY <1>1, <1>3, <1>11
    <3>2. \E i \in DOMAIN chunk : chunk[i].kind # "value"
      <4> SUFFICES ASSUME \A i \in DOMAIN chunk : chunk[i].kind = "value" PROVE FALSE
        OBVIOUS
      <4>1. ASSUME NEW i \in 1 .. columns PROVE Writable(chunk, cells, i)
        <5>1. chunk[i] \in Segment /\ chunk[i].kind = "value"
          BY <1>1
        <5>2. chunk[i].type \in DataTypes /\ chunk[i].type \in TypeNames
          <6>1. chunk[i].type \in TypeNames
            BY <5>1 DEF Segment
          <6>2. i \in DOMAIN chunk /\ IsTyped(chunk)
            BY <1>1
          <6>3. chunk[i].type \in DataTypes
            BY <5>1, <6>2, Zenon DEF IsTyped
          <6> QED
            BY <6>1, <6>3
        <5>3. row[i] \in Values /\ cells[i] \in TypeCast(chunk[i].type, row[i])
          BY <1>1, <5>1 DEF CastRows
        <5> QED
          BY <1>1, <5>1, <5>2, <5>3 DEF Writable, CastsSucceed
      <4>2. 1 \in WrittenCells(chunk, cells)
        BY <1>1, <1>3, <1>11, <4>1 DEF WrittenCells
      <4> QED
        BY <1>11, <4>2
    <3>3. PICK i \in DOMAIN chunk : chunk[i].kind # "value"
      BY <3>2
    <3>4. chunk[i] \in Segment
      BY <1>1
    <3>5. chunk[i].kind = "dictionary"
      BY <1>1, <3>3, <3>4 DEF HasNoNull, Segment, Kinds
    <3>6. HasDictionary(room)
      <4>1. n \in DOMAIN room /\ chunk = room[n]
        BY <1>2
      <4> QED
        BY <3>5, <4>1, Zenon DEF HasDictionary
    <3> QED
      BY <3>6, StoreRoom DEF room
  <2>4. RS!Refuse
    <3>1. TableRows' = TableRows
      BY <1>8, <2>2
    <3>2. result' = Outcome("append", "thrown", <<>>)
      BY <1>1, <2>1
    <3> QED
      BY <1>1, <1>4, <2>3, <3>1, <3>2, StoreOutcome, Zenon DEF RS!Refuse
  <2> QED
    BY <2>4
<1> QED
  BY <1>1, <1>9, <1>10, <1>11

\* A row of the wrong length is refused; the chunk made for it has no rows.
LEMMA StoreAppendArity ==
    ASSUME StoreInv, NEW row \in Rows, AppendArity(row)
    PROVE  RS!Refuse
<1>1. /\ chunks' = ChunksWithRoom /\ columnTypes' = columnTypes
      /\ result' = Outcome("append_arity", "thrown", <<>>)
  BY DEF AppendArity
<1>2. TableRows' = TableRows
  <2>1. TableRows' = FlattenSeq(RowsOf(chunks'))
    BY Zenon DEF TableRows, RowsOf
  <2> QED
    BY <1>1, <2>1, StoreRoom
<1>3. HasCompressedSegment' = HasCompressedSegment
  <2>1. HasCompressedSegment' <=> HasDictionary(chunks')
    BY Zenon DEF HasDictionary, HasCompressedSegment
  <2>2. HasDictionary(chunks') <=> HasCompressedSegment
    BY <1>1, StoreRoom
  <2> QED
    BY <2>1, <2>2, Zenon DEF HasCompressedSegment
<1> QED
  BY <1>1, <1>2, <1>3, StoreOutcome, Zenon DEF RS!Refuse

\* Compressing a chunk changes no row.
LEMMA StoreCompress ==
    ASSUME StoreInv, NEW d \in DOMAIN chunks, CompressChunk(d)
    PROVE  RS!Compress
<1>1. /\ chunks' = [chunks EXCEPT ![d] = Compressed(chunks[d])] /\ columnTypes' = columnTypes
      /\ result' = Outcome("compress_chunk", "done", <<>>)
  BY DEF CompressChunk
<1>2. /\ DOMAIN chunks' = DOMAIN chunks /\ DOMAIN chunks = 1 .. Len(chunks)
      /\ \A c \in DOMAIN chunks : /\ chunks[c] \in Seq(Segment) /\ IsRectangular(chunks[c])
                                  /\ HasNoNull(chunks[c])
                                  /\ \/ chunks'[c] = chunks[c]
                                     \/ chunks'[c] = Compressed(chunks[c])
  <2>1. DOMAIN chunks' = DOMAIN chunks /\ DOMAIN chunks = 1 .. Len(chunks)
    BY <1>1, StoreFacts
  <2>2. \A c \in DOMAIN chunks : chunks[c] \in Seq(Segment) /\ IsRectangular(chunks[c])
    BY <2>1, StoreFacts
  <2>3. \A c \in DOMAIN chunks : HasNoNull(chunks[c])
    BY Zenon DEF StoreInv, CarefulInv
  <2>4. \A c \in DOMAIN chunks : chunks'[c] = chunks[c] \/ chunks'[c] = Compressed(chunks[c])
    BY <1>1, Zenon
  <2> QED
    BY <2>1, <2>2, <2>3, <2>4, Zenon
<1>3. ASSUME NEW c \in DOMAIN chunks PROVE CompleteRows(chunks'[c]) = CompleteRows(chunks[c])
  <2>1. chunks[c] \in Seq(Segment) /\ Descends(chunks[c])
    BY <1>2, LengthType DEF IsRectangular, Descends
  <2> QED
    BY <1>2, <2>1, CompressedRows
<1>4. TableRows' = TableRows
  <2>1. TableRows' = FlattenSeq(RowsOf(chunks'))
    BY Zenon DEF TableRows, RowsOf
  <2>2. RowsOf(chunks') = RowsOf(chunks)
    BY <1>2, <1>3 DEF RowsOf
  <2> QED
    BY <2>1, <2>2, StoreFacts
<1>5. HasCompressedSegment => HasCompressedSegment'
  <2> SUFFICES ASSUME NEW c \in DOMAIN chunks, NEW i \in DOMAIN chunks[c],
                      chunks[c][i].kind = "dictionary"
               PROVE  i \in DOMAIN chunks'[c] /\ chunks'[c][i].kind = "dictionary"
    BY <1>2, Zenon DEF HasCompressedSegment
  <2>1. chunks[c] \in Seq(Segment) /\ i \in 1 .. Len(chunks[c])
    BY <1>2
  <2>2. CASE chunks'[c] = chunks[c]
    BY <2>2
  <2>3. CASE chunks'[c] = Compressed(chunks[c])
    <3>1. /\ Compressed(chunks[c]) \in Seq(Segment) /\ Len(Compressed(chunks[c])) = Len(chunks[c])
          /\ Compressed(chunks[c])[i].kind = "dictionary"
      BY <2>1, CompressedFacts
    <3> QED
      BY <2>1, <2>3, <3>1
  <2> QED
    BY <1>2, <2>2, <2>3
<1>6. HasCompressedSegment' \in {HasCompressedSegment, TRUE}
  <2>1. HasCompressedSegment \in BOOLEAN /\ HasCompressedSegment' \in BOOLEAN
    BY Zenon DEF HasCompressedSegment
  <2> HIDE DEF HasCompressedSegment
  <2> QED
    BY <1>5, <2>1, Zenon
<1> QED
  BY <1>1, <1>4, <1>6, StoreOutcome, Zenon DEF RS!Compress

\* A row that is read is one of the store's.
LEMMA StoreRead ==
    ASSUME StoreInv, NEW c \in DOMAIN chunks, NEW r \in 1 .. MaxChunkRows, ReadRow(c, r)
    PROVE  RS!Read
<1> DEFINE chunk == chunks[c]
           read == [i \in DOMAIN chunk |-> chunk[i].values[r]]
<1>1. /\ r <= Size(chunk) /\ result' = Outcome("read", "done", read)
      /\ chunks' = chunks /\ columnTypes' = columnTypes
  BY DEF ReadRow
<1>2. /\ chunk \in Seq(Segment) /\ IsRectangular(chunk)
      /\ c \in 1 .. Len(RowsOf(chunks)) /\ RowsOf(chunks)[c] = CompleteRows(chunk)
      /\ RowsOf(chunks) \in Seq(Seq(Seq(AllTypeVariant))) /\ TableRows = FlattenSeq(RowsOf(chunks))
  BY StoreFacts
<1>3. r \in Nat \ {0}
  BY BoundsAssumption
<1> HIDE DEF chunk
<1>4. r \in DOMAIN CompleteRows(chunk) /\ CompleteRows(chunk)[r] = read
  <2>1. /\ CompleteRows(chunk) = [q \in 1 .. Size(chunk) |-> [i \in 1 .. Len(chunk) |-> chunk[i].values[q]]]
        /\ Size(chunk) \in Nat
    BY <1>2, RectangularRows
  <2>2. r \in 1 .. Size(chunk) /\ read = [i \in 1 .. Len(chunk) |-> chunk[i].values[r]]
    BY <1>1, <1>2, <1>3, <2>1
  <2> HIDE DEF read
  <2> QED
    BY <2>1, <2>2
<1> HIDE DEF read
<1>5. read \in Range(TableRows)
  <2>1. read \in Range(CompleteRows(chunk))
    BY <1>4, Zenon DEF Range
  <2>2. Range(RowsOf(chunks)[c]) \subseteq Range(FlattenSeq(RowsOf(chunks)))
    BY <1>2, FlattenSeqRange
  <2> QED
    BY <1>2, <2>1, <2>2
<1>6. PICK k \in DOMAIN TableRows : TableRows[k] = read
  BY <1>5, Zenon DEF Range
<1>7. TableRows' = TableRows /\ HasCompressedSegment' = HasCompressedSegment
  BY <1>1, Zenon DEF TableRows, HasCompressedSegment
<1> QED
  BY <1>1, <1>6, <1>7, StoreOutcome, Zenon DEF RS!Read

\* A column is refused only when there are rows.
LEMMA StoreRefusals ==
    ASSUME StoreInv, AddColumnRefused \/ CompressNoChunk
    PROVE  RS!Refuse
<1>1. UNCHANGED <<columnTypes, chunks>>
  BY DEF AddColumnRefused, CompressNoChunk
<1>2. TableRows' = TableRows /\ HasCompressedSegment' = HasCompressedSegment
  BY <1>1, Zenon DEF TableRows, HasCompressedSegment
<1>3. \/ TableRows # <<>> /\ result' = Outcome("add_column", "thrown", <<>>)
      \/ result' = Outcome("compress_chunk", "thrown", <<>>)
  BY StoreIsEmpty DEF AddColumnRefused, CompressNoChunk
<1> QED
  BY <1>1, <1>2, <1>3, StoreOutcome, Zenon DEF RS!Refuse

\* Every call of a careful caller is a call of the store.
LEMMA StoreStep ==
    ASSUME CarefulCallers, CastsSucceed, TypeNames \subseteq DataTypes, StoreInv, [Next]_vars
    PROVE  [RS!Next]_(RS!vars)
<1>1. /\ Len(chunks) \in DOMAIN chunks /\ columnTypes \in Seq(TypeNames)
      /\ \A c \in DOMAIN chunks : chunks[c] \in Seq(Segment) /\ HasNoNull(chunks[c])
  BY TypedChunks DEF StoreInv, CarefulInv, TypeOK
<1>2. ~AppendUndefined
  <2>1. LastChunk \in Seq(Segment) /\ HasNoNull(LastChunk)
    BY <1>1 DEF LastChunk
  <2>2. LastChunk # <<>> => 1 \in DOMAIN LastChunk
    BY <2>1
  <2> QED
    BY <2>1, <2>2 DEF AppendUndefined, SizeIsUndefined, HasNoNull
<1>3. ASSUME NEW i \in DOMAIN columnTypes PROVE ~SegmentThrows(columnTypes[i])
  BY <1>1 DEF SegmentThrows
<1>4. ~AppendThrows /\ \A T \in TypeNames : ~AddColumnThrows(T)
  BY <1>3 DEF AppendThrows, AddColumnThrows, SegmentThrows
<1>5. ASSUME NEW c \in DOMAIN chunks PROVE ~CompressTerminates(c)
  <2>1. Len(chunks[c]) = Len(columnTypes) /\ chunks[c] \in Seq(Segment)
    BY <1>1 DEF StoreInv, SchemaAgrees
  <2>2. \A i \in DOMAIN chunks[c] : i \in DOMAIN columnTypes
    BY <1>1, <2>1
  <2> QED
    BY <1>3, <2>2 DEF CompressTerminates
<1>6. ASSUME NEW c \in DOMAIN chunks, NEW r \in 1 .. MaxChunkRows PROVE ~ReadFails(c, r)
  BY BoundsAssumption, ReadIsDefined DEF StoreInv
<1>7. CASE UNCHANGED vars
  <2>1. UNCHANGED <<columnTypes, chunks, result>>
    BY <1>7 DEF vars
  <2>2. TableRows' = TableRows /\ HasCompressedSegment' = HasCompressedSegment
    BY <2>1, Zenon DEF TableRows, HasCompressedSegment
  <2> QED
    BY <2>1, <2>2, Zenon DEF RS!vars
<1>8. CASE Next
  <2>1. RS!Next
    <3>1. ASSUME NEW T \in TypeNames, AddColumn(T) PROVE RS!AddColumn
      BY <3>1, StoreAddColumn
    <3>2. ASSUME NEW row \in Rows, AppendRow(row) PROVE RS!Insert \/ RS!Refuse
      BY <3>2, StoreAppend
    <3>3. ASSUME NEW row \in Rows, AppendArity(row) PROVE RS!Refuse
      BY <3>3, StoreAppendArity
    <3>4. ASSUME NEW c \in DOMAIN chunks, CompressChunk(c) PROVE RS!Compress
      BY <3>4, StoreCompress
    <3>5. ASSUME NEW c \in DOMAIN chunks, NEW r \in 1 .. MaxChunkRows, ReadRow(c, r) PROVE RS!Read
      BY <3>5, StoreRead
    <3>6. ASSUME AddColumnRefused \/ CompressNoChunk PROVE RS!Refuse
      BY <3>6, StoreRefusals
    <3> QED
      BY <1>2, <1>4, <1>5, <1>6, <1>8, <3>1, <3>2, <3>3, <3>4, <3>5, <3>6, Zenon DEF Next, RS!Next
  <2> QED
    BY <2>1
<1> QED
  BY <1>7, <1>8

\* A new table is an empty store.
LEMMA StoreInit == Init => RS!Init /\ StoreInv
<1> SUFFICES ASSUME Init PROVE RS!Init /\ StoreInv
  OBVIOUS
<1>1. columnTypes = <<>> /\ chunks = <<<<>>>> /\ result = Outcome("none", "done", <<>>)
  BY DEF Init
<1>2. StoreInv
  BY <1>1, CarefulInit DEF StoreInv, SchemaAgrees
<1>3. TableRows = <<>>
  <2>1. IsEmpty
    BY <1>1 DEF IsEmpty, Size
  <2> QED
    BY <1>2, <2>1, StoreIsEmpty
<1>4. HasCompressedSegment = FALSE
  BY <1>1 DEF HasCompressedSegment
<1> QED
  BY <1>1, <1>2, <1>3, <1>4, StoreOutcome, Zenon DEF RS!Init

\* Careful callers who ask for known types and whose values can be cast see a
\* RowStore, whatever the chunk size and the build: an accepted row is stored whole
\* and last, a refused call changes nothing, a read answers with a row of the store
\* (Table, Chunk and segments).
THEOREM TableImplementsRowStore ==
    ASSUME CarefulCallers, CastsSucceed, TypeNames \subseteq DataTypes
    PROVE  Spec => ImplementsRowStore
<1>1. StoreInv /\ [Next]_vars => StoreInv'
  BY CarefulStep, SchemaStep DEF StoreInv
<1>2. StoreInv /\ [Next]_vars => [RS!Next]_(RS!vars)
  BY StoreStep
<1> QED
  BY <1>1, <1>2, StoreInit, PTL DEF Spec, ImplementsRowStore, RS!Spec
=============================================================================
