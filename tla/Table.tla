-------------------------------- MODULE Table --------------------------------
(* A Table, its Chunks and their segments, as one thread uses them.  A table   *)
(* is a sequence of chunks, a chunk one segment per column, a segment the      *)
(* values of its column in the chunk's rows: a growing ValueSegment or an      *)
(* immutable DictionarySegment.  Column names only label columns and are left  *)
(* out; a DictionarySegment is known here by the values it stands for.         *)
EXTENDS TypeCast, SequencesExt

CONSTANTS TypeNames,      \* the type names a caller may ask for, known or not
          Values,         \* the values a caller may insert
          MaxChunkSizes,  \* the chunk sizes a table may be created with
          Builds,         \* the builds: TRUE with IS_DEBUG, FALSE without
          CarefulCallers, \* whether callers keep to what an unchecked build needs
          MaxColumns,     \* bound: the columns asked for
          MaxChunks,      \* bound: the chunks of a table
          MaxChunkRows    \* bound: the rows of a chunk that has no other limit

ASSUME ValuesAssumption ==
    Values \subseteq {v \in AllTypeVariant : v.reading # "nan"}
ASSUME MaxChunkSizesAssumption == MaxChunkSizes \subseteq Nat
ASSUME BuildsAssumption == Builds \subseteq BOOLEAN /\ CarefulCallers \in BOOLEAN
ASSUME BoundsAssumption ==
    MaxColumns \in Nat /\ MaxChunks \in Nat /\ MaxChunkRows \in Nat

VARIABLES debug,              \* IS_DEBUG of the build: assertions are checked
          maximumChunkSize,   \* _maximum_chunk_size
          columnTypes,        \* _column_types (and _column_names beside it)
          chunks,             \* _chunks, each a sequence of segments
          status,             \* "running", "terminated" or "undefined"
          result              \* the last call and what it answered

vars == <<debug, maximumChunkSize, columnTypes, chunks, status, result>>

Kinds == {"value", "dictionary", "null"}
Segment == [kind : Kinds, type : TypeNames, values : Seq(AllTypeVariant)]

Outcome(call, outcome, row) == [call |-> call, outcome |-> outcome, row |-> row]

-----------------------------------------------------------------------------
(* Segments and chunks.                                                        *)

\* make_shared_by_data_type<BaseSegment, ValueSegment>(T), where it returns: an
\* unknown type gives a null pointer in a build without assertions.
NewSegment(T) ==
    [kind |-> IF T \in DataTypes THEN "value" ELSE "null", type |-> T, values |-> <<>>]

\* In a build with assertions an unknown type throws instead.
SegmentThrows(T) == debug /\ T \notin DataTypes

\* Chunk::size(): the rows of a chunk are counted on its first column.
Size(chunk) == IF chunk = <<>> THEN 0 ELSE Len(chunk[1].values)

\* Calling size() on a null first column is undefined.
SizeIsUndefined(chunk) == chunk # <<>> /\ chunk[1].kind = "null"

\* (Mutant: only the first chunk is counted.)
FirstChunkIsEmpty == Size(chunks[1]) = 0

\* row_count() = 0.
IsEmpty == \A c \in DOMAIN chunks : Size(chunks[c]) = 0

\* (Mutant: the values are stored as they come.)
UncastRows(chunk, row) == {row}

\* The values that appending `row` to a chunk's segments casts to, one for each
\* value; a segment that does not take values casts nothing.
CastRows(chunk, row) ==
    LET casts(i) == IF i \in DOMAIN chunk /\ chunk[i].kind = "value"
                    THEN TypeCast(chunk[i].type, row[i])
                    ELSE {row[i]}
    IN  {cells \in [DOMAIN row -> UNION {casts(i) : i \in DOMAIN row}] :
            \A i \in DOMAIN row : cells[i] \in casts(i)}

\* (Mutant: a failed cast still stores something.)
WritableUncast(chunk, cells, i) == i \in DOMAIN chunk /\ chunk[i].kind = "value"

\* Whether the segment of column i takes the cell it is given.
Writable(chunk, cells, i) ==
    /\ i \in DOMAIN chunk
    /\ chunk[i].kind = "value"
    /\ cells[i] # BadCast

\* (Mutant: a cell that is not taken is skipped.)
TakenCells(chunk, cells) == {i \in DOMAIN cells : Writable(chunk, cells, i)}

\* Chunk::append writes the cells from left to right and stops at the first one
\* that is not taken; what has been written stays.
WrittenCells(chunk, cells) ==
    {i \in DOMAIN cells : \A j \in 1 .. i : Writable(chunk, cells, j)}

\* (Mutant: a failed append takes a value back from every column, written or not.)
WithCellsTakenBack(chunk, cells) ==
    LET written == WrittenCells(chunk, cells)
    IN  [i \in DOMAIN chunk |->
            IF written = DOMAIN cells /\ i \in written
            THEN [chunk[i] EXCEPT !.values = Append(@, cells[i])]
            ELSE IF written = DOMAIN cells \/ i \in written \/ chunk[i].values = <<>>
            THEN chunk[i]
            ELSE [chunk[i] EXCEPT !.values = SubSeq(@, 1, Len(@) - 1)]]

\* The chunk with the cells that are written.
WithCells(chunk, cells) ==
    [i \in DOMAIN chunk |->
        IF i \in WrittenCells(chunk, cells)
        THEN [chunk[i] EXCEPT !.values = Append(@, cells[i])]
        ELSE chunk[i]]

\* The cell that stops the append lies beyond the last column or meets a null
\* segment; any other throws.
StopsUndefined(chunk, cells) ==
    \E i \in (DOMAIN cells) \ WrittenCells(chunk, cells) :
        /\ \A j \in 1 .. (i - 1) : Writable(chunk, cells, j)
        /\ i \notin DOMAIN chunk \/ chunk[i].kind = "null"

\* (Mutant: the first segment is left out.)
CompressedButFirst(chunk) ==
    [i \in DOMAIN chunk |-> IF i = 1 THEN chunk[i] ELSE [chunk[i] EXCEPT !.kind = "dictionary"]]

\* A chunk whose every segment has been compressed.  The dictionary's casts are
\* to the type the segment already has; a null segment stays null.
Compressed(chunk) ==
    [i \in DOMAIN chunk |->
        IF chunk[i].kind = "null" THEN chunk[i] ELSE [chunk[i] EXCEPT !.kind = "dictionary"]]

-----------------------------------------------------------------------------
Init ==
    /\ debug \in Builds
    /\ maximumChunkSize \in MaxChunkSizes
    /\ columnTypes = <<>>
    /\ chunks = <<<<>>>>
    /\ status = "running"
    /\ result = Outcome("none", "done", <<>>)

LastChunk == chunks[Len(chunks)]

\* (Mutant: a chunk may hold one row more.)
LastChunkIsOverfull == Size(LastChunk) > maximumChunkSize

\* The last chunk holds as many rows as a chunk may.
LastChunkIsFull == Size(LastChunk) = maximumChunkSize

\* (Mutant: a segment that could not be made is left out of the new chunk.)
FreshChunkOfMadeSegments ==
    SelectSeq([i \in DOMAIN columnTypes |-> NewSegment(columnTypes[i])],
              LAMBDA segment : segment.kind # "null")

\* The chunk that append makes when the last one is full.
FreshChunk == [i \in DOMAIN columnTypes |-> NewSegment(columnTypes[i])]

\* The chunks once append has found, or made, the chunk it appends to.
ChunksWithRoom == IF LastChunkIsFull THEN Append(chunks, FreshChunk) ELSE chunks

\* No call has ended the program or left what C++ defines.
Running == status = "running"

\* What the documentation asks of the callers of add_column and append.  A build
\* with assertions checks it, up to the type names; a build without relies on it.
MayAddColumn(T) == CarefulCallers /\ ~debug => T \in DataTypes /\ IsEmpty
MayAppend(row) == CarefulCallers /\ ~debug => Len(row) = Len(columnTypes)

\* Every value that callers insert can be cast to every type they ask for.
CastsSucceed ==
    \A T \in TypeNames \cap DataTypes : \A v \in Values : BadCast \notin TypeCast(T, v)

\* The bounds of the model.
ColumnBound == Len(columnTypes) < MaxColumns
RowBound == IF LastChunkIsFull THEN Len(chunks) < MaxChunks ELSE Size(LastChunk) < MaxChunkRows

\* add_column on a table with rows, in a build with assertions.
AddColumnRefused ==
    /\ Running
    /\ debug /\ ~IsEmpty
    /\ result' = Outcome("add_column", "thrown", <<>>)
    /\ UNCHANGED <<debug, maximumChunkSize, columnTypes, chunks, status>>

\* add_column of a type whose segments cannot be made: the type is already
\* stored when the first chunk's segment throws.
AddColumnThrows(T) ==
    /\ Running /\ ColumnBound
    /\ IsEmpty
    /\ SegmentThrows(T)
    /\ columnTypes' = Append(columnTypes, T)
    /\ result' = Outcome("add_column", "thrown", <<>>)
    /\ UNCHANGED <<debug, maximumChunkSize, chunks, status>>

\* add_column: every chunk gets a new segment on its right.
AddColumn(T) ==
    /\ Running /\ ColumnBound /\ MayAddColumn(T)
    /\ debug => IsEmpty
    /\ ~SegmentThrows(T)
    /\ columnTypes' = Append(columnTypes, T)
    /\ chunks' = [c \in DOMAIN chunks |-> Append(chunks[c], NewSegment(T))]
    /\ result' = Outcome("add_column", "done", <<>>)
    /\ UNCHANGED <<debug, maximumChunkSize, status>>

\* append asks a null segment for its size.
AppendUndefined ==
    /\ Running
    /\ SizeIsUndefined(LastChunk)
    /\ status' = "undefined"
    /\ UNCHANGED <<debug, maximumChunkSize, columnTypes, chunks, result>>

\* append needs a new chunk and one of its segments cannot be made.
AppendThrows ==
    /\ Running
    /\ ~SizeIsUndefined(LastChunk)
    /\ LastChunkIsFull
    /\ \E i \in DOMAIN columnTypes : SegmentThrows(columnTypes[i])
    /\ result' = Outcome("append", "thrown", <<>>)
    /\ UNCHANGED <<debug, maximumChunkSize, columnTypes, chunks, status>>

\* (Mutant: the segments of a new chunk are not checked.)
HasRoomUnchecked == ~SizeIsUndefined(LastChunk)

\* append has found, or could make, the chunk to append to.
HasRoom ==
    /\ ~SizeIsUndefined(LastChunk)
    /\ LastChunkIsFull => \A i \in DOMAIN columnTypes : ~SegmentThrows(columnTypes[i])

\* (Mutant: a row that is too long fits.)
RowReaches(row) == Len(row) >= Len(Last(ChunksWithRoom))

\* A row has one value for each column of the chunk it is appended to.
RowFits(row) == Len(row) = Len(Last(ChunksWithRoom))

\* append of a row with too few or too many values, in a build with assertions:
\* the chunk made for it stays.
AppendArity(row) ==
    /\ Running /\ RowBound
    /\ HasRoom
    /\ debug /\ ~RowFits(row)
    /\ chunks' = ChunksWithRoom
    /\ result' = Outcome("append_arity", "thrown", <<>>)
    /\ UNCHANGED <<debug, maximumChunkSize, columnTypes, status>>

\* append: the cells are written to the last chunk, as far as they are taken.
AppendRow(row) ==
    /\ Running /\ RowBound /\ MayAppend(row)
    /\ HasRoom
    /\ debug => RowFits(row)
    /\ LET chunk == Last(ChunksWithRoom)
       IN  \E cells \in CastRows(chunk, row) :
             /\ chunks' = [ChunksWithRoom EXCEPT
                             ![Len(ChunksWithRoom)] = WithCells(chunk, cells)]
             /\ status' = IF StopsUndefined(chunk, cells) THEN "undefined" ELSE status
             /\ result' = Outcome("append",
                            IF WrittenCells(chunk, cells) = DOMAIN cells
                            THEN "done" ELSE "thrown", <<>>)
    /\ UNCHANGED <<debug, maximumChunkSize, columnTypes>>

\* compress_chunk of a chunk that does not exist: _chunks.at throws.
CompressNoChunk ==
    /\ Running
    /\ result' = Outcome("compress_chunk", "thrown", <<>>)
    /\ UNCHANGED <<debug, maximumChunkSize, columnTypes, chunks, status>>

\* compress_chunk: the chunk is replaced by its compressed copy, in its place.
CompressChunk(c) ==
    /\ Running
    /\ \A i \in DOMAIN chunks[c] : ~SegmentThrows(columnTypes[i])
    /\ chunks' = [chunks EXCEPT ![c] = Compressed(@)]
    /\ result' = Outcome("compress_chunk", "done", <<>>)
    /\ UNCHANGED <<debug, maximumChunkSize, columnTypes, status>>

\* An exception that leaves one of compress_chunk's threads ends the program.
CompressTerminates(c) ==
    /\ Running
    /\ \E i \in DOMAIN chunks[c] : SegmentThrows(columnTypes[i])
    /\ status' = "terminated"
    /\ UNCHANGED <<debug, maximumChunkSize, columnTypes, chunks, result>>

\* Reading a row goes over a chunk's columns from left to right.  A ValueSegment
\* checks the position in a build with assertions; a dictionary never does.
ReadsCell(segment, r) == segment.kind # "null" /\ r <= Len(segment.values)

ReadRow(c, r) ==
    /\ Running
    /\ r <= Size(chunks[c])
    /\ \A i \in DOMAIN chunks[c] : ReadsCell(chunks[c][i], r)
    /\ result' = Outcome("read", "done",
                         [i \in DOMAIN chunks[c] |-> chunks[c][i].values[r]])
    /\ UNCHANGED <<debug, maximumChunkSize, columnTypes, chunks, status>>

\* The first cell that cannot be read throws or is undefined.
ReadFails(c, r) ==
    /\ Running
    /\ SizeIsUndefined(chunks[c]) \/ r <= Size(chunks[c])
    /\ \E i \in DOMAIN chunks[c] :
         /\ ~ReadsCell(chunks[c][i], r)
         /\ \A j \in 1 .. (i - 1) : ReadsCell(chunks[c][j], r)
         /\ status' = IF debug /\ chunks[c][i].kind = "value" THEN status ELSE "undefined"
    /\ result' = Outcome("read", "thrown", <<>>)
    /\ UNCHANGED <<debug, maximumChunkSize, columnTypes, chunks>>

-----------------------------------------------------------------------------
\* The rows a caller may hand to append: short, long and of the right length.
Rows == UNION {[1 .. n -> Values] : n \in 0 .. MaxColumns}

Next ==
    \/ AddColumnRefused
    \/ \E T \in TypeNames : AddColumnThrows(T) \/ AddColumn(T)
    \/ AppendUndefined
    \/ AppendThrows
    \/ \E row \in Rows : AppendArity(row) \/ AppendRow(row)
    \/ CompressNoChunk
    \/ \E c \in DOMAIN chunks : CompressChunk(c) \/ CompressTerminates(c)
    \/ \E c \in DOMAIN chunks, r \in 1 .. MaxChunkRows : ReadRow(c, r) \/ ReadFails(c, r)

Spec == Init /\ [][Next]_vars

-----------------------------------------------------------------------------
\* The state is made of what the code's members can hold.
TypeOK ==
    /\ debug \in Builds
    /\ maximumChunkSize \in MaxChunkSizes
    /\ columnTypes \in Seq(TypeNames)
    /\ chunks \in Seq(Seq(Segment)) /\ chunks # <<>>
    /\ status \in {"running", "terminated", "undefined"}
    /\ result.outcome \in {"done", "thrown"}

\* Rows fill one chunk after the other: append and add_column, failing or not,
\* in any order and in any build, leave every chunk but the last with exactly
\* the rows that a chunk may hold, and the last with no more (Table::append).
ChunksFilledInOrder ==
    /\ \A c \in 1 .. (Len(chunks) - 1) : Size(chunks[c]) = maximumChunkSize
    /\ maximumChunkSize > 0 => Size(LastChunk) <= maximumChunkSize

\* A column holds values of its own type only, whatever was handed to append
\* (ValueSegment<T>::append casts), and only a known type has segments.
IsTyped(chunk) ==
    \A i \in DOMAIN chunk : chunk[i].kind # "null" =>
        /\ chunk[i].type \in DataTypes
        /\ \A r \in DOMAIN chunk[i].values : chunk[i].values[r].type = chunk[i].type

ColumnsAreTyped == \A c \in DOMAIN chunks : IsTyped(chunks[c])

\* Every chunk has, in each column's place, a segment of the column's type, up to
\* the first type that add_column has stored before it threw.  Only from there on can
\* types and segments be shifted against each other, so that a worker of
\* compress_chunk, which is handed the table's type and the chunk's segment by the
\* same index, never sees a wrong type without another one that throws (table.cpp:38).
LinesUp(chunk) ==
    \A i \in DOMAIN columnTypes : (\A j \in 1 .. i : ~SegmentThrows(columnTypes[j])) =>
        i \in DOMAIN chunk /\ chunk[i].type = columnTypes[i]

SegmentsLineUp ==
    \A c \in DOMAIN chunks : Len(chunks[c]) <= Len(columnTypes) /\ LinesUp(chunks[c])

\* In a chunk, no column is longer than one on its left.  So the first column,
\* which Chunk::size() goes by, is the longest even after a failed append.
Descends(chunk) ==
    \A i, j \in DOMAIN chunk : i < j => Len(chunk[i].values) >= Len(chunk[j].values)

LengthsDescend == \A c \in DOMAIN chunks : Descends(chunks[c])

\* The columns of a chunk are equally long: every row has a value in every
\* column (Chunk::append "adds a new row", chunk.hpp:41).
IsRectangular(chunk) ==
    \A i, j \in DOMAIN chunk : Len(chunk[i].values) = Len(chunk[j].values)

Rectangular == \A c \in DOMAIN chunks : IsRectangular(chunks[c])

\* No segment that takes values stands on the left of a compressed one.  It is
\* why an append to a compressed chunk throws before it has written a cell.
IsCompressedOnTheLeft(chunk) ==
    \A i, j \in DOMAIN chunk :
        i < j /\ chunk[i].kind = "value" => chunk[j].kind # "dictionary"

CompressedOnTheLeft == \A c \in DOMAIN chunks : IsCompressedOnTheLeft(chunks[c])

\* No call crashes the program or leaves what C++ defines.
KeepsRunning == status = "running"

\* A compressed column that ends before the chunk's first one.
IsTornDictionary(chunk, i) ==
    chunk[i].kind = "dictionary" /\ Len(chunk[i].values) < Size(chunk)

\* In a build with assertions, whatever the callers ask for, a program stays within
\* what C++ defines until it reads a row that a failed append has torn and a
\* compression has sealed since: the DebugAsserts catch every other misuse, a column
\* added too late (table.cpp:34), a row of a wrong length (chunk.cpp:20) and an unknown
\* type (resolve_type.hpp:60), while a dictionary checks no position
\* (dictionary_segment.hpp:73).
CheckedBuildsStayDefined ==
    debug /\ status = "undefined" =>
        \E c \in DOMAIN chunks : \E i \in DOMAIN chunks[c] : IsTornDictionary(chunks[c], i)

\* A compressed segment is never written again (dictionary_segment.hpp:79).
CompressedStays ==
    [][\A c \in DOMAIN chunks : \A i \in DOMAIN chunks[c] :
        chunks[c][i].kind = "dictionary" => chunks'[c][i] = chunks[c][i]]_vars

\* The rows of a chunk that have a value in every column.
CompleteRows(chunk) ==
    IF chunk = <<>> THEN <<>>
    ELSE [r \in 1 .. Min({Len(chunk[i].values) : i \in DOMAIN chunk}) |->
            [i \in DOMAIN chunk |-> chunk[i].values[r]]]

TableRows == FlattenSeq([c \in DOMAIN chunks |-> CompleteRows(chunks[c])])

\* A call that throws, a compression and a read store no complete row and change
\* none: only an append or add_column that returns can (table.cpp).
OnlyStoringChangesRows ==
    [][Running' /\ (result'.outcome = "thrown" \/ result'.call \in {"compress_chunk", "read"})
            => TableRows' = TableRows]_vars

\* append always has a chunk to insert into: its last chunk takes values, or is
\* full and will be followed by one that does ("inserts a row at the end of the
\* table", table.hpp:80).
RowsCanBeInserted ==
    LastChunkIsFull \/ \A i \in DOMAIN LastChunk : LastChunk[i].kind = "value"
=============================================================================
