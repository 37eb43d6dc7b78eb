--------------------------- MODULE TableRefinement ---------------------------
(* Careful callers of a Table see a RowStore: the chunks read one after the    *)
(* other are its rows.                                                         *)
EXTENDS Table

HasCompressedSegment ==
    \E c \in DOMAIN chunks : \E i \in DOMAIN chunks[c] : chunks[c][i].kind = "dictionary"

RS == INSTANCE RowStore WITH
        schema <- columnTypes, rows <- TableRows, compressed <- HasCompressedSegment

\* Whatever careful callers do, chunk boundaries, new chunks and compression
\* never show: an accepted row is stored whole and last, a refused call changes
\* nothing, a read answers with a row of the store (Table, Chunk and segments).
ImplementsRowStore == RS!Spec
=============================================================================
