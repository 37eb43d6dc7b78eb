------------------------------ MODULE RowStore ------------------------------
(* What a Table promises its callers, with nothing of chunks, segments or      *)
(* encodings: a list of typed columns, fixed once there are rows, and a        *)
(* sequence of rows that only grows, at its end, one whole row per insertion.  *)
EXTENDS TypeCast, SequencesExt

CONSTANTS TypeNames,   \* the type names a caller may ask for
          Values       \* the values a caller may insert

VARIABLES schema,      \* the columns' types, left to right
          rows,        \* the rows, each a sequence of one value per column
          compressed,  \* TRUE once some rows have been compressed
          result       \* the last call and what it answered

vars == <<schema, rows, compressed, result>>

Outcome(call, outcome, row) == [call |-> call, outcome |-> outcome, row |-> row]

\* The rows that inserting the values of `row` may store.
StoredRows(row) ==
    {stored \in [DOMAIN row -> UNION {TypeCast(schema[i], row[i]) : i \in DOMAIN row}] :
        \A i \in DOMAIN row : stored[i] \in TypeCast(schema[i], row[i])}

Init ==
    /\ schema = <<>>
    /\ rows = <<>>
    /\ compressed = FALSE
    /\ result = Outcome("none", "done", <<>>)

\* A column can be added as long as there are no rows.
AddColumn ==
    /\ rows = <<>>
    /\ \E T \in TypeNames : schema' = Append(schema, T)
    /\ result' = Outcome("add_column", "done", <<>>)
    /\ UNCHANGED <<rows, compressed>>

\* A row with one value per column is stored whole, as values of the columns'
\* types.  A row of no values leaves nothing behind in a table of no columns.
Insert ==
    /\ \E row \in [1 .. Len(schema) -> Values] :
         IF schema = <<>> THEN rows' = rows
         ELSE \E stored \in StoredRows(row) : rows' = Append(rows, stored)
    /\ result' = Outcome("append", "done", <<>>)
    /\ UNCHANGED <<schema, compressed>>

\* Compressing rows changes nothing that a caller can read.
Compress ==
    /\ compressed' \in {compressed, TRUE}
    /\ result' = Outcome("compress_chunk", "done", <<>>)
    /\ UNCHANGED <<schema, rows>>

\* A read answers with one of the rows.
Read ==
    /\ \E i \in DOMAIN rows : result' = Outcome("read", "done", rows[i])
    /\ UNCHANGED <<schema, rows, compressed>>

\* A call that throws leaves every row and column as it was.  A column is
\* refused only when there are rows, and a whole row only once rows have been
\* compressed; a row of another length is always refused.
Refuse ==
    /\ \/ rows # <<>> /\ result' = Outcome("add_column", "thrown", <<>>)
       \/ result' = Outcome("append_arity", "thrown", <<>>)
       \/ compressed /\ result' = Outcome("append", "thrown", <<>>)
       \/ result' = Outcome("compress_chunk", "thrown", <<>>)
    /\ UNCHANGED <<schema, rows, compressed>>

Next == AddColumn \/ Insert \/ Compress \/ Read \/ Refuse

Spec == Init /\ [][Next]_vars
=============================================================================
