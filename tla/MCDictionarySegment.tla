------------------------- MODULE MCDictionarySegment -------------------------
(* Columns of whole numbers, of fractions, and of texts, for TLC.              *)
EXTENDS DictionarySegment

MCExact == [r \in {"float", "double", "text"} |-> 20]

\* Four values of an int column, two of a float and of a string column.
MCValues ==
    {Number("int", h) : h \in {0, 2, 4, 8}} \cup {Number("float", h) : h \in {1, 2}}
        \cup {Number("string", 2), Word}

\* Searches that are found, that lie between, before and behind, and that throw.
MCSearches == {Number("int", 4), Number("int", 6), Number("float", -2), Word}

\* A search for a value between two whole numbers.
MCFractions == {Number("double", 3), Number("int", 2)}

\* A float column with a value that is not a number.
MCWithNaN == {Number("float", 2), NaN("float")}
=============================================================================
