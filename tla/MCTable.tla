------------------------------- MODULE MCTable -------------------------------
(* Small tables for TLC.                                                       *)
EXTENDS TableRefinement

MCExact == [float |-> 8, double |-> 16, text |-> 6]

\* Values that can be cast to an int and to a string: 1.5 and "2".
MCCastable == {Number("float", 3), Number("string", 4)}

\* 1.5 can be cast to an int, "word" cannot.
MCUncastable == {Number("float", 3), Word}
=============================================================================
