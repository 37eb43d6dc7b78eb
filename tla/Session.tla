-------------------------------- MODULE Session --------------------------------
(* A client of the StorageManager and of the operators: it keeps tables under  *)
(* names, builds operators on tables and on other operators, and executes them *)
(* when it likes.  Tables are shared objects, told apart by their addresses.   *)
(* A table that nothing points to is gone, and its address may be used again.  *)
EXTENDS PerformanceWarning

CONSTANTS Names,        \* the names of tables
          Addresses,    \* the addresses of tables
          Schemas,      \* the sets of column types that tables are made with
          MaxOperators, \* bound: the operators that the client constructs
          NoTable       \* nullptr

ASSUME SessionAssumption ==
    /\ MaxOperators \in Nat /\ NoTable \notin Addresses
    /\ Schemas \subseteq (SUBSET Types) \ {{}}

VARIABLES tables,     \* _tables of the StorageManager: the table of each name, or NoTable
          contents,   \* what the table at each address holds
          handles,    \* the tables that the client holds shared pointers to
          operators,  \* the operators that the client has constructed
          status,     \* "running", or "undefined" once the program has left what C++ defines
          thrown      \* whether the last call has thrown an exception

vars == <<warnings, tables, contents, handles, operators, status, thrown>>

\* A table: the types of its columns, whether it has rows, and whether its last
\* columns are shorter than the first because an append has failed.
Empty(types) == [types |-> types, filled |-> FALSE, torn |-> FALSE]
TableContents == [types : Schemas, filled : BOOLEAN, torn : BOOLEAN]

\* An operator: the table it wraps or the operator it reads, its _output, whether
\* the client still holds it, and the operators that it keeps, itself among them.
Operator(kind, table, input, keeps) ==
    [kind |-> kind, table |-> table, input |-> input, output |-> NoTable,
     held |-> TRUE, keeps |-> keeps]

Init ==
    /\ WarningsInit
    /\ tables = [n \in Names |-> NoTable]
    /\ contents \in [Addresses -> {Empty(types) : types \in Schemas}]
    /\ handles = {}
    /\ operators = <<>>
    /\ status = "running"
    /\ thrown = FALSE

Running == status = "running"

-----------------------------------------------------------------------------
(* Shared pointers.                                                            *)

\* The operators that the client holds.  (Mutant: an operator does not keep the
\* one that it reads, so that no others are alive.)
HeldOperators == {o \in DOMAIN operators : operators[o].held}

\* The operators that the client holds, and those that they keep.
LiveOperators == UNION {operators[o].keeps : o \in HeldOperators}

\* The tables that something points to.
LiveTables ==
    ({tables[n] : n \in Names} \cup handles
        \cup {operators[o].table : o \in LiveOperators}
        \cup {operators[o].output : o \in LiveOperators}) \ {NoTable}

-----------------------------------------------------------------------------
(* Tables.                                                                     *)

\* A new table is put at an address where there is none.
NewTable(a, types) ==
    /\ Running
    /\ a \notin LiveTables
    /\ contents' = [contents EXCEPT ![a] = Empty(types)]
    /\ handles' = handles \cup {a}
    /\ thrown' = FALSE
    /\ UNCHANGED <<warnings, tables, operators, status>>

ReleaseTable(a) ==
    /\ Running
    /\ a \in handles
    /\ handles' = handles \ {a}
    /\ thrown' = FALSE
    /\ UNCHANGED <<warnings, tables, contents, operators, status>>

\* append of a row, and of a row whose last values cannot be cast.
Fill(a) ==
    /\ Running
    /\ a \in handles
    /\ contents' = [contents EXCEPT ![a].filled = TRUE]
    /\ thrown' = FALSE
    /\ UNCHANGED <<warnings, tables, handles, operators, status>>

Tear(a) ==
    /\ Running
    /\ a \in handles /\ Cardinality(contents[a].types) > 1
    /\ contents' = [contents EXCEPT ![a].torn = TRUE]
    /\ thrown' = TRUE
    /\ UNCHANGED <<warnings, tables, handles, operators, status>>

\* operator[] of the cells of one row, by the client.
ReadRow(a) ==
    /\ Running
    /\ a \in handles /\ contents[a].filled
    /\ ReadLoudly(contents[a].types)
    /\ thrown' = FALSE
    /\ UNCHANGED <<tables, contents, handles, operators, status>>

-----------------------------------------------------------------------------
(* The StorageManager.                                                         *)

\* (Mutant: a name that is not there is looked up as if it were.)
AnyTable(n) == TRUE

HasTable(n) == tables[n] # NoTable

\* (Mutant: insert_or_assign.)
Replaced(n, a) == [tables EXCEPT ![n] = a]

\* insert leaves a name that is in use with the table it has.
Inserted(n, a) == IF HasTable(n) THEN tables ELSE [tables EXCEPT ![n] = a]

AddTable(n, a) ==
    /\ Running
    /\ a \in handles
    /\ IF debug /\ HasTable(n)
       THEN thrown' = TRUE /\ UNCHANGED tables
       ELSE thrown' = FALSE /\ tables' = Inserted(n, a)
    /\ UNCHANGED <<warnings, contents, handles, operators, status>>

DropTable(n) ==
    /\ Running
    /\ thrown' = ~HasTable(n)
    /\ tables' = [tables EXCEPT ![n] = NoTable]
    /\ UNCHANGED <<warnings, contents, handles, operators, status>>

GetTable(n) ==
    /\ Running
    /\ thrown' = ~HasTable(n)
    /\ handles' = IF HasTable(n) THEN handles \cup {tables[n]} ELSE handles
    /\ UNCHANGED <<warnings, tables, contents, operators, status>>

Reset ==
    /\ Running
    /\ tables' = [n \in Names |-> NoTable]
    /\ thrown' = FALSE
    /\ UNCHANGED <<warnings, contents, handles, operators, status>>

-----------------------------------------------------------------------------
(* Operators.                                                                  *)

NextOperator == Len(operators) + 1

\* TableWrapper of a table, or of the nullptr that an operator has put out.
NewTableWrapper(a) ==
    /\ Running /\ NextOperator <= MaxOperators
    /\ operators' = Append(operators, Operator("TableWrapper", a, 0, {NextOperator}))
    /\ thrown' = FALSE
    /\ UNCHANGED <<warnings, tables, contents, handles, status>>

\* Print of an operator, executed or not; input 0 is nullptr.
NewPrint(input) ==
    /\ Running /\ NextOperator <= MaxOperators
    /\ input # 0 => operators[input].held
    /\ LET kept == IF input = 0 THEN {} ELSE operators[input].keeps
       IN  operators' = Append(operators,
                               Operator("Print", NoTable, input, kept \cup {NextOperator}))
    /\ thrown' = FALSE
    /\ UNCHANGED <<warnings, tables, contents, handles, status>>

ReleaseOperator(o) ==
    /\ Running
    /\ operators[o].held
    /\ operators' = [operators EXCEPT ![o].held = FALSE]
    /\ thrown' = FALSE
    /\ UNCHANGED <<warnings, tables, contents, handles, status>>

\* The outputs that the client can get.
Outputs == {operators[o].output : o \in HeldOperators}

\* The types of the cells that are read when the table at `a` is printed.
PrintedTypes(a) == IF contents[a].filled \/ contents[a].torn THEN contents[a].types ELSE {}

\* (Mutant: a second execution finds no table.)
WrappedOnce(o) == IF operators[o].output = NoTable THEN operators[o].table ELSE NoTable

Wrapped(o) == operators[o].table

ExecuteTableWrapper(o) ==
    /\ Running
    /\ operators[o].held /\ operators[o].kind = "TableWrapper"
    /\ operators' = [operators EXCEPT ![o].output = Wrapped(o)]
    /\ thrown' = FALSE
    /\ UNCHANGED <<warnings, tables, contents, handles, status>>

\* _input_table_left(), if there is an input.
InputTable(o) == operators[operators[o].input].output

HasInputTable(o) == operators[o].input # 0 /\ InputTable(o) # NoTable

CanPrint(o) == Running /\ operators[o].held /\ operators[o].kind = "Print"

\* Print prints its input's output and puts it out itself.
ExecutePrint(o) ==
    /\ CanPrint(o) /\ HasInputTable(o)
    /\ ~contents[InputTable(o)].torn
    /\ ReadSilently(PrintedTypes(InputTable(o)))
    /\ operators' = [operators EXCEPT ![o].output = InputTable(o)]
    /\ thrown' = FALSE
    /\ UNCHANGED <<tables, contents, handles, status>>

\* With assertions, a row that some columns do not have ends the printing.
ExecutePrintThrows(o) ==
    /\ CanPrint(o) /\ HasInputTable(o)
    /\ contents[InputTable(o)].torn /\ debug
    /\ ReadSilently(PrintedTypes(InputTable(o)))
    /\ thrown' = TRUE
    /\ UNCHANGED <<tables, contents, handles, operators, status>>

\* Without them it is undefined, as is a Print without an input or whose input
\* has not put out a table.
ExecutePrintUndefined(o) ==
    /\ CanPrint(o)
    /\ HasInputTable(o) => contents[InputTable(o)].torn /\ ~debug
    /\ status' = "undefined"
    /\ UNCHANGED <<warnings, tables, contents, handles, operators, thrown>>

\* The static Print::print: a TableWrapper and a Print that nobody keeps.
PrintTable(a) ==
    /\ Running
    /\ IF a = NoTable \/ (contents[a].torn /\ ~debug)
       THEN status' = "undefined" /\ UNCHANGED <<warnings, thrown>>
       ELSE /\ ReadSilently(PrintedTypes(a))
            /\ thrown' = contents[a].torn
            /\ UNCHANGED status
    /\ UNCHANGED <<tables, contents, handles, operators>>

-----------------------------------------------------------------------------
Scope ==
    /\ Running
    /\ EnterScope \/ LeaveScope
    /\ thrown' = FALSE
    /\ UNCHANGED <<tables, contents, handles, operators, status>>

Next ==
    \/ Scope
    \/ \E a \in Addresses :
         \/ \E types \in Schemas : NewTable(a, types)
         \/ ReleaseTable(a) \/ Fill(a) \/ Tear(a) \/ ReadRow(a)
         \/ \E n \in Names : AddTable(n, a)
    \/ \E n \in Names : DropTable(n) \/ GetTable(n)
    \/ Reset
    \/ \E a \in handles \cup Outputs \cup {NoTable} : NewTableWrapper(a) \/ PrintTable(a)
    \/ \E input \in 0 .. Len(operators) : NewPrint(input)
    \/ \E o \in DOMAIN operators :
         \/ ReleaseOperator(o) \/ ExecuteTableWrapper(o)
         \/ ExecutePrint(o) \/ ExecutePrintThrows(o) \/ ExecutePrintUndefined(o)

Spec == Init /\ [][Next]_vars

-----------------------------------------------------------------------------
Operators ==
    [kind : {"TableWrapper", "Print"}, table : Addresses \cup {NoTable},
     input : 0 .. MaxOperators, output : Addresses \cup {NoTable},
     held : BOOLEAN, keeps : SUBSET (1 .. MaxOperators)]

\* The state is made of what the code's variables can hold.
TypeOK ==
    /\ debug \in Builds /\ disabled \in BOOLEAN /\ warned \subseteq Types
    /\ shown \in [Types -> Nat] /\ scopes \in Seq(BOOLEAN)
    /\ tables \in [Names -> Addresses \cup {NoTable}]
    /\ contents \in [Addresses -> TableContents]
    /\ handles \subseteq Addresses
    /\ Len(operators) <= MaxOperators
    /\ operators \in Seq(Operators)
    /\ status \in {"running", "undefined"} /\ thrown \in BOOLEAN

\* A name stands for one table until it is dropped or everything is reset: in no
\* build does a second add_table under it replace the first, whose readers would
\* then disagree on what the name means (StorageManager).
NamesKeepTheirTable ==
    [][\A n \in Names : HasTable(n) /\ tables'[n] # tables[n] =>
        tables'[n] = NoTable /\ ~thrown']_vars

\* What an operator has put out is the table at the start of its chain, however
\* often and in whatever order the operators of the chain are executed, and it is
\* never taken back (AbstractOperator::execute, _on_execute).
OutputsPassOn ==
    \A o \in DOMAIN operators : operators[o].output # NoTable =>
        operators[o].output = IF operators[o].kind = "Print" THEN InputTable(o)
                              ELSE operators[o].table

\* The table that a held Print will print keeps its columns and rows, whatever is
\* dropped, reset or released before it does: it stays alive through the operator
\* that the Print reads, and its address is not used again.
PrintedTablesStay ==
    [][\A o \in DOMAIN operators : operators[o].held /\ HasInputTable(o) =>
        LET a == InputTable(o)
        IN  contents'[a].types = contents[a].types /\ (contents[a].filled => contents'[a].filled)]_vars
=============================================================================
