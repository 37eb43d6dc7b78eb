# Verification of the DYOD storage engine and of its lint tool

TLA+ modules, TLC configurations and TLAPS proofs about the two programs of the repository:

- the column store in `src/src/lib`: an in-memory database whose tables are cut into chunks, whose
  chunks hold one segment per column, and whose full chunks can be compressed by several threads;
- `src/cpplint.py`, the style checker that `src/scripts/lint.sh` runs on every source file: the state it
  carries from line to line and from file to file, and what it does with the errors it finds.

## 1. Inventory

| component | state | operations | who calls it |
|---|---|---|---|
| value types, `type_cast` (`all_type_variant.hpp`, `type_cast.hpp`) | none | cast between int, long, float, double, string | segments |
| `ValueSegment<T>` (`storage/value_segment.*`) | `_values` | `append` (casts), `operator[]` (checked in debug builds), `size` | Chunk, DictionarySegment, Print |
| `DictionarySegment<T>` (`storage/dictionary_segment.hpp`) | `_dictionary`, `_attribute_vector` | construction from a segment, `operator[]`/`get`, `value_by_value_id`, `lower_bound`, `upper_bound`, `append` (always throws) | `compress_chunk`, Print, scans |
| `FixedSizeAttributeVector<T>` | `_values` | `get`, `set`, `size`, `width` | DictionarySegment |
| `Chunk` (`storage/chunk.*`) | `_columns` | `add_segment`, `append`, `get_segment`, `size` | Table |
| `Table` (`storage/table.*`) | `_chunks`, `_maximum_chunk_size`, names, types; one global mutex | `add_column`, `append`, `get_chunk`, `compress_chunk`, `row_count` | StorageManager's clients, operators, `load_table` |
| type resolution (`resolve_type.hpp`) | none | `make_shared_by_data_type` | Table |
| `StorageManager` | `_tables` | `add_table`, `drop_table`, `get_table`, `reset` | everybody |
| operators (`operators/*`) | `_input_left/right`, `_output` | construct, `execute`, `get_output`; TableWrapper, Print | clients, each other |
| `PerformanceWarning` | one static flag, one static object per call site | warn, disable in a scope | `ValueSegment::operator[]`, Print |
| `load_table` | none | parse a file into a table | tests |

The lint tool (all in `cpplint.py`):

| component | state | operations | who calls it |
|---|---|---|---|
| arguments, configuration and files | `_root`, `_line_length`, `_valid_extensions` | `ParseArguments`, `ProcessConfigOverrides`, `ProcessFile`, `ProcessFileData`, `ProcessLine` | `main` |
| `_CppLintState`, NOLINT and `Error` | filters and their backup, verbosity, counters; `_error_suppressions`, `_global_error_suppressions` | `SetFilters`, `AddFilters`, `BackupFilters`, `RestoreFilters`, `IncrementErrorCount`, `ParseNolintSuppressions`, `Error` | files, every check |
| text of a line | `CleansedLines`: `raw_lines`, `lines`, `elided` | `RemoveMultiLineComments`, `CleanseRawStrings`, `CleanseComments`, `_CollapseStrings` | `ProcessFileData` |
| bracket matching | none | `CloseExpression`, `ReverseCloseExpression` | checks |
| `NestingState` | `stack` of blocks, `pp_stack` of `#if`s, assembly | `Update`, `CheckBegin`/`CheckEnd` of the kinds of blocks, `InTemplateArgumentList` | `ProcessLine`, checks |
| `_IncludeState` | `include_list`, section, last header | `ResetSection`, `CheckNextIncludeOrder`, `IsInAlphabeticalOrder` | include checks |
| `_FunctionState` | whether in a function, lines so far | `Begin`, `Count`, `Check`, `End` | `CheckForFunctionLengths` |
| checks over several lines | none of their own | header guard, copyright, sections of a class, empty bodies, needless semicolons, ... | `ProcessLine`, `ProcessFileData` |
| checks of one line | none | some sixty regular expressions | `ProcessLine` |

Interactions: a client fills a table through `Table::append`, which picks or makes the last chunk
and hands the row to `Chunk::append`, which hands each value to a segment's `append`, which casts.
`compress_chunk` starts one thread per column, each builds a `DictionarySegment` from the old
segment, joins them and swaps the chunk's shared pointer under a mutex. Readers hold plain
references from `get_chunk`.

What is hard here: failures in the middle of a row or of `add_column` (no step is undone); the
difference between checked (`IS_DEBUG`) and unchecked builds; compression and appends in any order;
threads that compress and read at the same time; the exceptions of worker threads; edges of casts,
value-id widths and chunk sizes. The lint tool is sequential; what is hard in it is state that must
not outlive a file, or a conditional branch, and order: a NOLINT comment counts once its line has been
read, but some errors are reported before; filters are added for one file and must be taken back on
every way out; `#else` makes the checker go back to an earlier stack and forget an include; `<` is a
bracket or an operator depending on lines further down. `PROJECT.json` lists each as a hazard at its
line.

What makes the parts correct: casts give values of the column's type; a chunk is rectangular, typed
and at most full; only the last chunk is not full; dictionaries never change and stand for the
values they were made from; a table is a list of rows; a compression is atomic, publishes whole
chunks and ends; bounds on a dictionary select the rows that a scan looks for. A lint run gives the
same file the same errors wherever it stands among the arguments, silences what NOLINT and the filters
name and counts the rest, and knows at each line which blocks, includes and functions it is in.

## 2. Plan

The most important behaviour first: a table as one thread uses it, then compression by several
threads, then the dictionary that both rest on; after that the layer above a table, and the lint tool.

| step | modules | state |
|---|---|---|
| 1 | `TypeCast`, `Table`; abstract `RowStore`, shown to be implemented by `TableRefinement` | done |
| 2 | the theorem of `TypeCast`; `TableProofs` | done |
| 3 | `CompressChunk`; abstract `CompressionService` | done |
| 4 | `DictionarySegment`, `DictionaryProofs` | done |
| 5 | `PerformanceWarning`, `Session` over it: StorageManager, the operators and the warnings their reads print | done |
| 6 | `SessionProofs`; `CompressChunkProofs` with the refinement; the action property of `TableProofs`; the type invariant of `DictionaryProofs` | done |
| 7 | `LintText`, `LintExpressions`, `LintNesting`, `LintReport`, `LintIncludes`, `LintFunctions`, `LintChecks`, composed by `Lint`; `LintProofs` | done |
| 8 | `SequenceLemmas`; the refinement of `RowStore` and the refused calls of `Table`; the types, function lengths and bounded steps of `Lint`; `LintRulesProofs` with its marks, comments and includes | done |
| 9 | the properties of `Lint` that compare two walks or two files: the stack of blocks, brackets in both directions, a file met twice; their theorems | done |

A module `LoadTable` was planned and dropped: `load_table` splits lines at `|` and calls
`Table::add_column` and `Table::append` with the pieces, and `Table` covers every sequence of those
calls with every row.

Runs: the twelve of section 4; a thing worth asking of a component that has a run becomes a property
of that run.

## 3. Modules and the code

`PROJECT.json` gives the lines of every definition; this is the reading guide.

**TypeCast** (`type_cast.hpp`, `all_type_variant.hpp`) is the operator `TypeCast(T, v)`: the *set*
of values, or the exception `BadCast`, that `type_cast<T>(v)` can come out with. A number is counted
in halves, so that 1.5 and 1 can be told apart and truncation shows. Texts are "a number", "nan" or
"a word". Precision is a limit for each representation beyond which every fourth half is kept. The
cast of not-a-number to an integral type is undefined in C++ (`boost::numeric_cast`'s range check
lets it pass), so that any value can come out.

**Table** (`table.*`, `chunk.*`, `value_segment.*`, `resolve_type.hpp`, `assert.hpp`) is a table as one
thread uses it.

| variable | code |
|---|---|
| `debug` | `IS_DEBUG`: whether `DebugAssert` throws |
| `maximumChunkSize` | `Table::_maximum_chunk_size` |
| `columnTypes` | `Table::_column_types`, with `_column_names` beside it |
| `chunks` | `Table::_chunks`; a chunk is the sequence of its segments, a segment its kind, type and values |
| `status` | whether the program still runs, was terminated, or left what C++ defines |
| `result` | the last call and its answer |

One action for each way a call can go: `add_column` is `AddColumnRefused`, `AddColumnThrows` (the type
is stored already when the segment throws) and `AddColumn`; `append` is `AppendUndefined`,
`AppendThrows`, `AppendArity` (the new chunk stays) and `AppendRow`, which writes cell by cell from the
left as `Chunk::append` does and stops at the first cell that is not taken; `compress_chunk` is
`CompressNoChunk`, `CompressChunk` and `CompressTerminates`; reads are `ReadRow` and `ReadFails`,
Print's walk over a row. The constant `CarefulCallers` says whether callers keep to what the
documentation asks and what only a checked build enforces.

**RowStore** is what a table promises: a list of typed columns and a growing sequence of whole rows.
`TableRefinement` maps the complete rows of all chunks, read one after the other, to its rows.

**CompressChunk** (`Table::compress_chunk`, `Table::get_chunk`) is compression by several threads.
Variables: `slots` is `_chunks`, an index into `heap` for each slot; `mutex` is `chunk_access_mutex`
(the set of threads between `lock` and `unlock`); `workers` and `compressed` are the worker threads of a
call and `compressed_segments`; `object` is `old_chunk`, or a reader's reference. Accesses to a slot
have a beginning and an end (`BeginCompress`/`CopySlot`, `BeginFetch`/`EndFetch`,
`BeginSwap`/`EndSwap`), so that a data race is a state: `Race`. The constant `Shared` is the set of
chunks that threads use without coordination; each other one has one user at a time. A reader whose
chunk's last shared pointer is gone is `Dangling`. After either the behaviour stops, as C++ promises
nothing further. The workers are modelled with the exception that leaves them, and with the limit at
which the `std::thread` constructor throws. **CompressionService** is the promise: each call compresses
its chunk in one step, somewhere between its call and its return.

**DictionarySegment** (`dictionary_segment.hpp`, `fixed_size_attribute_vector.*`) is the construction and
then the calls. Variables: `values` is the source segment, `sorted` the copied vector as far as it is
sorted, `dictionary` is `_dictionary`, `ids` and `width` are `_attribute_vector`; `query`, `first`
and `len` are a running binary search. `SortNext`, `UniteNext`, `SearchStep` are iterations of
`std::sort` (the insertion sort that the library runs on up to sixteen elements; for values with a
total order every sort gives the same vector), `std::unique`, and the searches; `EncodeNext` and
`StoreId` look up and store the id of one value; `AskBound`, `AskThrows` and `AnswerBound` are both
bounds, with the cast of their argument; `Read`, `ValueByValueId` and `Refuse` the rest.

**PerformanceWarning** (`performance_warning.hpp`, `ValueSegment<T>::operator[]`) has the flag `disabled`,
the static warning objects, one for each type `T` (`warned`, and in `shown` how often each has
printed), and `scopes`, the `_previously_disabled` of the client's nested disablers. `Restored` is the
destructor of a disabler; a function with a disabler of its own is one step, `ReadSilently`.

**Session** (`storage_manager.*`, `abstract_operator.*`, `table_wrapper.*`, `print.*`) is a client on one
thread. `tables` is `StorageManager::_tables`; `handles` are the client's shared pointers to tables;
an operator in `operators` has its `_table` or `_input_left`, its `_output`, whether the client still
holds it, and which operators its shared pointers keep. `LiveTables` are the tables that any shared
pointer leads to; a new table may be put at every other address, so that a pointer that does not
keep its object would show. What a table holds is cut down to what printing tells apart: its
types, whether it has rows, whether an append has torn it. The client may execute operators in
any order and twice; a Print without an input table is `ExecutePrintUndefined`.

The modules of the lint tool. The ones named after a class keep its state in a record and its methods
as operators on it; `LintReport` and `Lint` have the variables and the actions.

**LintText** is what `CleansedLines` does to the text. A line is its indentation and a sequence of
tokens (words, brackets, quotes, `//`, `/*`, the `R` of a raw string), which keeps everything that the
stages tell apart. The three copies of the text are `raw_lines`, `lines` and `elided`, in the order of
the code: multi-line comments, raw strings, then quotes and comments of a line.

**LintExpressions** is `CloseExpression` and `ReverseCloseExpression`: a stack of brackets carried from
line to line, in which a `<` waits to turn out an operator.

**LintNesting** is `NestingState`: `stack` (a block is its kind, where it starts, whether its brace was
seen, its parentheses, assembly, access), `pp_stack` with the stacks before an `#if` and at its first
`#else`, the loop of `Update` over the brackets of a line, and the checks at the end of a block.

**LintReport** has `_cpplint_state` and the suppressions as variables. A category is the sequence of the
parts at which a filter can stop (`build`, `include`, `_order`), so that "starts with" is `IsPrefix`.
`Handle` is `Error` for an error, and `ParseNolintSuppressions` for a NOLINT mark.

**LintIncludes** and **LintFunctions** are `_IncludeState` and `_FunctionState`; a header's name is a
record of what the classification looks at. **LintChecks** has the checks that look at other lines, at
the nesting or at other marks. A check is a sequence of *events*, the errors that it reports and the
NOLINT marks that it reads, in the order of the code.

**Lint** is a run. `job` (arguments, files, configuration files) is chosen at the start; nothing is left
to choose after it.

| variable | code |
|---|---|
| `phase` | where `main` and `ProcessFile` stand: `arguments`, `start` (of a file), `read`, `lines`, `restore`, `done` |
| `exitCode` | the argument of `sys.exit`; 1 too for an exception nobody catches |
| `root`, `lineLength`, `extensions` | the module variables of these names |
| `file`, `position` | loop counters of `main` and `ProcessFileData` |
| `clean`, `nesting`, `includes`, `function` | the objects made for the file |
| `pending` | the events that the last line's checks have left; `Report` handles one |

`ParseArguments`, `StartFile` (with `ProcessConfigOverrides`), `SkipFile`, `OpenFile`, `ProcessLine`,
`FinishLines`, `EndFile` and `Exit` are the code between two such points. The checks of a line run in the
code between the events they report; no check reads what `Error` writes, so that they may be evaluated
in one step and their events handled one by one. `Ended` is the process that is gone: any other state
without a next step is a deadlock that TLC reports.

The module declares what its folds rely on: options, files, the directories on the way to a file, the
entries of a configuration file and lines come in an order, and so does a line's text
(`JobsAssumption`); the line put before a file holds no NOLINT mark (`NolintsAssumption`); the triggers
for the length of a function are positive (`TriggersAssumption`).

**SequenceLemmas** models nothing: it is induction over numbers and sequences, and what the folds over
sequences that the models use compute. The proof modules of `Table` and `Lint` rest on it.

## 4. Runs and what they show

| run | instance | question and answer |
|---|---|---|
| `table_careful` | both builds, chunk sizes 0, 1, 2, types int and string, values that can be cast to both, careful callers | Rows are never stored in part (`Rectangular`), nothing crashes (`KeepsRunning`), and the table is a list of rows (`ImplementsRowStore`): holds |
| `table_any` | both builds, an unknown type name, a value that cannot be cast, callers who do anything | What is kept even so: chunks filled in order, typed columns, lengths that descend from left to right, segments in the order of the table's types up to the first unknown one (`SegmentsLineUp`), complete rows that only a storing call changes (`OnlyStoringChangesRows`); with assertions, nothing undefined but the read of a torn and sealed row (`CheckedBuildsStayDefined`): holds |
| `table_torn` | a value that cannot be cast, checked build | `Rectangular` is violated: *finding 1* |
| `table_sealed` | careful callers | `RowsCanBeInserted` is violated: *finding 2* |
| `compress_chunk` | three threads, two chunks of two columns, one of them shared without coordination, at most two worker threads at a time | Whole chunks only, exclusive swaps, every call ends, and each is atomic; no race and no dangling reference on the chunk with one user at a time; on the other a reader loses its object only to a compression of this chunk: holds |
| `compress_shared` | two threads on one chunk | `ChunksAreNotAccessedConcurrently` is violated: *finding 3* |
| `dictionary` | int, float and string segments of up to four values; a one-byte id goes up to 2, a two-byte id up to 4 | Ids decode to their values, none is INVALID_VALUE_ID, bounds split the rows: holds |
| `dictionary_nan` | a float segment with not-a-number | `DecodesToItsValues` is violated: *finding 4* |
| `dictionary_fraction` | a bound of 1.5 in an int column | `BoundsMeanTheSearchValue` is violated: *finding 5* |
| `session` | both builds, one name, two addresses, two operators, one scope, int and string columns | Names keep their table until dropped, operators pass on their table and keep it alive, warnings are disabled in their scopes and only there: holds |
| `session_warning` | the same, checked build | `WarningIsShownOnce` is violated: *finding 6* |
| `lint` | 28,248 runs of `cpplint.py` on one to three files of up to sixteen lines, in families that stress one part each | Filters are restored, counters add up, NOLINT silences its line, no file leaves anything for the next (`SameFileSameErrors`), the stack follows the braces through `#if` and `#else`, includes are remembered and late ones found, brackets agree in both directions, no comment is left in elided lines, long functions are reported, every run ends: holds, with the exceptions that the properties name |

Every property of a passing run has a mutant in `PROJECT.json`: a plausible slip in a modelled
definition, written as an operator marked "(Mutant: ...)" in front of the one it replaces, with which
TLC finds the property violated. No specification uses these operators.

**What the runs leave to callers.** Some misuse is undefined by the code's own contract: a column added
to a table with rows, a row of a wrong length or an unknown type name in a build without assertions. No
property can forbid there what the code does not, so the properties say two other things: careful
callers never meet it (`KeepsRunning`), and a build with assertions refuses it in time
(`CheckedBuildsStayDefined`). Of the unchecked build only the shape of the chunks is stated
(`LengthsDescend`). Likewise threads that use one chunk without coordination race and lose what they
read, which `compress_shared` shows for the race. What holds even so is that it stays with this chunk:
the others are safe (`CoordinatedChunksAreSafe`), and what a reader of it loses, it loses in a step of a
call that compresses it (`ReadersLoseChunksToTheirCompression`). The hazards in `PROJECT.json` that are
covered only so far have a note that says so.

**Bounds.** Two columns are what a torn row needs, one written and one not; two chunks are what is
needed for a full and a last one; chunk sizes 0, 1 and 2 are the size that no chunk with a row ever
equals (so that the second chunk grows for ever), the size at which each row fills its chunk, and one at
which a chunk can be partly filled. `MaxChunkRows` bounds the chunk that would grow for ever. Three
threads are two that compress and one that reads, so that a reader can lose its object by the return of
a call and by the swap of one that has copied an older object, and with one thread on the coordinated
chunk two are left to race on the other. `MaxCalls` (two) lets a chunk be compressed again, and with two
worker threads at a time a caller can run out of threads with none or with one of its own started. That
a call which fails to start a worker takes the last share of a reader's object needs a third call, and
was checked with three calls on one column and one worker thread at a time. A dictionary of four values
goes through one-byte, two-byte and four-byte ids, because the limits of the widths are scaled down with
it (2, 4 and 7 for 255, 65535 and 2^32 - 1); a search of four values goes through both halves, and three
deep. In `session` two operators make a chain (a wrapper and a Print of it) and two addresses let one
table be replaced by another while the first is, or is no longer, pointed to. The one scope of the
client is nested with that of each Print; the two addresses are interchangeable and declared a symmetry,
as the run has safety properties only.

In `lint` the families stress one part each, with every text of a few line patterns: conditionals and
class heads (up to five lines, which is an `#if`, an `#else`, an `#endif` and two braces between them),
class bodies and namespaces (four), every line of up to four heads, braces and semicolons inside a block,
assembly (three), every word of four brackets, blocks and NOLINT marks (four), comments, strings and raw
strings (four), every line of up to four quotes and comment marks, includes with conditionals (four), header
guards, functions of 0 to 13 body lines at three verbosities, two levels of configuration files with at
most two entries in the inner one, at most two options, and three files of which the first is repeated.
The thresholds are scaled down to what these texts reach: a namespace of 2 lines (10 in the code), a
class of 3 (24), functions of 2 and 3 (250 and 400), copyright in the first 2 lines (10), a
line length of 12 tokens and blanks (120).

**Fairness.** `Lint` needs none: a run is deterministic and each step lowers a bound
(`StepsAreBounded`); with the deadlock check that is why it ends. Only `CallsEnd`
needs any. `FairSpec` assumes weak fairness of every thread inside
`compress_chunk` and of every worker, which is what a preemptive operating system gives a runnable
thread. It assumes nothing of callers (no call has to be made), of readers, nor of the order in which
`std::mutex` admits waiting threads: weak fairness of `Lock` suffices, as the calls are bounded and
each holder goes on to unlock.

**Deadlock** is checked in `lint`. It is not checked where the system may stop: a program that was
terminated, one that left what C++ defines, a finished bounded run.

## 5. Findings

1. *A failed append tears a row.* `Chunk::append` (`chunk.cpp:23`) casts and writes value by value.
   If a cast throws for a later column, the first ones keep their new value: the columns are no
   longer equally long, `size()` counts a row that is not there, and the next append shifts
   the columns against each other. The header promises "a new row"; the tests expect a throwing append
   to leave the size as it was.
2. *A compressed last chunk takes no rows for ever.* `append` (`table.cpp:50`) makes a new chunk only
   when the last one holds exactly the maximum number of rows. Once a partly filled last chunk has
   been compressed, every append throws.
3. *The slot is copied without its mutex.* `compress_chunk` (`table.cpp:107`) copies the shared
   pointer before it locks; another call on the same chunk may be replacing it. When every thread
   works on a chunk of its own the race cannot happen (`CoordinatedChunksAreSafe`).
4. *Not-a-number is not preserved by compression.* It compares as less than nothing, so the lookup
   ends at another entry.
5. *Bounds of another type are rounded first.* `lower_bound(AllTypeVariant)` casts the searched value
   to the column's type: 1.5 becomes 1 in an int column, and the id of 1 is not the first that is
   >= 1.5.
6. *A warning is shown once for each type.* The static object that limits it to once stands in
   `ValueSegment<T>::operator[]` (`value_segment.cpp:18`): every `T` has its own, with the same text.

The lint tool showed no disagreement that a run is devoted to, but modelling it did show these, which
are part of the model and of the exceptions in its properties:

- `linelength` and `root` of a `CPPLINT.cfg` are never restored (`cpplint.py:5898`): they hold for all
  later files, and the outer directory's value replaces the inner one's, though the usage text says
  "unless overridden by a nested configuration file" (line 165). `SameFileSameErrors` excepts such runs.
- A filter without a sign raises a `ValueError` that nobody catches, from the command line as from a
  configuration file (line 881).
- Several `filter` entries of one configuration file are applied last first (line 5917).
- The body of an `if` whose condition ends on another line is reported before the NOLINT of that line
  is read (line 3937), a header guard before the mark NOLINTNEXTLINE above it (line 1821), and marks in
  multi-line comments are erased with the comment (line 1331): the exceptions `FoundEarly` and
  `FoundBeforeTheLines` of `NolintSilencesItsLine`.
- A NOLINT with an unknown category is reported each time the mark is read, which an empty body does
  once more (line 3900).
- The list of includes of an `#if` is not dropped at its `#endif` (line 724), so that the first header
  after it that the `#if` included is called a duplicate.
- Header guards are looked for in files named `.h` only (line 5822), and this repository's headers are
  named `.hpp`.
- The filter `-build/include` filters `build/include_order` and `build/include_alpha` too (line 1151).

## 6. What is proved

All theorems hold for every value of the constants that satisfies the modules' assumptions (sizes
and limits are natural numbers, values are values of the five types, the three widths of ids
increase, a segment has fewer rows than the largest 32-bit number, a table's schema has a column type,
there is at least one chunk), unless one is named below. The lint theorems hold for every set of runs
whose options, files, directories, configuration entries and lines are sequences, with any texts, marks, configuration files and limits.

| theorem | statement | further assumptions |
|---|---|---|
| `TypeCastType` | a cast gives a value of the type asked for, in its range, or the exception | none |
| `TypeCorrect` | `Spec => []TypeOK` (Table) | none: every caller, every build |
| `ColumnsStayTyped` | `[]ColumnsAreTyped` | none |
| `LengthsAlwaysDescend` | `[]LengthsDescend` | none |
| `CompressedStaysOnTheLeft` | `[]CompressedOnTheLeft` | none |
| `ChunksAreFilledInOrder` | `[]ChunksFilledInOrder` | none |
| `RowsAreWhole` | `[]Rectangular` | careful callers, casts succeed |
| `CallsAreDefined` | `[]KeepsRunning` | the same, and known type names |
| `CompressedSegmentsStay` | `CompressedStays` (Table) | none: every caller, every build |
| `OnlyStoringEverChangesRows` | `OnlyStoringChangesRows` (Table) | none: every caller, every build |
| `SegmentsAlwaysLineUp` | `[]SegmentsLineUp` | none: every caller, every build |
| `CheckedBuildsAlwaysStayDefined` | `[]CheckedBuildsStayDefined` | what the property says: assertions are on |
| `TableImplementsRowStore` | `ImplementsRowStore` | careful callers, casts succeed, known type names |
| `ColumnsDecode` | `[]DecodesToItsValues` (DictionarySegment) | no not-a-number |
| `IdsCompare` | `[]IdsCompareAsValues` | no not-a-number |
| `InvalidIdStaysFree` | `[]InvalidIdIsFree` | no not-a-number |
| `BoundsSplit` | `[]BoundsSplitTheRows` | no not-a-number |
| `SegmentTypeCorrect` | `[]TypeOK` (DictionarySegment) | none |
| `CompressTypeCorrect` | `[]TypeOK` (CompressChunk) | none: any number of threads, chunks, columns, workers |
| `SwapsStayExclusive` | `[]SwapsAreExclusive` | none |
| `SlotsStayWhole` | `[]SlotsHoldWholeChunks` | none: whatever chunks are shared |
| `CoordinatedChunksStaySafe` | `[]CoordinatedChunksAreSafe` | what the property says: chunks with one user at a time |
| `ServiceIsImplemented` | `ImplementsCompressionService` | none |
| `ReadersKeepOtherChunks` | `ReadersLoseChunksToTheirCompression` | none: whatever chunks are shared |
| `SessionTypeCorrect` | `[]TypeOK` (Session) | none: any number of names, tables, operators |
| `OutputsAlwaysPassOn` | `[]OutputsPassOn` | none |
| `NamesAreKept` | `NamesKeepTheirTable` | none |
| `TablesToPrintStay` | `PrintedTablesStay` | none |
| `DisabledExactlyInScopes` | `[]DisabledInScopesOnly` | none: any depth of scopes |
| `EachIsShownOnce` | `[]ShownOncePerType` | none |
| `ScopesStaySilent` | `ScopesAreSilent` | none |
| `FiltersAlwaysRestored` | `[]FiltersAreRestored` (Lint) | none: any arguments, configuration and files |
| `CountsAlwaysAddUp` | `[]CountsAddUp` | none |
| `RunHasTypes` | `[]TypeOK` (Lint) | none |
| `LongFunctionsAlwaysReported` | `[]LongFunctionsAreReported` | none: any triggers, any verbosity |
| `StepsOfRunAreBounded` | `StepsAreBounded` | none |
| `NolintAlwaysSilencesItsLine` | `[]NolintSilencesItsLine` | none: the exceptions are the property's |
| `CommentsAreElided` | `[]ElidedHasNoComments` | what the property says: the line's quotes are paired |
| `UnconditionalIncludesAlwaysKnown` | `[]UnconditionalIncludesAreKnown` | what the property says: no assembly, no stray `#else` |
| `LateIncludesAlwaysFound` | `LateIncludesAreFound` | none: the exceptions are the property's |
| `StackAlwaysFollowsBraces` | `[]StackFollowsBraces` | what the property says: every head has its brace or its semicolon on its line |
| `BracketsAlwaysAgree` | `[]BracketsAgree` | none |
| `SameFileAlwaysSameErrors` | `[]SameFileSameErrors` | what the property says: no configuration file sets the length or the root |

*Sequences and loops.* Much of what these theorems speak of is computed by a fold: the rows of all
chunks one after the other, the state of a loop over a line. `SequenceLemmas` proves induction for a
*set* of numbers or sequences (`SetInduction`, `SeqInduction`, from the library's theorem that every
set of numbers has a least element), and with it what `FlattenSeq` does to a sequence that is
extended or changed at its end (`FlattenAppend`, `FlattenLast`). A loop of the lint models is a
recursive function; that it has a value for every turn is `LoopTurns`, and that what each turn keeps
holds at its end is `LoopHolds`. The turn and what it keeps are constants of the module, so that each
loop is an instance of it (`RawLoop`, `CutLoop`, `BraceLoop` and others in `LintProofs`), and its
invariant is proved for one turn. As `SequencesExt` would come along with each of these instances,
`SequenceLemmas` defines the few operators of it that it is about under other names (`Flatten`,
`Largest`, `Smallest`, `Elements`) with the same bodies; that they are the same operators is proved
where the lemmas are used (`FlattenSeqIsFlatten`, `MaxOfInterval`, `RangeIsElements`).

*Table.* `TypedInv` is `TypeOK` and `ColumnsAreTyped` together, because neither is inductive alone: that
a written cell is a value at all, and of its column's type, needs `TypeCastType` and that the segment's
type is a known one. `ChunkCases` sorts every step by what it can do to a chunk (leave it, add a column,
compress it, make it, write a row's cells to it), and each of the other invariants is proved once for
each of these cases. About appends they rest on one fact on `WrittenCells`: the cells that are written
are those of an initial part of the columns, so that a column never overtakes one on its left.
`CompressedStays` is a property of steps: `SealedStep` goes through the same cases, and the one that
writes cells rests on a compressed segment refusing its cell. `OnlyStoringChangesRows` needs two things
of an append that throws: a chunk's complete rows are as many as its last column has cells
(`LengthsDescend`), and an append that fails has not written the last one; and a new empty chunk at the
end has no rows. Of a compression it needs that a dictionary keeps the values of its segment
(`CompressedRows`).

*Types and assertions.* `SegmentsLineUp` is inductive: a chunk made later gets its segments from the
list of the types, so that each known type in front of the first unknown one has its segment
(`SameTypesAligned`, `AddedTypeAligned`, `LinesUpStep`). `CheckedBuildsStayDefined` needs more
(`CheckedInv`): with assertions no chunk ever has a null segment, so that neither `size` nor an append
dereferences one (`CheckedLastChunk`, `CheckedAppend`); and a read that is left undefined finds a cell
missing, which a value segment's checked `operator[]` reports and only a dictionary that is shorter than
its chunk does not (`CheckedRead`).

*Careful callers.* `Rectangular` is not inductive: a torn row is avoided only if an append that fails
writes nothing. `CarefulInv` adds why: when casts succeed, the only segments that refuse a cell are
compressed ones; those stand on the left (`CompressedOnTheLeft`), so the first refuses before
anything is written; no segment is null, and no row is longer or shorter than its chunk
(`ColumnsAgree`, by the assertions of a checked build or by the callers' care).

*Refinement of a table.* A call of the abstract store must give the same answer and the same rows as the
code, and for that the invariant of careful callers is not enough: `SchemaAgrees` adds that the columns
of every chunk are those of the table, so that the row a chunk accepts is one the store accepts. A step
then maps to the store's call of the same name: an accepted row is the last one in the flattened
chunks, whether it goes to the last chunk or to a new one; adding a column happens to an empty table
only; compression changes neither rows nor answers; and the calls that a careful caller's table refuses
are those that the store may refuse. `ReadRow` reads at a place of a chunk, which is one of the rows of
the store.

*Dictionaries.* `DecodesToItsValues` says nothing of a segment that is not encoded yet. `DictionaryInv`
follows the construction: the sorted values ascend and none is lost (`SortedInv`); the dictionary
ascends *strictly* and has every value united so far, its last entry being the last value seen
(`UnitedInv`); what a search has put aside lies on the proper side of the bound (`SearchInv`); so
the lookup of a value ends exactly in front of its only entry, whose id the chosen width can hold
(`EncodedInv`, `WidthIsEnough`); and a bound's answer splits the rows (`AnswerInv`). All of it needs that `<` is
a total order on a type's values (`LessIsOrder`), which is where not-a-number is excluded;
`dictionary_nan` shows that it has to be. The invariant was checked by TLC on the `dictionary`
instance before it was proved.

The type invariant is proved for every value, not-a-number among them, so it cannot use any of this;
`TypedLoops` adds only how far the loops have come (`LoopInv`).

*Compression by threads.* `CompressInv` says of each thread what its place in `compress_chunk` implies
for its own variables (`ThreadInv`): the chunk it builds is empty until it joins, holds the dictionaries
of the columns joined so far while it does, and is complete from then on; that no two threads build the
same chunk; that slots hold whole chunks; and who holds the mutex (`LockInv`). A step of one thread is
shown once (`NotDisturbed`, `LocalStep`) to leave the others' part alone, because it writes only its own
new chunk, so that each action has to be looked at for its own thread only. `CoordinatedChunksAreSafe`
needs two facts more, `OwnChunks`: a chunk that is not shared has one user, and the object of its reader
is still in its slot. The refinement is proved step by step (`ServiceStep`): a call of the abstract
service begins, takes effect at the end of the swap, and returns where the code's does; all other steps
change nothing that `CompressionService` sees (`UnseenStep`). It needs `CompressInv` to know that what
is swapped in is the compressed form of what is there.

What the readers of a shared chunk lose is a question of its own. `AreVersions` gives each object made
so far the one chunk that it is a version of: what a slot points to, what a call compresses or makes for
it, and what a reader of it refers to. That there is such a function is inductive (`VersionInv`): a call
adds its new object to it, and no step moves an object from one chunk to another. So the slots and the
calls that share a reader's object all belong to its chunk, and the step that gives up the last share is
theirs (`LossStep`).

*Sessions.* An operator's output can be traced to the start of its chain because inputs are older than
what reads them and kept alive by it (`InputsAreKept`). `ScopesInv` strengthens the property on scopes
by what each disabler has put aside: only the outermost found warnings enabled. `ShownInv` ties what was
shown to the static objects that exist.

*Lint.* `FiltersInv` adds that the backup holds the command line's filters while a file is at hand.
`CountsInv` adds that nothing is printed before it is known how to count; the step is one lemma,
`MessageCounted`: one message more is one more for each of the counters of its category and for no
other.

`LintInv` carries the others. `RunInv` is where the run stands, `FileInv` the shapes of what is known of
the file at hand (the copies of its lines are equally long, blocks know where they start), `EventsInv`
that everything still to be handled is a mark of the file or an error of a known category. All of this
is in `TypeOK`, which `RunHasTypes` proves, and TLC checks it. Its step needs a lemma for every function
of the models that makes lines, blocks or events, up to `ProcessLineEvents` and `FinishLinesEvents`; the
loops among them are instances of `LoopHolds`. These lemmas say more than types. Of the errors
(`LineEvents`) they say what the marks depend on: an error stands on a line up to the one being read, or
it is one of those found early, or the marks it needs come before it in the same list (a semicolon after
a block that ends further down, a header guard). Of the length of a function (`ErrorLevelIsHigh`) they
say that the confidence, which comes from dividing the length by the trigger, is at least the verbosity,
with which the trigger was multiplied.

`SilenceInv` strengthens `NolintSilencesItsLine`, which looks at messages only, by what is still to be
handled: the mark of every line so far has been read or waits to be, and a mark that a waiting error
needs has been read or waits in front of it. That a mark is not yet read when an error is reported can
then only be one of the property's exceptions. One of them was found by the proof: a header guard is
checked on the lines without their raw strings, so that a mark in a raw string on its line is read later
(`MarkInRawString`).

`StepsAreBounded` compares a state with the next one; the only fact it needs of the state is that a
phase is one of the six, which `RunInv` says.

`CommentsAreElided` is about the last two stages of `CleansedLines`. Collapsing the strings of a line keeps
only what stands outside of them, which is shown along the pieces that it puts together (`FlattenSeq`);
a turn of the loop of `CleanseComments` that finds a `/* */` shortens the text, so that with as many turns
as the text has tokens none is left; and what `RemoveMultiLineComments` has left pairs the rest. The
proof corrected the property: for the line `/* " */ //` the code counts the quote in the comment and takes
the `//` for a part of a string, so that the quotes to be paired are those of the line before its comments
are cut.

The two theorems on includes rest on `AllIncludesInv`: a header in the list of includes was included on
an earlier line (`IncludesInv`), a header included outside of every `#if` is in one of the sets of the
list, and not in the last one while an `#if` is open (`KnownInv`), so that the `#else` that throws the last
set away does not forget it; and behind a header of another package the section stays `OTHER_H_SECTION`
until a directive other than `#include` and `#define` resets it (`SectionInv`). Lines of assembly are
not looked at, and a block can be one only if the word `asm` stands in the file: the words of a file
(`Words`) are a parameter of the shape of its blocks. The proof corrected the model too: `CheckLanguage` looks for
an include in `elided`, and `CheckIncludeLine` once more in `lines`, which the model had left out.

`StackAlwaysFollowsBraces` compares `NestingState` with a fold over all tokens up to the line. Its invariant
(`BracesInv`) gives the `#else` parts their place, which the property leaves out: outside of them the
stack has as many blocks as braces are open, each with its brace seen, and inside of them it is the stack
put aside by the outermost `#if` (`stack_before_else`) that has as many as the fold counts, since the
code returns to that one at `#endif`. Within a line one head may wait for its brace, and then the next brace or
semicolon of the line is known to be its own (`BracesStand`); this is what the property's precondition is
for, and each kind of token that `NestingState.Update` consumes is one case of the loop's turn.

`BracketsAlwaysAgree` compares two walks over the same lines in opposite directions, each with a stack of
its own. A `<` or `>` on a stack may be a bracket or, once a bracket around it closes, an operator that is
dropped; what stays is the list of the other open brackets (`Bare`), and on the way back it is the mirror
image of what it is on the way forward (`Mirror`). `ForwardStep` says what a token does to the list on the
way forward, for each kind of token and of bracket on top; `BackwardStep` says that the same token met on
the way back undoes it; a `<` or `>` leaves the list alone both ways, as bracket, comparison, shift or part of
`->`. So for every token the walk forward has passed there is a way back to the opening bracket, within its line
(`GoesBack`, kept by the loop over tokens: `Forwards`) and over the lines before (`Returns`, kept by the
loop over lines: `Seeks`), and the walk forward ends when its list has become empty.
The theorem needs of the state only that lines are sequences of tokens, which is in `LintInv`.

`SameFileAlwaysSameErrors` compares two parts of one run, which no invariant of a single state shows as it
stands. The proof says first what the lint of a file is a function of. `Began` and `WorkTurn` are the steps of
`StartFile` to `EndFile` as functions of the file, the arguments and a record of what these steps read and
write, and `After` is that record after n turns. Each action is shown to do what the turn does
(`OpenFileTurn`, `ProcessLineTurn`, `ReportTurn` and the others), on the variables that still matter in its phase
(`IsAt`): what the file before has left in `nesting`, `includes` or `suppressions` is not among them before
`OpenFile` has set it. The invariant (`SameInv`) is then that the file at hand is after some number of turns where
`After` says, and that the errors printed for each file before it are those with which its turns end,
the first time they do (`ComesTo`); as a file has one such end (`EndIsUnique`), equal files have equal errors. That
the filters are those of the command line again at every start is `FiltersAlwaysRestored`; that the length and
the root are still what the arguments say is where the property's precondition is needed (`ConfigLeaves`).

**Only model-checked:** `CallsEnd`, as the proof system does not treat fairness. Every other property of a
passing run is stated by a theorem.

**Only proved:** `CompressedStays` (a compressed segment never changes again), `IdsCompareAsValues` (ids
compare like their values) and `ScopesAreSilent` (nothing is printed inside a scope of a disabler). TLC
checked them on the runs `table_any`, `dictionary` and `session` before they were proved; as they hold
for every instance, the runs leave them out.

The models of cpplint use recursive functions and folds only, so that the proof modules can extend them.

## 7. What is not modelled

- `append` beside `compress_chunk` in another thread: the header says that `append` is not
  thread-safe and meant for tests.
- The 16-bit column and 32-bit row counts: reaching their limits takes 65536 columns, and the header
  documents them as limits.
- `std::sort` on more than sixteen values with not-a-number among them, which is undefined; the
  insertion sort of fewer is what `dictionary_nan` runs on.
- `estimate_memory_usage`, accessors, column names: they change no state and no property is about
  them. `add_column_definition`, `create_new_chunk` and `emplace_chunk` have empty bodies.
- GetTable, TableScan and ReferenceSegment: declared, not implemented.
- `load_table`: see section 2. Its edge cases (a line of types shorter than that of names) are a hazard
  with a note.
- The lint checks of one line (`CheckSpacing`, `CheckBraces`, casts, references, the C++11 and C++14
  lists, `CheckForIncludeWhatYouUse` and others): regular expressions without state. Each can only add
  one more event to a line's, and `Handle` treats all categories alike.
- Escapes, single quotes and continuation backslashes in the text of a line; the file name `-` for
  standard input; the wording and formats of messages; the decoding of invalid UTF-8.
- The parallel start of one `cpplint.py` per file by `lint.sh`: the processes share nothing.
- Operators and disablers on several threads: the flag, `_output` and the StorageManager's map are
  plain members without any synchronisation, and nothing in the repository uses them from threads.
- The order of texts with more than one digit: texts are compared as the numbers they spell.
