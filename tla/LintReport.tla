----------------------------- MODULE LintReport -----------------------------
(***************************************************************************)
(* What cpplint.py does with an error a check has found: the filters, the  *)
(* verbosity and the NOLINT comments that may hold it back, the counters   *)
(* it is added to.                                                         *)
(*                                                                         *)
(* A category is the sequence of the parts a filter can stop at, so that   *)
(* "starts with" is IsPrefix: build/include_order is build, include,       *)
(* _order, and the filter -build/include speaks of it too.                 *)
(***************************************************************************)
EXTENDS LintNesting, TLC

CONSTANT Nolints \* the NOLINT marks: a function from tokens to [next, category]

\* The line put before a file is no mark.
ASSUME NolintsAssumption == Range(Marker.text) \cap DOMAIN Nolints = {}

VARIABLES
    verboseLevel,       \* _cpplint_state.verbose_level
    filters,            \* _cpplint_state.filters, each a sign and a category
    filtersBackup,      \* _cpplint_state._filters_backup
    counting,           \* _cpplint_state.counting
    errorCount,         \* _cpplint_state.error_count
    errorsByCategory,   \* _cpplint_state.errors_by_category
    suppressions,       \* _error_suppressions, pairs of a category and a line
    globalSuppressions, \* _global_error_suppressions
    printed             \* the messages written so far

reportVars == <<verboseLevel, filters, filtersBackup, counting, errorCount,
                errorsByCategory, suppressions, globalSuppressions, printed>>

AllCategories == <<>> \* the key None: every category
IncludeAlpha == <<"build", "include", "_alpha">>
UnknownNolint == <<"readability", "nolint">>
DefaultFilters == <<[sign |-> "-", category |-> IncludeAlpha]>>
LegacyCategories == {<<"readability", "streams">>, <<"readability", "function">>}

ErrorCategories ==
    {<<"build", "class">>, <<"build", "header_guard">>, <<"build", "include">>,
     IncludeAlpha, <<"build", "include", "_order">>, <<"build", "namespaces">>,
     <<"legal", "copyright">>, <<"readability", "braces">>,
     <<"readability", "casting">>, <<"readability", "constructors">>,
     <<"readability", "fn_size">>, <<"readability", "multiline_comment">>,
     <<"readability", "multiline_string">>, <<"readability", "namespace">>,
     UnknownNolint, <<"runtime", "indentation_namespace">>,
     <<"whitespace", "blank_line">>, <<"whitespace", "empty_conditional_body">>,
     <<"whitespace", "empty_if_body">>, <<"whitespace", "empty_loop_body">>,
     <<"whitespace", "ending_newline">>, <<"whitespace", "indent">>,
     <<"whitespace", "line_length">>, <<"whitespace", "newline">>,
     <<"whitespace", "tab">>}

InitReport ==
    /\ verboseLevel = 1
    /\ filters = DefaultFilters
    /\ filtersBackup = DefaultFilters
    /\ counting = "total"
    /\ errorCount = 0
    /\ errorsByCategory = <<>>
    /\ suppressions = {}
    /\ globalSuppressions = {}
    /\ printed = <<>>

-----------------------------------------------------------------------------
(* Filters.                                                                *)

ValidFilters(list) == \A i \in DOMAIN list : list[i].sign \in {"+", "-"}

\* The last filter that speaks of a category decides.
IsFiltered(category) ==
    LET speaking == {i \in DOMAIN filters : IsPrefix(filters[i].category, category)}
    IN  speaking # {} /\ filters[Max(speaking)].sign = "-"

BackupFilters == filtersBackup' = filters
\* (Mutant: a backup that is the list itself and not a copy.)
RestoreSharedFilters == UNCHANGED filters
RestoreFilters == filters' = filtersBackup

-----------------------------------------------------------------------------
(* NOLINT.                                                                 *)

\* What ParseNolintSuppressions will do for a raw line, when its time comes.
NolintEvents(raw, ln) ==
    LET text == TextAt(raw, ln)
        at == SelectInSeq(text, LAMBDA t : t \in DOMAIN Nolints)
    IN  IF at = 0 THEN <<>> ELSE <<[kind |-> "nolint", line |-> ln, mark |-> text[at]]>>

SuppressionOf(event) ==
    LET mark == Nolints[event.mark]
    IN  <<mark.category, IF mark.next THEN event.line + 1 ELSE event.line>>

\* (Mutant: suppressions that outlive their file.)
KeepNolintSuppressions == UNCHANGED suppressions
ResetNolintSuppressions == suppressions' = {}

\* Categories a mark somewhere in the file suppresses on all its lines.
ProcessGlobalSuppresions(lines) ==
    LET marks == UNION {Range(lines[i].text) : i \in DOMAIN lines}
    IN  globalSuppressions' =
            {c \in {<<"readability", "casting">>, <<"whitespace", "tab">>} :
                IF c[1] = "readability" THEN "LINT_C_FILE" \in marks
                                        ELSE "LINT_KERNEL_FILE" \in marks}

IsErrorSuppressedByNolint(category, ln) ==
    \/ category \in globalSuppressions
    \/ <<category, ln>> \in suppressions
    \/ <<AllCategories, ln>> \in suppressions

-----------------------------------------------------------------------------
(* Errors.                                                                 *)

ShouldPrintError(category, confidence, ln) ==
    /\ ~IsErrorSuppressedByNolint(category, ln)
    /\ confidence >= verboseLevel
    /\ ~IsFiltered(category)

\* The counter an error of a category is added to, none when only the total is kept.
CounterOf(category) ==
    CASE counting = "detailed" -> {category}
      [] counting = "toplevel" -> {<<category[1]>>}
      [] OTHER -> {}

\* (Mutant: the first error of a category makes the counter and is not counted.)
IncrementKnownCount(category) ==
    /\ errorCount' = errorCount + 1
    /\ errorsByCategory' =
            [c \in (DOMAIN errorsByCategory) \cup CounterOf(category) |->
                IF c \notin DOMAIN errorsByCategory THEN 0
                ELSE errorsByCategory[c] + (IF c \in CounterOf(category) THEN 1 ELSE 0)]

IncrementErrorCount(category) ==
    /\ errorCount' = errorCount + 1
    /\ errorsByCategory' =
            [c \in (DOMAIN errorsByCategory) \cup CounterOf(category) |->
                (IF c \in DOMAIN errorsByCategory THEN errorsByCategory[c] ELSE 0)
                + (IF c \in CounterOf(category) THEN 1 ELSE 0)]

\* Error: file is the position of the file among the arguments.
LogError(file, ln, category, confidence) ==
    IF ShouldPrintError(category, confidence, ln)
    THEN /\ IncrementErrorCount(category)
         /\ printed' = Append(printed, [file |-> file, line |-> ln, category |-> category,
                                        confidence |-> confidence])
    ELSE UNCHANGED <<errorCount, errorsByCategory, printed>>

\* (Mutant: a mark with an unknown category suppresses it all the same.)
ParseAnyNolint(file, event) ==
    /\ suppressions' = suppressions \cup {SuppressionOf(event)}
    /\ UNCHANGED <<errorCount, errorsByCategory, printed>>

\* ParseNolintSuppressions on a line with a mark.
ParseNolintSuppressions(file, event) ==
    LET category == Nolints[event.mark].category
    IN  IF category \in ErrorCategories \cup {AllCategories}
        THEN /\ suppressions' = suppressions \cup {SuppressionOf(event)}
             /\ UNCHANGED <<errorCount, errorsByCategory, printed>>
        ELSE /\ IF category \in LegacyCategories
                THEN UNCHANGED <<errorCount, errorsByCategory, printed>>
                ELSE LogError(file, event.line, UnknownNolint, 5)
             /\ UNCHANGED suppressions

\* What a check has left to do: report an error, or read a NOLINT mark.
Handle(file, event) ==
    /\ \/ /\ event.kind = "error"
          /\ LogError(file, event.line, event.category, event.confidence)
          /\ UNCHANGED suppressions
       \/ /\ event.kind = "nolint"
          /\ ParseNolintSuppressions(file, event)
    /\ UNCHANGED <<verboseLevel, filters, filtersBackup, counting, globalSuppressions>>
=============================================================================
