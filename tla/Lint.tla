-------------------------------- MODULE Lint --------------------------------
(***************************************************************************)
(* A run of cpplint.py, which scripts/lint.sh starts on the files of this  *)
(* repository: the arguments, the configuration files on the way up from a *)
(* file, the lines of the file one after the other, the errors reported.   *)
(* The run is chosen at the start; after that the program has no choice.   *)
(***************************************************************************)
EXTENDS LintChecks, LintIncludes, LintFunctions

CONSTANT Jobs \* the runs, [options, files, configs], in a set of families of them

\* A number option holds a natural number or, where what it was given is none,
\* NotANumber; the arguments, the files and their lines come in an order.
NotANumber == -1
OptionNames == {"help", "output", "verbose", "filter", "counting", "root", "linelength",
                "extensions", "unknown"}
IsOption(opt) ==
    /\ opt.name \in OptionNames /\ opt.number \in Nat \cup {NotANumber}
    /\ IsSequence(opt.list)
ASSUME JobsAssumption ==
    \A family \in Jobs : \A j \in family :
        /\ IsSequence(j.options) /\ IsSequence(j.files)
        /\ \A i \in DOMAIN j.options : IsOption(j.options[i])
        /\ \A i \in DOMAIN j.files : AreLines(j.files[i].lines) /\ IsSequence(j.files[i].dir)
        /\ \A d \in DOMAIN j.configs : IsSequence(j.configs[d].entries)

VARIABLES
    job,        \* the arguments and the files, which no step changes
    phase,      \* where main and ProcessFile stand
    exitCode,   \* what the process ends with, Running before
    root,       \* _root
    lineLength, \* _line_length
    extensions, \* _valid_extensions
    file,       \* the position of the file at hand among the arguments
    position,   \* the line ProcessFileData handles next
    clean,      \* the CleansedLines of the file
    nesting,    \* its NestingState
    includes,   \* its _IncludeState
    function,   \* its _FunctionState
    pending     \* what the checks of the last line have left to do

fileVars == <<clean, nesting, includes, function>>
globalVars == <<root, lineLength, extensions>>
vars == <<reportVars, globalVars, fileVars, job, phase, exitCode, file, position, pending>>

Running == -1
NoRoot == ""

NoLines == CleansedLines(<<>>)
File == job.files[file]
Cppvar == File.guards[root]

Init ==
    /\ InitReport
    /\ \E family \in Jobs : job \in family
    /\ phase = "arguments" /\ exitCode = Running
    /\ root = NoRoot /\ lineLength = 80 /\ extensions = {"cc", "h", "cpp", "cu", "cuh"}
    /\ file = 1 /\ position = 1
    /\ clean = NoLines /\ nesting = InitialNesting
    /\ includes = InitialIncludes /\ function = InitialFunction
    /\ pending = <<>>

-----------------------------------------------------------------------------
(* main and ParseArguments.                                                *)

DefaultArguments ==
    [outcome |-> "go", verbosity |-> 1, filters |-> <<>>, counting |-> "",
     root |-> NoRoot, lineLength |-> 80, extensions |-> {"cc", "h", "cpp", "cu", "cuh"}]

\* One option: the first that is wrong ends the program.
ParseOption(a, opt) ==
    IF a.outcome # "go" THEN a ELSE
    CASE opt.name = "help" -> [a EXCEPT !.outcome = "usage"]
      [] opt.name = "output" ->
            IF opt.word \in {"emacs", "vs7", "eclipse"} THEN a ELSE [a EXCEPT !.outcome = "usage"]
      [] opt.name = "verbose" ->
            IF opt.number = NotANumber THEN [a EXCEPT !.outcome = "crash"]
                                       ELSE [a EXCEPT !.verbosity = opt.number]
      [] opt.name = "filter" ->
            IF opt.list = <<>> THEN [a EXCEPT !.outcome = "categories"]
                               ELSE [a EXCEPT !.filters = opt.list]
      [] opt.name = "counting" ->
            IF opt.word \in {"total", "toplevel", "detailed"}
            THEN [a EXCEPT !.counting = opt.word] ELSE [a EXCEPT !.outcome = "usage"]
      [] opt.name = "root" -> [a EXCEPT !.root = opt.word]
      [] opt.name = "linelength" ->
            IF opt.number = NotANumber THEN [a EXCEPT !.outcome = "usage"]
                                       ELSE [a EXCEPT !.lineLength = opt.number]
      [] opt.name = "extensions" -> [a EXCEPT !.extensions = opt.names]

\* getopt refuses an unknown option before any other is looked at; SetFilters, at
\* the end, dies of a filter without a sign.
Arguments(j) ==
    LET known == \A i \in DOMAIN j.options : j.options[i].name # "unknown"
        a == IF known THEN FoldLeft(ParseOption, DefaultArguments, j.options)
             ELSE [DefaultArguments EXCEPT !.outcome = "usage"]
    IN  CASE a.outcome = "go" /\ j.files = <<>> -> [a EXCEPT !.outcome = "usage"]
          [] a.outcome = "go" /\ j.files # <<>> /\ ~ValidFilters(a.filters) ->
                [a EXCEPT !.outcome = "crash"]
          [] OTHER -> a

ArgumentFilters(j) == DefaultFilters \o Arguments(j).filters

ParseArguments ==
    LET a == Arguments(job)
    IN  /\ phase = "arguments"
        /\ IF a.outcome = "go"
           THEN /\ phase' = "start"
                /\ verboseLevel' = a.verbosity
                /\ filters' = ArgumentFilters(job)
                /\ counting' = a.counting
                /\ root' = a.root /\ lineLength' = a.lineLength
                /\ extensions' = a.extensions
                /\ UNCHANGED exitCode
           ELSE /\ phase' = "done"
                /\ exitCode' = IF a.outcome = "categories" THEN 0 ELSE 1
                /\ UNCHANGED <<verboseLevel, filters, counting, globalVars>>
        /\ UNCHANGED <<fileVars, job, file, position, pending, filtersBackup, errorCount,
                       errorsByCategory, suppressions, globalSuppressions, printed>>

Exit ==
    /\ phase = "start" /\ file > Len(job.files)
    /\ phase' = "done"
    /\ exitCode' = IF errorCount > 0 THEN 1 ELSE 0
    /\ UNCHANGED <<reportVars, globalVars, fileVars, job, file, position, pending>>

-----------------------------------------------------------------------------
(* ProcessConfigOverrides: the directories of a file from the inner one    *)
(* outwards, with the name of what is looked for in each.                  *)

ConfigDirectories(f) ==
    [k \in 1 .. Len(f.dir) + 1 |->
        [dir |-> Upto(f.dir, Len(f.dir) + 1 - k),
         name |-> IF k = 1 THEN f.name ELSE f.dir[Len(f.dir) + 2 - k]]]

ReadEntry(s, entry, name) ==
    IF s.excluded THEN s ELSE
    CASE entry.name = "noparent" -> [s EXCEPT !.looking = FALSE]
      [] entry.name = "filter" -> [s EXCEPT !.filters = Append(@, entry.list)]
      [] entry.name = "exclude_files" -> [s EXCEPT !.excluded = name \in entry.names]
      [] entry.name = "linelength" ->
            IF entry.number = NotANumber THEN s ELSE [s EXCEPT !.lineLength = entry.number]
      [] entry.name = "root" -> [s EXCEPT !.root = entry.word]
      [] OTHER -> s

\* A file that cannot be opened ends the search, as "set noparent" does.
ReadConfig(s, configs, d) ==
    CASE ~s.looking \/ s.excluded \/ d.dir \notin DOMAIN configs -> s
      [] s.looking /\ ~s.excluded /\ d.dir \in DOMAIN configs /\ ~configs[d.dir].readable ->
            [s EXCEPT !.looking = FALSE]
      [] OTHER -> FoldLeft(LAMBDA t, entry : ReadEntry(t, entry, d.name), s,
                           configs[d.dir].entries)

ConfigOverrides ==
    FoldLeft(LAMBDA s, d : ReadConfig(s, job.configs, d),
             [looking |-> TRUE, excluded |-> FALSE, filters |-> <<>>,
              lineLength |-> lineLength, root |-> root],
             ConfigDirectories(File))

\* The filters of the outer directories come first; in one file the last comes first.
AddedFilters(config) == FlattenSeq(Reverse(config.filters))

\* ProcessFile up to the configuration.  The length and the root stay what the
\* files read so far have made them; only the filters are backed up.
StartFile ==
    LET config == ConfigOverrides
        added == filters \o AddedFilters(config)
    IN  /\ phase = "start" /\ file <= Len(job.files)
        /\ BackupFilters
        /\ lineLength' = config.lineLength /\ root' = config.root
        /\ \/ /\ config.excluded
              /\ phase' = "restore"
              /\ UNCHANGED <<filters, exitCode>>
           \/ /\ ~config.excluded /\ ValidFilters(added)
              /\ filters' = added
              /\ phase' = "read"
              /\ UNCHANGED exitCode
           \/ /\ ~config.excluded /\ ~ValidFilters(added) \* ValueError, not caught
              /\ filters' = added
              /\ phase' = "done" /\ exitCode' = 1
        /\ UNCHANGED <<fileVars, job, file, position, pending, extensions, verboseLevel,
                       counting, errorCount, errorsByCategory, suppressions,
                       globalSuppressions, printed>>

-----------------------------------------------------------------------------
(* ProcessFile and ProcessFileData.                                        *)

SkipFile ==
    /\ phase = "read"
    /\ ~File.readable \/ File.extension \notin extensions
    /\ phase' = "restore"
    /\ UNCHANGED <<reportVars, globalVars, fileVars, job, exitCode, file, position, pending>>

\* The lines of the file between two markers, multi-line comments replaced.
MarkedLines(f) == <<Marker>> \o f.lines \o <<Marker>>

UnclosedEvents(removed) ==
    [i \in DOMAIN removed.unclosed |->
        Err(removed.unclosed[i] + 1, <<"readability", "multiline_comment">>, 5)]

OpenFile ==
    LET lines == MarkedLines(File)
        removed == RemoveMultiLineComments(lines)
    IN  /\ phase = "read"
        /\ File.readable /\ File.extension \in extensions
        /\ phase' = "lines"
        /\ position' = 1
        /\ ResetNolintSuppressions /\ ProcessGlobalSuppresions(lines)
        /\ clean' = CleansedLines(removed.lines)
        /\ nesting' = InitialNesting
        /\ includes' = InitialIncludes
        /\ function' = InitialFunction
        /\ pending' = CheckForCopyright(lines) \o UnclosedEvents(removed)
                      \o IF File.extension = "h" THEN CheckForHeaderGuard(clean', Cppvar)
                                                 ELSE <<>>
        /\ UNCHANGED <<globalVars, job, exitCode, file, verboseLevel, filters, filtersBackup,
                       counting, errorCount, errorsByCategory, printed>>

\* One error is reported, one NOLINT mark read.
Report ==
    /\ pending # <<>>
    /\ Handle(file, Head(pending))
    /\ pending' = Tail(pending)
    /\ UNCHANGED <<globalVars, fileVars, job, phase, exitCode, file, position>>

\* What ProcessLine does to line ln with the results of its checks; in an assembly
\* block only the nesting is followed.
FinishLine(ln, updated, measured, included) ==
    LET inAsm == InAsmBlock(updated.nesting)
    IN  /\ nesting' = updated.nesting
        /\ function' = IF inAsm THEN function ELSE measured.function
        /\ includes' = IF inAsm THEN includes ELSE included.includes
        /\ pending' =
                NolintEvents(clean.raw_lines, ln) \o updated.errors
                \o CheckForNamespaceIndentation(nesting', clean, ln)
                \o IF inAsm THEN <<>>
                   ELSE measured.errors
                        \o CheckForMultilineCommentsAndStrings(clean, ln)
                        \o CheckStyle(nesting', clean, ln, File, Cppvar, lineLength)
                        \o included.errors

ProcessLine ==
    /\ phase = "lines" /\ pending = <<>> /\ position <= Len(clean.raw_lines)
    /\ position' = position + 1
    /\ FinishLine(position, Update(nesting, clean, position),
                  CheckForFunctionLengths(function, clean, position, verboseLevel),
                  CheckLanguageIncludes(includes, clean, position, File))
    /\ UNCHANGED <<reportVars, globalVars, clean, job, phase, exitCode, file>>

\* Lines that end in CR LF are errors when others do not.
LineEndEvents(f) ==
    IF f.crlf = {} \/ f.crlf = 1 .. Len(f.lines) - 1 THEN <<>>
    ELSE FlattenSeq([i \in DOMAIN f.lines |->
                        When(i \in f.crlf, Err(i + 1, <<"whitespace", "newline">>, 1))])

\* What is checked after the last line.
FinishLines ==
    /\ phase = "lines" /\ pending = <<>> /\ position > Len(clean.raw_lines)
    /\ phase' = "restore"
    /\ pending' = CheckCompletedBlocks(nesting)
                  \o (IF File.extension \in {"c", "cc", "cpp", "cxx"}
                      THEN CheckHeaderFileIncluded(includes, File) ELSE <<>>)
                  \o CheckForNewlineAtEOF(clean.raw_lines)
                  \o LineEndEvents(File)
    /\ UNCHANGED <<reportVars, globalVars, fileVars, job, exitCode, file, position>>

\* (Mutant: the file is not counted as done.)
EndFileAgain ==
    /\ phase = "restore" /\ pending = <<>>
    /\ RestoreFilters
    /\ phase' = "start"
    /\ UNCHANGED <<globalVars, fileVars, job, exitCode, file, position, pending, verboseLevel,
                   filtersBackup, counting, errorCount, errorsByCategory, suppressions,
                   globalSuppressions, printed>>

\* Every way out of ProcessFile ends here.
EndFile ==
    /\ phase = "restore" /\ pending = <<>>
    /\ RestoreFilters
    /\ phase' = "start"
    /\ file' = file + 1
    /\ UNCHANGED <<globalVars, fileVars, job, exitCode, position, pending, verboseLevel,
                   filtersBackup, counting, errorCount, errorsByCategory, suppressions,
                   globalSuppressions, printed>>

\* The process has ended: every other state without a step would be a deadlock.
Ended == phase = "done" /\ UNCHANGED vars

Next ==
    \/ ParseArguments \/ Exit \/ StartFile \/ SkipFile \/ OpenFile
    \/ Report \/ ProcessLine \/ FinishLines \/ EndFile \/ Ended

Spec == Init /\ [][Next]_vars
-----------------------------------------------------------------------------
(* Properties.                                                             *)

\* The four copies of a file have its lines, each one a sequence.
IsClean(c) ==
    /\ {"raw_lines", "lines_without_raw_strings", "lines", "elided"} \subseteq DOMAIN c
    /\ AreLines(c.raw_lines) /\ AreLines(c.lines_without_raw_strings)
    /\ AreLines(c.lines) /\ AreLines(c.elided)
    /\ Len(c.lines_without_raw_strings) = Len(c.raw_lines)
    /\ Len(c.lines) = Len(c.raw_lines) /\ Len(c.elided) = Len(c.raw_lines)

\* The words of the lines that the blocks are read from.
Words(c) == UNION {Range(c.elided[i].text) : i \in DOMAIN c.elided}

\* A block knows the line it starts at, and is one of assembly only where the lines,
\* whose words are given, have some.
IsBlock(b, words) ==
    /\ {"start", "inline_asm"} \subseteq DOMAIN b
    /\ b.start \in Nat
    /\ "asm" \notin words => b.inline_asm = "NO_ASM"
IsStack(s, words) == IsSequence(s) /\ \A i \in DOMAIN s : IsBlock(s[i], words)
IsPreprocessor(pp, words) ==
    /\ {"stack_before_if", "stack_before_else", "seen_else"} \subseteq DOMAIN pp
    /\ IsStack(pp.stack_before_if, words) /\ IsStack(pp.stack_before_else, words)
IsNesting(n, words) ==
    /\ {"stack", "pp_stack", "previous_stack_top"} \subseteq DOMAIN n
    /\ IsStack(n.stack, words)
    /\ IsSequence(n.pp_stack) /\ \A i \in DOMAIN n.pp_stack : IsPreprocessor(n.pp_stack[i], words)

\* What is counted of the function at hand.
IsFunction(f) == "lines" \in DOMAIN f /\ f.lines \in Nat

\* An event of a check on the lines c that is a NOLINT mark of one of them.
IsMark(e, c) ==
    /\ e.kind = "nolint"
    /\ \/ NolintEvents(c.raw_lines, e.line) = <<e>>
       \/ NolintEvents(c.lines_without_raw_strings, e.line) = <<e>>

\* The types of a run: its counters and filters, the four copies of the lines, the blocks
\* and the function read so far, and the events, each one a mark of the file or an error
\* of a known category, as are the errors printed.
TypeOK ==
    /\ phase \in {"arguments", "start", "read", "lines", "restore", "done"}
    /\ exitCode \in {Running, 0, 1}
    /\ verboseLevel \in Nat /\ errorCount \in Nat
    /\ counting \in {"", "total", "toplevel", "detailed"}
    /\ ValidFilters(filtersBackup)
    /\ phase # "done" => ValidFilters(filters)
    /\ file \in 1 .. Len(job.files) + 1
    /\ IsClean(clean) /\ IsNesting(nesting, Words(clean)) /\ IsFunction(function)
    /\ position \in 1 .. Len(clean.raw_lines) + 1
    /\ \A s \in suppressions : s[1] \in ErrorCategories \cup {AllCategories} /\ s[2] \in Nat
    /\ IsSequence(pending)
    /\ \A i \in DOMAIN pending :
            \/ IsMark(pending[i], clean)
            \/ pending[i].kind = "error" /\ pending[i].category \in ErrorCategories
    /\ \A i \in DOMAIN printed :
            printed[i].category \in ErrorCategories /\ printed[i].file \in 1 .. file

\* No filter of a CPPLINT.cfg outlives the file it was read for, however
\* ProcessFile is left: every file starts with the filters of the command line.
FiltersAreRestored == phase = "start" => filters = ArgumentFilters(job)

\* The total is the number of messages, and each counter the number of those whose
\* category it stands for, under every way of counting.
CountsAddUp ==
    /\ errorCount = Len(printed)
    /\ DOMAIN errorsByCategory = UNION {CounterOf(printed[i].category) : i \in DOMAIN printed}
    /\ \A c \in DOMAIN errorsByCategory :
            errorsByCategory[c] =
                Cardinality({i \in DOMAIN printed : c \in CounterOf(printed[i].category)})

\* The lines whose mark speaks of an error at line ln.
MarksFor(ln, category) ==
    {i \in {ln - 1, ln} \cap DOMAIN clean.raw_lines :
        LET events == NolintEvents(clean.raw_lines, i)
        IN  events # <<>> /\ SuppressionOf(events[1]) \in {<<category, ln>>, <<AllCategories, ln>>}}

FoundEarly ==
    {<<"whitespace", "empty_conditional_body">>, <<"whitespace", "empty_loop_body">>,
     <<"whitespace", "empty_if_body">>, <<"readability", "multiline_comment">>}
FoundBeforeTheLines == {<<"build", "header_guard">>, UnknownNolint}

\* The header guard is checked on the lines without their raw strings: a mark in a
\* raw string is only read when its line is.
MarkInRawString(ln) ==
    NolintEvents(clean.raw_lines, ln) # NolintEvents(clean.lines_without_raw_strings, ln)

\* No error is reported on a line a NOLINT silences, but those found before the
\* mark is read: empty bodies whose condition ends further down, comments that do
\* not end, and a header guard when the mark stands on the line before it or in a
\* raw string.
NolintSilencesItsLine ==
    \A i \in DOMAIN printed :
        LET p == printed[i]
            marks == MarksFor(p.line, p.category)
        IN  (p.file = file /\ marks # {}) =>
                \/ p.category \in FoundEarly
                \/ /\ p.category \in FoundBeforeTheLines
                   /\ p.line \notin marks \/ MarkInRawString(p.line)

\* The #if blocks open after a line, TRUE in their #else and #elif parts.
Branch(open, text) ==
    LET directive == Directive(text)
    IN  CASE directive \in {"#if", "#ifndef"} -> Append(open, FALSE)
          [] directive \in {"#else", "#elif"} /\ open # <<>> -> Append(Front(open), TRUE)
          [] directive = "#endif" /\ open # <<>> -> Front(open)
          [] OTHER -> open

\* The depth of the braces after the lines before ln, those of #else parts left out.
Depth(d, text) ==
    ForEach(LAMBDA e, t : CASE t = "{" -> e + 1
                            [] t = "}" /\ e > 0 -> e - 1
                            [] OTHER -> e, d, text)
DepthStep(s, line) ==
    LET open == Branch(s.open, line.text)
    IN  [open |-> open,
         depth |-> IF TRUE \in Range(open) THEN s.depth ELSE Depth(s.depth, line.text)]
DepthBefore(ln) ==
    ForEach(DepthStep, [open |-> <<>>, depth |-> 0], Upto(clean.elided, ln - 1))

BetweenLines == phase = "lines" /\ pending = <<>>

\* The words a block's head starts with; those in a template's list start none.
IsHead(text, k) ==
    text[k] \in {"namespace", "class", "struct"} /\ At(text, k - 1) \notin {"<", ","}

\* Every head has its brace, or the semicolon of a declaration, on its own line.
HeadsEndOnTheirLines ==
    \A i \in DOMAIN clean.elided :
        LET text == clean.elided[i].text
        IN  \A k \in DOMAIN text : IsHead(text, k) =>
                LET ends == {l \in k + 1 .. Len(text) :
                                text[l] \in {"{", ";", "}"} \/ IsHead(text, l)}
                IN  /\ ends # {}
                    /\ \/ text[Min(ends)] = "{"
                       \/ text[Min(ends)] = ";" /\ ~Has("{", From(text, k))

\* Outside of #else parts the stack has one block for every brace that is open,
\* whatever the parts that were skipped have opened or closed.  A head that waits for
\* its brace is taken off the stack by a } instead of the block around it.
StackFollowsBraces ==
    (BetweenLines /\ HeadsEndOnTheirLines) =>
        LET before == DepthBefore(position)
            seen == {i \in DOMAIN nesting.stack : nesting.stack[i].seen_open_brace}
        IN  TRUE \notin Range(before.open) => Cardinality(seen) = before.depth

IsIncludeLine(ln) == IsInclude(clean.elided[ln].text) /\ IsInclude(clean.lines[ln].text)
HeaderAt(ln) == clean.lines[ln].text[3]
IsSystem(ln) == clean.lines[ln].text[2] = "<"
IsFreshInclude(ln) ==
    /\ IsIncludeLine(ln) /\ ~Headers[HeaderAt(ln)].thirdParty
    /\ ~(Headers[HeaderAt(ln)].dotCc /\ Headers[HeaderAt(ln)].dir # File.dir)
HasAsm == \E i \in DOMAIN clean.elided : Has("asm", clean.elided[i].text)
HasStrayElse ==
    \E i \in DOMAIN clean.elided :
        /\ Directive(clean.elided[i].text) \in {"#else", "#elif"}
        /\ DepthBefore(i).open = <<>>

\* A header included outside of every #if is known to the end of the file, so that
\* a second #include of it is found: #else forgets only what its #if has seen.
UnconditionalIncludesAreKnown ==
    (BetweenLines /\ ~HasAsm /\ ~HasStrayElse) =>
        \A i \in 1 .. position - 1 :
            (IsFreshInclude(i) /\ DepthBefore(i).open = <<>>) =>
                FindHeader(includes, HeaderAt(i))

\* A header of another package stands before line ln in the same section: no
\* conditional directive stands between.
FollowsOtherHeader(ln) ==
    \E j \in 1 .. ln - 1 :
        /\ IsFreshInclude(j)
        /\ ClassifyInclude(File, HeaderAt(j), IsSystem(j)) = "OTHER_HEADER"
        /\ \A i \in 1 .. j - 1 : IsIncludeLine(i) => HeaderAt(i) # HeaderAt(j)
        /\ \A i \in j .. ln :
                Directive(clean.elided[i].text) \notin Directives \ {"#include", "#define"}

\* Every system header that comes after such a header is found, not only the first.
LateIncludesAreFound ==
    [][(BetweenLines /\ position' = position + 1 /\ ~HasAsm
        /\ IsFreshInclude(position) /\ IsSystem(position)
        /\ ~FindHeader(includes, HeaderAt(position))
        /\ FollowsOtherHeader(position))
       => OrderError(position) \in Range(pending')]_vars

\* Looking back from the bracket that closes an expression finds the one it was
\* looked for from, whatever shifts and comparisons stand between.
BracketsAgree ==
    (phase = "lines" /\ position = 1) =>
        \A ln \in DOMAIN clean.elided : \A pos \in DOMAIN clean.elided[ln].text :
            LET end == CloseExpression(clean.elided, ln, pos)
            IN  (clean.elided[ln].text[pos] \in Opening /\ end # Nowhere) =>
                    ReverseCloseExpression(clean.elided, end.line, end.pos - 1) = Place(ln, pos)

\* A function over the limit of the verbosity is never held back by it: the
\* confidence and the limit are computed apart.
LongFunctionsAreReported ==
    verboseLevel <= 5 =>
        \A i \in DOMAIN pending :
            (pending[i].kind = "error" /\ pending[i].category = <<"readability", "fn_size">>)
                => pending[i].confidence >= verboseLevel

\* The checks that read elided lines see no comment: after a line whose quotes are
\* paired is elided, neither // nor a /* */ is left, inside strings or out of them.
\* A quote in a comment counts: it hides the // that follows the comment.
ElidedHasNoComments ==
    (phase = "lines" /\ position = 1) =>
        /\ Len(clean.elided) = Len(clean.raw_lines)
        /\ \A i \in DOMAIN clean.elided :
            LET text == clean.elided[i].text
            IN  (/\ ~IsCppString(clean.lines_without_raw_strings[i].text)
                 /\ At(text, 1) # "#include") =>
                    /\ ~Has("//", text)
                    /\ \A k, l \in DOMAIN text : k < l => ~(text[k] = "/*" /\ text[l] = "*/")

ErrorsOf(f) == FoldLeft(LAMBDA s, p : IF p.file = f THEN Append(s, p) ELSE s, <<>>, printed)
SetsGlobals ==
    \E d \in DOMAIN job.configs : \E i \in DOMAIN job.configs[d].entries :
        job.configs[d].entries[i].name \in {"linelength", "root"}

\* A file linted twice in one run has the same errors both times: nothing of a file
\* is left when the next one starts, but the length and the root a configuration
\* file sets.
SameFileSameErrors ==
    (phase = "done" /\ file > Len(job.files) /\ ~SetsGlobals) =>
        \A i, j \in DOMAIN job.files :
            job.files[i] = job.files[j] =>
                /\ Len(ErrorsOf(i)) = Len(ErrorsOf(j))
                /\ \A k \in DOMAIN ErrorsOf(i) :
                        ErrorsOf(i)[k] = [ErrorsOf(j)[k] EXCEPT !.file = i]

\* The steps of a run come to an end: each one takes the next file, or a later
\* phase of a file, or the next line, or one event less.
Phases == <<"arguments", "start", "read", "lines", "restore", "done">>
Rank(p) == CHOOSE i \in DOMAIN Phases : Phases[i] = p
StepsAreBounded ==
    [][\/ file' = file + 1 /\ file <= Len(job.files)
       \/ file' = file /\ Rank(phase') > Rank(phase)
       \/ file' = file /\ phase' = phase /\ position' = position + 1
       \/ /\ file' = file /\ phase' = phase /\ position' = position
          /\ Len(pending') < Len(pending)]_vars
=============================================================================
