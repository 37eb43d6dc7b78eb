------------------------------- MODULE MCLint -------------------------------
(***************************************************************************)
(* Runs of cpplint.py on small files, in families: each stresses one part, *)
(* and all parts see every file.                                           *)
(***************************************************************************)
EXTENDS Lint

L(text) == Line(0, text)
In(text) == Line(2, text)

MCNolints ==
    "NOLINT" :> [next |-> FALSE, category |-> AllCategories]
    @@ "NOLINT(braces)" :> [next |-> FALSE, category |-> <<"readability", "braces">>]
    @@ "NOLINT(bogus)" :> [next |-> FALSE, category |-> <<"bogus">>]
    @@ "NOLINT(streams)" :> [next |-> FALSE, category |-> <<"readability", "streams">>]
    @@ "NOLINT(guard)" :> [next |-> FALSE, category |-> <<"build", "header_guard">>]
    @@ "NOLINTNEXTLINE" :> [next |-> TRUE, category |-> AllCategories]

Header(cpp, dotH, dir, base, rank) ==
    [cpp |-> cpp, dotH |-> dotH, dotCc |-> FALSE, thirdParty |-> FALSE,
     dir |-> dir, base |-> base, first |-> base, rank |-> rank]

MCHeaders ==
    "vector" :> Header(TRUE, FALSE, <<>>, "vector", 9)
    @@ "string" :> Header(TRUE, FALSE, <<>>, "string", 8)
    @@ "time.h" :> Header(FALSE, TRUE, <<>>, "time", 7)
    @@ "lib/table.h" :> Header(FALSE, TRUE, <<"lib">>, "table", 3)
    @@ "lib/chunk.h" :> Header(FALSE, TRUE, <<"lib">>, "chunk", 2)
    @@ "chunk.h" :> Header(FALSE, TRUE, <<>>, "chunk", 1)
    @@ "Lua.h" :> [Header(FALSE, TRUE, <<>>, "Lua", 4) EXCEPT !.thirdParty = TRUE]
    @@ "other/x.cc" :> [Header(FALSE, FALSE, <<"other">>, "x", 5) EXCEPT !.dotCc = TRUE]

Guard(name, doubled) == [name |-> name, doubled |-> doubled]

F(extension, lines) ==
    [dir |-> <<"lib">>, name |-> "table", base |-> "table", first |-> "table",
     extension |-> extension, test |-> FALSE, hasHeader |-> FALSE, readable |-> TRUE,
     guards |-> NoRoot :> Guard("LIB_TABLE_H_", "LIB_TABLE_H__")
                @@ "lib" :> Guard("TABLE_H_", "TABLE_H__"),
     lines |-> lines, crlf |-> {}]

Opt(name) == [name |-> name, number |-> 0, word |-> "", list |-> <<>>, names |-> {}]
Number(name, n) == [Opt(name) EXCEPT !.number = n]
Word(name, w) == [Opt(name) EXCEPT !.word = w]
Filters(list) == [Opt("filter") EXCEPT !.list = list]
Names(name, set) == [Opt(name) EXCEPT !.names = set]
Minus(category) == [sign |-> "-", category |-> category]
Plus(category) == [sign |-> "+", category |-> category]
Unsigned(category) == [sign |-> "", category |-> category]

\* The arguments of scripts/lint.sh that the lines below tell apart, and .h files.
LintSh ==
    <<Number("verbose", 0), Names("extensions", {"hpp", "cpp", "h"}),
      Word("counting", "detailed"),
      Filters(<<Minus(<<"legal", "copyright">>), Minus(<<"whitespace", "newline">>)>>),
      Number("linelength", 12)>>

Job(options, files, configs) == [options |-> options, files |-> files, configs |-> configs]
NoConfigs == [d \in {} |-> [readable |-> TRUE, entries |-> <<>>]]
OneFile(extension, lines) == Job(LintSh, <<F(extension, lines)>>, NoConfigs)

\* Every sequence of n of a set of lines, with a newline at the end.
Texts(lines, n) == {Append(s, Blank) : s \in [1 .. n -> lines]}
OneFileJobs(extension, texts) == {OneFile(extension, text) : text \in texts}
\* A family for every length up to n.
Families(extension, lines, n) ==
    {OneFileJobs(extension, Texts(lines, k)) : k \in 0 .. n}

-----------------------------------------------------------------------------
(* Conditionals, classes, namespaces.                                      *)

If == L(<<"#if">>)
Else == L(<<"#else">>)
EndIf_ == L(<<"#endif">>)
Conditionals == {If, Else, EndIf_}

ConditionalLines == Conditionals \cup {L(<<"class", "name", "{">>), L(<<"}", ";">>)}

ClassLines ==
    {L(<<"namespace", "name", "{">>), In(<<"class", "name", ";">>),
     In(<<"template", "<", "class", "name", ">", "class", "MACRO", "name", "{">>),
     Line(3, <<"public", ":">>), In(<<"DISALLOW", "(", "name", ")", ";">>),
     In(<<"}", ";">>), L(<<"}", "//", "namespace", "other">>)}

AsmLines ==
    {L(<<"name", "(", ")", "{">>), In(<<"asm", "(", "name">>), In(<<"name", ")", ";">>),
     In(<<"asm", "volatile", "{">>), In(<<"extern", Quote, Quote, "{">>), L(<<"}">>)}

\* Heads with and without their brace, in a block.
HeadJobs ==
    {OneFileJobs("cpp", {<<L(<<"{">>), L(t), L(<<"}">>), Blank>> :
                            t \in [1 .. k -> {"namespace", "class", "name", "{", "}", ";"}]}) :
        k \in 1 .. 4}

NestingJobs ==
    Families("cpp", ConditionalLines, 5) \cup Families("cpp", ClassLines, 4)
    \cup Families("cpp", AsmLines, 3)
    \cup HeadJobs

-----------------------------------------------------------------------------
(* Brackets, blocks, comments.                                             *)

BracketJobs ==
    {OneFileJobs("cpp", {<<L(t), L(<<")", ";">>), Blank>> :
                            t \in [1 .. k -> {"(", ")", "<", ">", "-", "{"}]}) : k \in 1 .. 4}
    \cup
    {OneFileJobs("cpp", {<<L(t \o <<")", ";">>), Blank>> :
                            t \in [1 .. k -> {"(", "<", ">", ";", "operator", "]"}]}) :
        k \in 1 .. 4}

BlockLines ==
    {In(<<"if", "(", "name">>), In(<<"if", "(", "name", ")", "{">>),
     In(<<")", ";", "//", "NOLINT">>), In(<<"name", ")", "{">>),
     In(<<"}", ";", "//", "NOLINT(braces)">>), In(<<"}", ";">>),
     L(<<"//", "NOLINTNEXTLINE">>), In(<<"else", "{">>)}

CommentLines ==
    {L(<<"/*", "NOLINT">>), L(<<"name", "*/">>), L(<<"name", "/*", "name", "*/">>),
     L(<<Quote, "//", Quote, "//", "name">>), L(<<"R", Quote, "name", "(">>),
     L(<<")", "name", Quote, ";">>), L(<<Quote, "TAB">>)}

\* Every line of up to four comment marks and quotes.
MarkJobs ==
    {OneFileJobs("cpp", {<<L(t), Blank>> : t \in [1 .. k -> {Quote, "//", "/*", "*/"}]}) :
        k \in 1 .. 4}

LookAheadJobs ==
    Families("cpp", BlockLines, 4) \cup Families("cpp", CommentLines, 4)
    \cup MarkJobs

-----------------------------------------------------------------------------
(* Includes, header guards, functions.                                     *)

Include(name) == L(<<"#include", Quote, name, Quote>>)
SystemInclude(name) == L(<<"#include", "<", name, ">">>)

IncludeLines ==
    {Include("lib/table.h"), Include("lib/chunk.h"), Include("chunk.h"),
     SystemInclude("vector"), SystemInclude("time.h")}
OtherIncludes == {Include("Lua.h"), Include("other/x.cc"), SystemInclude("string"), Blank}

WithHeader(j) == [j EXCEPT !.files[1].hasHeader = TRUE]
IncludeJobs ==
    Families("hpp", IncludeLines \cup Conditionals, 4)
    \cup {{WithHeader(j) : j \in jobs} :
            jobs \in Families("cpp", IncludeLines \cup OtherIncludes, 3)}

Guarded(ifndef, define, body, endif) ==
    <<L(<<"#ifndef", ifndef>>), L(<<"#define", define>>), body, L(endif), Blank>>
GuardJobs ==
    {{Job(LintSh \o options, <<F("h", text)>>, NoConfigs) :
        options \in {<<>>, <<Word("root", "lib")>>},
        text \in {<<L(<<"//", "NOLINT(guard)">>), Blank>>,
                  <<L(<<"#ifndef", "name", "R", Quote, "(", "NOLINT", ")", Quote>>),
                    L(<<"#define", "name">>), Blank>>} \cup
            {Guarded(ifndef, define, body, <<"#endif">> \o end) :
                ifndef \in {"LIB_TABLE_H_", "TABLE_H__"},
                define \in {"LIB_TABLE_H_", "TABLE_H__"},
                body \in {Blank, L(<<"//", "name">>), L(<<"//", "NOLINTNEXTLINE">>)},
                end \in {<<>>, <<"//", "LIB_TABLE_H_">>, <<"/*", "TABLE_H__", "*/">>,
                         <<"//", "LIB_TABLE_H__", "NOLINT">>}}}}

Body(n) == [i \in 1 .. n |-> In(<<"name", ";">>)]
FunctionJobs ==
    {{Job(<<Number("verbose", verbosity)>>,
         <<F("cc", <<L(<<name, "(", ")", "{">>)>> \o Body(n) \o <<end, L(<<"name", "(">>)>>)>>,
         NoConfigs) :
        verbosity \in 0 .. 2, name \in {"name", "TEST", "MACRO"}, n \in 0 .. 13,
        end \in {L(<<"}">>), L(<<"}", "//", "NOLINT">>)}}}

-----------------------------------------------------------------------------
(* Arguments, configuration files, several files.                          *)

Entry(name, number, list, names) ==
    [name |-> name, number |-> number, word |-> "lib", list |-> list, names |-> names]
Config(entries) == [readable |-> TRUE, entries |-> entries]

Entries ==
    {Entry("filter", 0, <<Minus(<<"whitespace">>)>>, {}),
     Entry("filter", 0, <<Plus(<<"whitespace", "indent">>)>>, {}),
     Entry("linelength", 3, <<>>, {}), Entry("root", 0, <<>>, {}),
     Entry("exclude_files", 0, <<>>, {"table"}), Entry("exclude_files", 0, <<>>, {"lib"}),
     Entry("noparent", 0, <<>>, {}), Entry("unknown", NotANumber, <<>>, {}),
     Entry("linelength", NotANumber, <<>>, {}),
     Entry("filter", 0, <<Unsigned(<<"whitespace">>)>>, {})}

Long == <<Line(1, <<"name", "name", "name", ";">>), Blank>>
LongFile == F("cpp", Long)
OuterFile == [LongFile EXCEPT !.dir = <<>>, !.name = "chunk"]

ConfigJobs ==
    {{Job(LintSh, <<LongFile, OuterFile>>,
          <<"lib">> :> Config(inner) @@ <<>> :> Config(<<outer>>)) :
        inner \in [1 .. k -> Entries], outer \in Entries} : k \in 0 .. 2}
    \cup {{Job(LintSh, <<LongFile, OuterFile>>,
              <<"lib">> :> [Config(<<>>) EXCEPT !.readable = FALSE] @@ <<>> :> Config(<<outer>>)) :
            outer \in Entries}}

Options ==
    {Opt("help"), Opt("unknown"), Number("verbose", NotANumber), Number("verbose", 3),
     Filters(<<>>), Filters(<<Unsigned(<<"build">>)>>),
     Filters(<<Minus(<<>>), Plus(<<"whitespace", "indent">>)>>),
     Word("counting", "toplevel"), Word("counting", "total"), Word("counting", "other"),
     Word("output", "vs7"), Word("output", "other"),
     Number("linelength", NotANumber), Number("linelength", 3), Names("extensions", {"hpp"})}

ArgumentJobs ==
    {{Job(options, files, NoConfigs) :
        options \in [1 .. k -> Options],
        files \in {<<>>, <<LongFile>>, <<[LongFile EXCEPT !.readable = FALSE], LongFile>>}} :
        k \in 0 .. 2}

\* What one file could leave behind for the next.
LeavingLines ==
    {L(<<"#if">>), L(<<"namespace", "name", "{">>), L(<<"name", "(", ")", "{">>),
     Include("lib/chunk.h"), L(<<"//", "LINT_KERNEL_FILE", "NOLINT(bogus)">>),
     L(<<"TAB", "//", "NOLINT">>), L(<<"//", "NOLINT(streams)">>),
     L(<<"//", "Copyright", "LINT_C_FILE">>), SystemInclude("vector"), L(<<"}">>)}

WithCrlf(f) == [f EXCEPT !.crlf = {1}]
SeveralJobs ==
    {{Job(<<Word("counting", "toplevel")>>,
          <<F("cc", text), WithCrlf(F("cc", other)), F("cc", text)>>, NoConfigs) :
        text \in [1 .. k -> LeavingLines], other \in {<<line, Blank>> : line \in LeavingLines}} :
        k \in 0 .. 2}

MCJobs ==
    NestingJobs \cup BracketJobs \cup LookAheadJobs \cup IncludeJobs \cup GuardJobs
    \cup FunctionJobs \cup ConfigJobs \cup ArgumentJobs \cup SeveralJobs
=============================================================================
