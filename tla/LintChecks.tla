----------------------------- MODULE LintChecks -----------------------------
(***************************************************************************)
(* The checks of cpplint.py that look at several lines, at the nesting, or *)
(* at NOLINT marks of other lines.  A check is a sequence of events: the   *)
(* errors it reports and the NOLINT marks it reads, in their order.        *)
(***************************************************************************)
EXTENDS LintReport

CONSTANT CopyrightLines \* a copyright must stand in that many lines at the top

\* An event that only happens on a condition.
When(condition, event) == IF condition THEN <<event>> ELSE <<>>

CheckForCopyright(lines) ==
    When(\A i \in 2 .. Min({Len(lines), CopyrightLines + 1}) :
            ~Has("Copyright", lines[i].text),
         Err(1, <<"legal", "copyright">>, 5))

\* The file must end in a newline: what follows the last one is empty.
CheckForNewlineAtEOF(lines) ==
    When(Len(lines) < 3 \/ lines[Len(lines) - 1] # Blank,
         Err(Len(lines) - 1, <<"whitespace", "ending_newline">>, 5))

-----------------------------------------------------------------------------
(* The header guard.  cppvar is the guard the path of the file asks for,   *)
(* with the form that has two underscores at its end.                      *)

GuardError(ln, confidence) == Err(ln, <<"build", "header_guard">>, confidence)

\* The first argument of a directive in the file, and its line; "" and 1 if none.
FirstArgument(lines, directive) ==
    LET at == {i \in DOMAIN lines :
                At(lines[i].text, 1) = directive /\ Len(lines[i].text) >= 2}
    IN  IF at = {} THEN [name |-> "", line |-> 1]
        ELSE [name |-> lines[Min(at)].text[2], line |-> Min(at)]

\* Did the #endif name its guard after the comment mark?
EndifEvents(endif, ln, cppvar, mark) ==
    LET closed == At(endif, 2) = mark /\ (mark = "/*" => At(endif, 4) = "*/")
    IN  CASE closed /\ At(endif, 3) = cppvar.name -> <<>>
          [] closed /\ At(endif, 3) = cppvar.doubled -> <<GuardError(ln, 0)>>
          [] OTHER -> <<GuardError(ln, 5)>>

CheckForHeaderGuard(clean, cppvar) ==
    LET raw == clean.lines_without_raw_strings
        silenced == \E i \in DOMAIN raw : \E k \in DOMAIN raw[i].text :
            /\ raw[i].text[k] = "//"
            /\ At(raw[i].text, k + 1) \in DOMAIN Nolints
            /\ Nolints[raw[i].text[k + 1]] =
                    [next |-> FALSE, category |-> <<"build", "header_guard">>]
        ifndef == FirstArgument(raw, "#ifndef")
        define == FirstArgument(raw, "#define")
        endifs == {i \in DOMAIN raw : At(raw[i].text, 1) = "#endif" /\ raw[i].indent = 0}
        endifLine == IF endifs = {} THEN 1 ELSE Max(endifs)
        endif == IF endifs = {} THEN <<>> ELSE raw[endifLine].text
        comments == \E i \in 2 .. Len(raw) - 1 :
                        InLineComment(raw[i].text, Len(raw[i].text) + 1)
        mark == IF ~comments /\ At(endif, 2) = "/*" THEN "/*" ELSE "//"
        style == IF ifndef.name = cppvar.name THEN <<>>
                 ELSE Append(NolintEvents(raw, ifndef.line),
                             GuardError(ifndef.line,
                                        IF ifndef.name = cppvar.doubled THEN 0 ELSE 5))
    IN  CASE silenced -> <<>>
          [] ~silenced /\ (ifndef.name = "" \/ ifndef.name # define.name) ->
                <<GuardError(1, 5)>>
          [] OTHER -> style \o NolintEvents(raw, endifLine)
                            \o EndifEvents(endif, endifLine, cppvar, mark)

-----------------------------------------------------------------------------
(* Checks that need the nesting.                                           *)

IsMacroDefinition(line) == At(line.text, 1) = "#define" /\ line.indent = 0

IsForwardClassDeclaration(text) ==
    LET n == Len(text)
    IN  /\ n >= 3 /\ text[n - 2] = "class" /\ IsWord(text[n - 1]) /\ text[n] = ";"

\* Has this line put a class or namespace directly into a namespace?
IsNamespaceIndentItem(n) ==
    /\ n.previous_stack_top # 0 /\ Len(n.stack) = n.previous_stack_top + 1
    /\ Top(n).kind \in {"class", "namespace"}
    /\ n.stack[n.previous_stack_top].kind = "namespace"

CheckForNamespaceIndentation(n, clean, ln) ==
    LET line == clean.elided[ln]
        inNamespace == IF IsForwardClassDeclaration(line.text)
                       THEN TopIs(n, "namespace") ELSE IsNamespaceIndentItem(n)
    IN  When(inNamespace /\ ~IsMacroDefinition(line) /\ line.indent > 0,
             Err(ln, <<"runtime", "indentation_namespace">>, 4))

\* A DISALLOW macro belongs to the private section.
CheckAccess(n, clean, ln) ==
    When(/\ At(clean.elided[ln].text, 1) = "DISALLOW"
         /\ TopIs(n, "class") /\ Top(n).access # "private",
         Err(ln, <<"readability", "constructors">>, 3))

\* In a long class a blank line stands before a section, unless it is the first.
CheckSectionSpacing(class, clean, ln) ==
    LET text == clean.lines[ln].text
        previous == TextAt(clean.lines, ln - 1)
        heads == {i \in class.start .. ln - 1 :
                    /\ clean.lines[i].text # <<>> /\ Last(clean.lines[i].text) = "{"}
        end_class_head == IF heads = {} THEN class.start ELSE Min(heads)
    IN  When(/\ class.last_line - class.start > MinSectionLines
             /\ ln > class.start
             /\ At(text, 1) \in AccessWords /\ At(text, 2) = ":"
             /\ ~IsBlankText(previous)
             /\ ~Has("class", previous) /\ ~Has("struct", previous)
             /\ end_class_head < ln - 1,
             Err(ln, <<"whitespace", "blank_line">>, 3))

CheckForMultilineCommentsAndStrings(clean, ln) ==
    LET text == clean.elided[ln].text
    IN  When(CountOf("/*", text) > CountOf("*/", text),
             Err(ln, <<"readability", "multiline_comment">>, 5))
        \o
        When(IsCppString(text), Err(ln, <<"readability", "multiline_string">>, 5))

-----------------------------------------------------------------------------
(* Braces: checks that look ahead.                                         *)

PreviousNonBlankText(elided, ln) ==
    LET at == {i \in 1 .. ln - 1 : ~IsBlankText(elided[i].text)}
    IN  IF at = {} THEN <<>> ELSE elided[Max(at)].text

TokenAt(lines, place) == At(TextAt(lines, place.line), place.pos)
EndsWith(text, tokens) == text # <<>> /\ Last(text) \in tokens

\* Text before the parenthesis of a block whose ";" is no mistake: a macro, a
\* lambda, a literal.
IsBlockOfExpression(prefix) ==
    LET n == Len(prefix)
    IN  \/ EndsWith(prefix, {"MACRO", "=", "decltype"})
        \/ EndsWith(prefix, {"alignas"}) /\ At(prefix, n - 1) \in {"struct", "union"}
        \/ EndsWith(prefix, {"]"})
           /\ ~\E i \in DOMAIN prefix : IsPrefix(<<"operator", "[", "]">>, From(prefix, i))

\* The position of the "{" on line ln that opens a block without need of a ";"
\* after it, 0 if there is none.
StatementBlock(elided, ln) ==
    LET text == elided[ln].text
        afterParen == {i \in DOMAIN text : text[i] = "{" /\ At(text, i - 1) = ")"}
        paren == Max(afterParen)
        OfExpression(opening) ==
            /\ opening # Nowhere
            /\ \/ IsBlockOfExpression(Upto(TextAt(elided, opening.line), opening.pos - 1))
               \/ opening.line > 2 /\ EndsWith(TextAt(elided, opening.line - 1), {"]"})
        afterWord == {i \in DOMAIN text :
                        /\ text[i] = "{"
                        /\ \/ At(text, i - 1) = "else"
                           \/ At(text, i - 1) = "const" /\ At(text, i - 2) = ")"}
        bare == /\ At(text, 1) = "{"
                /\ EndsWith(PreviousNonBlankText(elided, ln), {";", "{", "}"})
    IN  CASE afterParen # {} ->
                IF OfExpression(ReverseCloseExpression(elided, ln, paren - 1)) THEN 0 ELSE paren
          [] afterParen = {} /\ afterWord # {} -> Max(afterWord)
          [] OTHER -> IF bare THEN 1 ELSE 0

\* (Mutant: only the mark of the line at hand has been read.)
SemicolonBeforeNolint(clean, end) ==
    IF end # Nowhere /\ TokenAt(clean.elided, end) = ";"
    THEN <<Err(end.line, <<"readability", "braces">>, 4)>> ELSE <<>>

\* The error stands where the block ends, which may be further down: the marks of
\* that line and of the one before it are read first.
TrailingSemicolon(clean, end) ==
    IF end # Nowhere /\ TokenAt(clean.elided, end) = ";"
    THEN NolintEvents(clean.raw_lines, end.line - 1)
         \o NolintEvents(clean.raw_lines, end.line)
         \o <<Err(end.line, <<"readability", "braces">>, 4)>>
    ELSE <<>>

CheckTrailingSemicolon(clean, ln) ==
    TrailingSemicolon(clean,
        CloseExpression(clean.elided, ln, StatementBlock(clean.elided, ln)))

\* The first code at a place or after it, Nowhere at the end of the file.
NextCode(elided, place) ==
    LET later == {i \in place.line + 1 .. Len(elided) : ~IsBlankText(elided[i].text)}
    IN  CASE place.pos <= Len(TextAt(elided, place.line)) -> place
          [] place.pos > Len(TextAt(elided, place.line)) /\ later # {} -> Place(Min(later), 1)
          [] OTHER -> Nowhere

\* The text between an opening brace and the place after the closing one, with
\* the comments of the lines between.
BodyOf(clean, opening, closing) ==
    LET first == TextAt(clean.elided, opening.line)
        last == TextAt(clean.elided, closing.line)
    IN  IF opening.line = closing.line
        THEN SubSeq(first, opening.pos + 1, closing.pos - 2)
        ELSE From(first, opening.pos + 1)
             \o FlattenSeq([i \in 1 .. closing.line - opening.line - 1 |->
                                clean.raw_lines[opening.line + i].text])
             \o Upto(last, closing.pos - 2)

\* An if whose braces hold nothing, not even a comment, and no else after them.
IsEmptyIf(clean, end) ==
    LET opening == NextCode(clean.elided, end)
        raw == TextAt(clean.raw_lines, opening.line)
        IsEmptyUpto(closing) ==
            /\ closing # Nowhere
            /\ BodyOf(clean, opening, closing) = <<>>
            /\ TokenAt(clean.elided, NextCode(clean.elided, closing)) # "else"
    IN  /\ TokenAt(clean.elided, opening) = "{"
        /\ CleanseComments(raw) = raw
        /\ IsEmptyUpto(CloseExpression(clean.elided, opening.line, opening.pos))

\* The errors stand at the end of the condition, which may be further down.
CheckEmptyBlockBody(clean, ln) ==
    LET text == clean.elided[ln].text
        body == IF text[1] = "if" THEN "empty_conditional_body" ELSE "empty_loop_body"
        CheckAfter(end) ==
            When(TokenAt(clean.elided, end) = ";", Err(end.line, <<"whitespace", body>>, 5))
            \o When(end # Nowhere /\ text[1] = "if" /\ IsEmptyIf(clean, end),
                    Err(end.line, <<"whitespace", "empty_if_body">>, 4))
    IN  IF At(text, 1) \in {"for", "while", "if"} /\ At(text, 2) = "("
        THEN CheckAfter(CloseExpression(clean.elided, ln, 2)) ELSE <<>>

-----------------------------------------------------------------------------
(* CheckStyle.  The width of a line is counted in tokens.                  *)

GetLineWidth(line) == line.indent + Len(line.text)

IsGuardLine(text, cppvar) ==
    LET guards == {cppvar.name, cppvar.doubled}
    IN  \/ At(text, 1) \in {"#ifndef", "#define"} /\ At(text, 2) \in guards
        \/ At(text, 1) = "#endif" /\ At(text, 2) = "//" /\ At(text, 3) \in guards

\* Lines that may be long: includes, header guards, comments of one word.
MayBeLong(line, file, cppvar) ==
    \/ At(line.text, 1) = "#include" /\ line.indent = 0
    \/ file.extension = "h" /\ line.indent = 0 /\ IsGuardLine(line.text, cppvar)
    \/ At(line.text, 1) = "//" /\ Len(line.text) <= 2

\* An odd indentation, but of a label, of a continued line, or of what is left of
\* a raw string.
IsWeirdIndent(clean, ln) ==
    LET raw == clean.lines_without_raw_strings
        text == clean.elided[ln].text
    IN  /\ raw[ln].indent \in {1, 3}
        /\ ~EndsWith(TextAt(raw, ln - 1), {Quote, ",", "=", ">", "<"})
        /\ ~(Len(text) = 2 /\ IsWord(text[1]) /\ text[2] = ":")
        /\ ~(clean.raw_lines[ln] # raw[ln] /\ IsPrefix(EmptyString, raw[ln].text))

HasManyCommands(clean, ln) ==
    LET text == clean.elided[ln].text
        previous == PreviousNonBlankText(clean.elided, ln)
    IN  /\ CountOf(";", text) > 1
        /\ ~Has("for", text)
        /\ ~Has("for", previous) \/ Has(";", previous)
        /\ ~((Has("case", text) \/ Has("default", text)) /\ Has("break", text))

CheckStyle(n, clean, ln, file, cppvar, lineLength) ==
    LET line == clean.lines_without_raw_strings[ln]
        class == InnermostClass(n)
    IN  When(Has("TAB", line.text), Err(ln, <<"whitespace", "tab">>, 1))
        \o When(IsWeirdIndent(clean, ln), Err(ln, <<"whitespace", "indent">>, 3))
        \o When(~MayBeLong(line, file, cppvar) /\ GetLineWidth(line) > lineLength,
                Err(ln, <<"whitespace", "line_length">>, 2))
        \o When(HasManyCommands(clean, ln), Err(ln, <<"whitespace", "newline">>, 0))
        \o CheckTrailingSemicolon(clean, ln)
        \o CheckEmptyBlockBody(clean, ln)
        \o CheckAccess(n, clean, ln)
        \o IF class = <<>> THEN <<>> ELSE CheckSectionSpacing(class[1], clean, ln)
=============================================================================
