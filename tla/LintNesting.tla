----------------------------- MODULE LintNesting -----------------------------
(***************************************************************************)
(* NestingState of cpplint.py: the stack of blocks a line stands in, the   *)
(* copies of the stack kept at #if and #else, and the errors found where a *)
(* block ends.                                                             *)
(***************************************************************************)
EXTENDS LintExpressions

CONSTANTS
    MinNamespaceLines, \* a namespace shorter than this needs no comment at its end
    MinSectionLines    \* a class not longer than this needs no blank lines

ASSUME LengthsAssumption ==
    MinNamespaceLines \in Nat /\ MinSectionLines \in Nat

\* An error as a check reports it.
Err(ln, category, confidence) ==
    [kind |-> "error", line |-> ln, category |-> category, confidence |-> confidence]

Punctuation == SingleCharacters \cup {Quote, "//", "/*", "*/"}
Directives == {"#if", "#ifndef", "#else", "#elif", "#endif", "#define", "#include"}
IsWord(token) == token \notin Punctuation \cup Directives \cup {""}
AccessWords == {"public", "private", "protected"}
IsBlankText(text) == text = <<>>
Directive(text) == IF At(text, 1) \in Directives THEN At(text, 1) ELSE ""

-----------------------------------------------------------------------------
(* Blocks.                                                                 *)

Block(kind, ln, seen) ==
    [kind |-> kind, start |-> ln, seen_open_brace |-> seen, open_parentheses |-> 0,
     inline_asm |-> "NO_ASM", name |-> "", access |-> "", indent |-> 0, last_line |-> 0]

BlockInfo(ln) == Block("block", ln, TRUE)
ExternCInfo(ln) == Block("extern", ln, TRUE)
NamespaceInfo(ln, name) == [Block("namespace", ln, FALSE) EXCEPT !.name = name]

\* The line where the braces opened from line ln on are all closed, 0 if none is.
LastLineOfClass(lines, ln) ==
    LET depth[i \in ln - 1 .. Len(lines)] ==
            IF i = ln - 1 THEN 0
            ELSE depth[i - 1] + CountOf("{", lines[i].text) - CountOf("}", lines[i].text)
        balanced == {i \in ln .. Len(lines) : depth[i] = 0}
    IN  IF balanced = {} THEN 0 ELSE Min(balanced)

ClassInfo(clean, ln, keyword, name) ==
    [Block("class", ln, FALSE) EXCEPT
        !.name = name,
        !.access = IF keyword = "struct" THEN "public" ELSE "private",
        !.indent = IF clean.raw_lines[ln].text = <<>> THEN 0 ELSE clean.raw_lines[ln].indent,
        !.last_line = LastLineOfClass(clean.elided, ln)]

\* _NamespaceInfo.CheckEnd: a long namespace, or one whose end has a comment that
\* speaks of it, must end in a comment with its name and nothing after it.
EndOfNamespace(raw) ==
    LET mark == SelectInSeq(raw, LAMBDA t : t \in {"//", "/*"})
    IN  IF At(raw, 1) = "}" /\ mark # 0 /\ \A i \in 2 .. mark - 1 : raw[i] = ";"
        THEN SelectSeq(From(raw, mark + 1), LAMBDA t : t # "*/") ELSE <<>>

CheckEndOfNamespace(block, clean, ln) ==
    LET comment == EndOfNamespace(clean.raw_lines[ln].text)
        named == IF block.name = "" THEN <<"namespace">> ELSE <<"namespace", block.name>>
    IN  IF \/ ln - block.start < MinNamespaceLines /\ ~Has("namespace", comment)
           \/ IsSuffix(named, comment)
        THEN <<>> ELSE <<Err(ln, <<"readability", "namespace">>, 5)>>

\* _ClassInfo.CheckEnd: a DISALLOW macro is the last thing in the class, and the
\* closing brace stands under the first letter of the class.
CheckEndOfClass(block, clean, ln) ==
    LET inside == block.start + 1 .. ln - 1
        macros == {i \in inside : Has("DISALLOW", clean.elided[i].text)}
        macro == Max(macros)
        code == {i \in inside : i > macro /\ ~IsBlankText(clean.elided[i].text)}
        here == clean.elided[ln]
    IN  (IF macros # {} /\ code # {}
         THEN <<Err(macro, <<"readability", "constructors">>, 3)>> ELSE <<>>)
        \o
        (IF At(here.text, 1) = "}" /\ here.indent # block.indent
         THEN <<Err(ln, <<"whitespace", "indent">>, 3)>> ELSE <<>>)

CheckEnd(block, clean, ln) ==
    CASE block.kind = "namespace" -> CheckEndOfNamespace(block, clean, ln)
      [] block.kind = "class" -> CheckEndOfClass(block, clean, ln)
      [] OTHER -> <<>>

-----------------------------------------------------------------------------
(* The state: the stack, where its top stood before the last line (0 when  *)
(* there was none, or an #else or #endif has put a copy in its place), one *)
(* entry for every #if that is open.                                       *)

InitialNesting == [stack |-> <<>>, previous_stack_top |-> 0, pp_stack |-> <<>>]

Top(n) == Last(n.stack)
SeenOpenBrace(n) == n.stack = <<>> \/ Top(n).seen_open_brace
TopIs(n, kind) == n.stack # <<>> /\ Top(n).kind = kind
InAsmBlock(n) == n.stack # <<>> /\ Top(n).inline_asm # "NO_ASM"
PushBlock(n, block) == [n EXCEPT !.stack = Append(@, block)]
PopBlock(n) == [n EXCEPT !.stack = Front(@)]
SetTop(n, block) == [n EXCEPT !.stack[Len(n.stack)] = block]

\* The innermost class around a line, as a sequence of at most one.
InnermostClass(n) ==
    LET at == SelectLastInSeq(n.stack, LAMBDA b : b.kind = "class")
    IN  IF at = 0 THEN <<>> ELSE <<n.stack[at]>>

PreprocessorInfo(stack) ==
    [stack_before_if |-> stack, stack_before_else |-> <<>>, seen_else |-> FALSE]

BeginIf(n) == [n EXCEPT !.pp_stack = Append(@, PreprocessorInfo(n.stack))]

\* (Mutant: every #else part keeps its own stack.)
BeginLastElse(n) ==
    LET pp == Last(n.pp_stack)
        kept == [pp EXCEPT !.seen_else = TRUE, !.stack_before_else = n.stack]
    IN  [n EXCEPT !.pp_stack = Append(Front(@), kept), !.stack = pp.stack_before_if]

BeginElse(n) ==
    LET pp == Last(n.pp_stack)
        kept == IF pp.seen_else THEN pp
                ELSE [pp EXCEPT !.seen_else = TRUE, !.stack_before_else = n.stack]
    IN  [n EXCEPT !.pp_stack = Append(Front(@), kept), !.stack = pp.stack_before_if]

EndIf(n) ==
    LET pp == Last(n.pp_stack)
    IN  [n EXCEPT !.pp_stack = Front(@),
                  !.stack = IF pp.seen_else THEN pp.stack_before_else ELSE @]

UpdatePreprocessor(n, text) ==
    LET directive == Directive(text)
    IN  CASE directive \in {"#if", "#ifndef"} -> BeginIf(n)
          [] directive \in {"#else", "#elif"} /\ n.pp_stack # <<>> -> BeginElse(n)
          [] directive = "#endif" /\ n.pp_stack # <<>> -> EndIf(n)
          [] OTHER -> n

-----------------------------------------------------------------------------
(* The steps of Update on one line.                                        *)

\* Does a text start with an assembly block?
MatchAsm(text) ==
    \/ At(text, 1) = "asm" /\ At(text, 2) \in {"{", "("}
    \/ At(text, 1) = "asm" /\ At(text, 2) = "volatile" /\ At(text, 3) \in {"{", "("}

\* Count the parentheses of the innermost block; inline assembly starts and ends
\* with its parentheses.
CountParentheses(n, text) ==
    LET change == CountOf("(", text) - CountOf(")", text)
        block == [Top(n) EXCEPT !.open_parentheses = @ + change]
        asm == CASE /\ block.inline_asm \in {"NO_ASM", "END_ASM"}
                    /\ change # 0 /\ block.open_parentheses = 1 /\ MatchAsm(text)
                       -> "INSIDE_ASM"
                 [] /\ block.inline_asm \in {"NO_ASM", "END_ASM"}
                    /\ ~(change # 0 /\ block.open_parentheses = 1 /\ MatchAsm(text))
                       -> "NO_ASM"
                 [] block.inline_asm = "INSIDE_ASM" /\ block.open_parentheses = 0
                       -> "END_ASM"
                 [] OTHER -> block.inline_asm
    IN  IF n.stack = <<>> THEN n ELSE SetTop(n, [block EXCEPT !.inline_asm = asm])

\* One namespace at the beginning of what is left of the line.
ConsumeNamespace(s, ln) ==
    LET named == IsWord(At(s.text, 2))
        rest == From(s.text, IF named THEN 3 ELSE 2)
        brace == SelectInSeq(rest, LAMBDA t : t = "{")
        namespace == [NamespaceInfo(ln, IF named THEN s.text[2] ELSE "")
                        EXCEPT !.seen_open_brace = brace # 0]
    IN  IF At(s.text, 1) # "namespace" THEN s
        ELSE [nesting |-> PushBlock(s.nesting, namespace),
              text |-> IF brace = 0 THEN rest ELSE From(rest, brace + 1)]

ConsumeNamespaces(n, line, ln) ==
    Iterate(LAMBDA s : ConsumeNamespace(s, ln),
            [nesting |-> n, text |-> line.text], Len(line.text))

\* Is a position inside a template argument list?  The first token that decides
\* says so, after skipping the lists inside.
Decisive == {"{", "}", ";", "=", "[", "]", ".", "<", ">"}

DecisivePlaces(lines, at) ==
    {q \in UNION {{i} \X DOMAIN lines[i].text : i \in at.line .. Len(lines)} :
        /\ lines[q[1]].text[q[2]] \in Decisive
        /\ q[1] = at.line => q[2] >= at.pos}

LookFurther(lines, s) ==
    LET places == DecisivePlaces(lines, s.at)
        first == CHOOSE q \in places : \A r \in places :
                    q[1] < r[1] \/ (q[1] = r[1] /\ q[2] <= r[2])
        token == lines[first[1]].text[first[2]]
        Answer(b) == [s EXCEPT !.answer = b, !.decided = TRUE]
        After(end) == IF end = Nowhere THEN Answer(FALSE) ELSE [s EXCEPT !.at = end]
    IN  CASE s.decided -> s
          [] ~s.decided /\ places = {} -> Answer(FALSE)
          [] ~s.decided /\ places # {} /\ token # "<" -> Answer(token \notin {"{", "}", ";"})
          [] OTHER -> After(CloseExpression(lines, first[1], first[2]))

InTemplateArgumentList(lines, ln, pos) ==
    LET start == [at |-> Place(ln, pos), answer |-> FALSE, decided |-> FALSE]
        turns == Cardinality(DecisivePlaces(lines, start.at)) + 1
    IN  Iterate(LAMBDA s : LookFurther(lines, s), start, turns).answer

\* The head of a class at the start of a text: where its keyword and its name
\* stand, after an optional template and any macros.
ClassHeads(text) ==
    LET keywords ==
            {k \in DOMAIN text :
                /\ text[k] \in {"class", "struct"}
                /\ \/ k = 1
                   \/ /\ At(text, 1) = "template" /\ At(text, 2) = "<"
                      /\ k > 3 /\ text[k - 1] = ">"
                      /\ \A i \in 3 .. k - 1 :
                            IsWord(text[i]) \/ text[i] \in {"<", ">", ",", ":"}}
    IN  {h \in keywords \X DOMAIN text :
            /\ h[2] > h[1] /\ IsWord(text[h[2]])
            /\ \A i \in h[1] + 1 .. h[2] - 1 : text[i] = "MACRO"}

ConsumeClass(s, clean, ln) ==
    LET heads == ClassHeads(s.text)
        head == CHOOSE h \in heads : \A g \in heads :
                    h[1] > g[1] \/ (h[1] = g[1] /\ h[2] >= g[2])
        n == s.nesting
        class == ClassInfo(clean, ln, s.text[head[1]], s.text[head[2]])
    IN  CASE heads = {} -> s
          [] heads # {} /\ n.stack # <<>> /\ Top(n).open_parentheses # 0 -> s
          [] heads # {} /\ InTemplateArgumentList(clean.elided, ln, head[2] + 1) -> s
          [] OTHER -> [nesting |-> PushBlock(n, class), text |-> From(s.text, head[2] + 1)]

\* The last access keyword of the line sets the access of the class on top; one
\* that nothing but blanks precede is indented by one.
UpdateAccess(s, line, ln) ==
    LET n == s.nesting
        at == SelectLastInSeq([i \in DOMAIN s.text |-> i], LAMBDA i :
                /\ s.text[i] \in AccessWords /\ At(s.text, i + 1) = ":")
        first == at = 1 /\ s.text = line.text
        misplaced == first /\ line.indent # Top(n).indent + 1
    IN  IF ~TopIs(n, "class") \/ at = 0 THEN [nesting |-> n, text |-> s.text, errors |-> <<>>]
        ELSE [nesting |-> [n EXCEPT !.stack[Len(n.stack)].access = s.text[at]],
              text |-> s.text,
              errors |-> IF misplaced THEN <<Err(ln, <<"whitespace", "indent">>, 3)>>
                                      ELSE <<>>]

OpenBrace(n, text, ln) ==
    CASE ~SeenOpenBrace(n) -> SetTop(n, [Top(n) EXCEPT !.seen_open_brace = TRUE])
      [] SeenOpenBrace(n) /\ IsPrefix(<<"extern">> \o EmptyString \o <<"{">>, text) ->
            PushBlock(n, ExternCInfo(ln))
      [] OTHER -> PushBlock(n, [BlockInfo(ln) EXCEPT
                        !.inline_asm = IF MatchAsm(text) THEN "BLOCK_ASM" ELSE @])

\* The first brace, semicolon or closing parenthesis of what is left.
ConsumeBrace(s, clean, ln) ==
    LET at == SelectInSeq(s.text, LAMBDA t : t \in {"{", ";", ")", "}"})
        n == s.nesting
        Done(m, errors) == [nesting |-> m, text |-> From(s.text, at + 1),
                            errors |-> s.errors \o errors]
    IN  CASE at = 0 -> s
          [] At(s.text, at) = "{" -> Done(OpenBrace(n, s.text, ln), <<>>)
          [] At(s.text, at) \in {";", ")"} ->
                Done(IF SeenOpenBrace(n) THEN n ELSE PopBlock(n), <<>>)
          [] At(s.text, at) = "}" /\ n.stack = <<>> -> Done(n, <<>>)
          [] OTHER -> Done(PopBlock(n), CheckEnd(Top(n), clean, ln))

ConsumeBraces(s, clean, ln) ==
    Iterate(LAMBDA t : ConsumeBrace(t, clean, ln), s, Len(s.text))

\* NestingState.Update: the state after line ln and the errors found on it.
Update(n, clean, ln) ==
    LET line == clean.elided[ln]
        Preprocess(m) == [m EXCEPT !.previous_stack_top =
                                IF m.stack # n.stack THEN 0 ELSE Len(n.stack)]
        counted == CountParentheses(Preprocess(UpdatePreprocessor(n, line.text)), line.text)
        class == ConsumeClass(ConsumeNamespaces(counted, line, ln), clean, ln)
        end == ConsumeBraces(UpdateAccess(class, line, ln), clean, ln)
    IN  [nesting |-> end.nesting, errors |-> end.errors]

CheckCompletedBlocks(n) ==
    LET Unfinished(b) ==
            CASE b.kind = "class" -> <<Err(b.start, <<"build", "class">>, 5)>>
              [] b.kind = "namespace" -> <<Err(b.start, <<"build", "namespaces">>, 5)>>
              [] OTHER -> <<>>
    IN  FlattenSeq([i \in DOMAIN n.stack |-> Unfinished(n.stack[i])])
=============================================================================
