---------------------------- MODULE LintFunctions ----------------------------
(***************************************************************************)
(* _FunctionState of cpplint.py: how many lines the function at hand has.  *)
(***************************************************************************)
EXTENDS LintNesting

CONSTANTS
    NormalTrigger, \* _NORMAL_TRIGGER: the lines a function may have at verbosity 0
    TestTrigger    \* _TEST_TRIGGER: the same for a test

ASSUME TriggersAssumption ==
    NormalTrigger \in Nat \ {0} /\ TestTrigger \in Nat \ {0}

FunctionSizeError(ln, level) == Err(ln, <<"readability", "fn_size">>, level)

InitialFunction == [in_a_function |-> FALSE, lines |-> 0, test |-> FALSE]

Begin(test) == [in_a_function |-> TRUE, lines |-> 0, test |-> test]
End(f) == [f EXCEPT !.in_a_function = FALSE]
Count(f) == IF f.in_a_function THEN [f EXCEPT !.lines = @ + 1] ELSE f

BaseTrigger(f) == IF f.test THEN TestTrigger ELSE NormalTrigger

\* (Mutant: the doublings of the lines over the trigger.)
LevelOverTrigger(f) ==
    Max({k \in 0 .. 5 : k = 0 \/ 2 ^ k <= (f.lines - BaseTrigger(f)) \div BaseTrigger(f)})

\* The confidence of the error: how often the lines double the trigger, 5 at most.
ErrorLevel(f) == Max({k \in 0 .. 5 : 2 ^ k <= f.lines \div BaseTrigger(f)})

Check(f, ln, verbosity) ==
    IF f.in_a_function /\ f.lines > BaseTrigger(f) * 2 ^ verbosity
    THEN <<FunctionSizeError(ln, ErrorLevel(f))>> ELSE <<>>

\* The name before the first parenthesis of an unindented line, when nothing but
\* names and the marks of types precede it.
FunctionName(line) ==
    LET paren == SelectInSeq(line.text, LAMBDA t : t = "(")
        decl == Upto(line.text, paren - 1)
    IN  IF \/ line.indent # 0 \/ paren < 2
           \/ ~IsWord(line.text[1]) \/ ~IsWord(line.text[paren - 1])
           \/ \E i \in DOMAIN decl : ~IsWord(decl[i]) /\ decl[i] \notin {"*", "&"}
        THEN "" ELSE line.text[paren - 1]

StartsFunction(line) == FunctionName(line) \notin {"", "MACRO"}

\* The first line from ln on that says what follows the name: a body, or an end.
BodyLines(lines, ln) ==
    {i \in ln .. Len(lines) :
        \E t \in {";", "}", "{"} : Has(t, lines[i].text)}
HasBody(text) == ~Has(";", text) /\ ~Has("}", text)

CheckForFunctionLengths(f, clean, ln, verbosity) ==
    LET lines == clean.lines
        line == lines[ln]
        found == BodyLines(lines, ln)
        body == HasBody(lines[Min(found)].text)
        Keep(g, errors) == [function |-> g, errors |-> errors]
    IN  CASE StartsFunction(line) /\ found = {} -> Keep(f, <<FunctionSizeError(ln, 5)>>)
          [] StartsFunction(line) /\ found # {} ->
                Keep(IF body THEN Begin(FunctionName(line) = "TEST") ELSE f, <<>>)
          [] ~StartsFunction(line) /\ line = Line(0, <<"}">>) ->
                Keep(End(f), Check(f, ln, verbosity))
          [] OTHER -> Keep(IF IsBlankText(line.text) THEN f ELSE Count(f), <<>>)
=============================================================================
