--------------------------- MODULE LintExpressions ---------------------------
(***************************************************************************)
(* How cpplint.py matches brackets over the lines of a file: forwards from *)
(* an opening one, backwards from a closing one.  A "<" may be a bracket   *)
(* or an operator; it is taken for a bracket until the text says           *)
(* otherwise.  Brackets are single tokens that stand next to each other.   *)
(***************************************************************************)
EXTENDS LintText

Opening == {"(", "[", "{"}
Closing == {")", "]", "}"}
ClosingOf == [b \in Opening \cup {"<"} |->
                CASE b = "(" -> ")" [] b = "[" -> "]" [] b = "{" -> "}" [] b = "<" -> ">"]
SingleCharacters == Opening \cup Closing \cup {"<", ">", ";", ":", ",", "=", "-", "."}

\* The token at position i of a text, "" beyond its ends.
At(text, i) == IF i \in DOMAIN text THEN text[i] ELSE ""

\* A position in the lines of a file; Nowhere when no match is found.
Place(ln, pos) == [line |-> ln, pos |-> pos]
Nowhere == Place(0, 0)

\* The stack without the pending brackets b on its top: they were operators.
DropPending(stack, b) ==
    LET kept == SelectLastInSeq(stack, LAMBDA c : c # b)
    IN  SubSeq(stack, 1, kept)

-----------------------------------------------------------------------------
(* A scan of one line: the stack of brackets that wait for their partner,  *)
(* where the match was found (0 while it was not), whether the search was  *)
(* given up.                                                               *)

Scan(stack) == [stack |-> stack, found |-> 0, givenUp |-> FALSE]
Push(s, b) == [s EXCEPT !.stack = Append(@, b)]
GiveUp(s) == [s EXCEPT !.givenUp = TRUE]

\* Pop the partner of the bracket at position i: it may have been the last one.
PopAt(s, i) ==
    IF Len(s.stack) = 1 THEN [s EXCEPT !.stack = <<>>, !.found = i]
                        ELSE [s EXCEPT !.stack = Front(@)]

\* The brackets b that wait on top were operators; an empty stack ends the search.
Unpend(s, b) ==
    IF \A i \in DOMAIN s.stack : s.stack[i] = b THEN GiveUp(s)
    ELSE [s EXCEPT !.stack = DropPending(@, b)]

\* A "<": the second of a shift takes the first one back.
OpenAngle(s, text, i) ==
    CASE At(text, i - 1) = "<" /\ s.stack # <<>> /\ Last(s.stack) = "<" ->
            IF Len(s.stack) = 1 THEN GiveUp(s) ELSE [s EXCEPT !.stack = Front(@)]
      [] At(text, i - 1) = "<" /\ ~(s.stack # <<>> /\ Last(s.stack) = "<") -> s
      [] At(text, i - 1) = "operator" -> s
      [] OTHER -> Push(s, "<")

\* (Mutant: a ">" closes whatever waits.)
CloseAnyAngle(s, text, i) ==
    IF At(text, i - 1) # "-" /\ s.stack # <<>> THEN PopAt(s, i) ELSE s

\* A ">": not the one of "->", nor the second of "operator>>".
CloseAngle(s, text, i) ==
    LET ignored == \/ At(text, i - 1) = "-"
                   \/ /\ At(text, i - 1) \in SingleCharacters
                      /\ At(text, i - 2) = "operator"
    IN  IF ~ignored /\ s.stack # <<>> /\ Last(s.stack) = "<" THEN PopAt(s, i) ELSE s

\* Pop the partner of a bracket at position i; anything else ends the search.
PopPartner(s, partners, i) ==
    CASE s.givenUp -> s
      [] ~s.givenUp /\ Last(s.stack) \in partners -> PopAt(s, i)
      [] OTHER -> GiveUp(s)

ScanForward(s, text, i) ==
    LET b == text[i]
    IN  IF s.found # 0 \/ s.givenUp THEN s ELSE
        CASE b \in Opening -> Push(s, b)
          [] b = "<" -> OpenAngle(s, text, i)
          [] b \in Closing ->
                PopPartner(Unpend(s, "<"), {c \in Opening : ClosingOf[c] = b}, i)
          [] b = ">" -> CloseAngle(s, text, i)
          [] b = ";" -> Unpend(s, "<")
          [] OTHER -> s

FindEndOfExpressionInLine(text, start, stack) ==
    ForEach(LAMBDA s, i : ScanForward(s, text, i), Scan(stack),
             Indices(start, Len(text)))

\* Go on with the search for a match in line i, unless it is over: it is with an
\* empty stack, too, once the first line is scanned.
NotFound == [line |-> 0, scan |-> Scan(<<>>)]
ScanLine(s, i, InLine(_)) ==
    IF \/ s.scan.found # 0 \/ s.scan.givenUp
       \/ s.line # 0 /\ s.scan.stack = <<>>
    THEN s ELSE [line |-> i, scan |-> InLine(s.scan.stack)]
Found(s, offset) ==
    IF s.scan.found = 0 THEN Nowhere ELSE Place(s.line, s.scan.found + offset)

\* The place just after the bracket that closes the one at position pos of line
\* ln of the elided lines, or Nowhere.
CloseExpression(lines, ln, pos) ==
    LET text == TextAt(lines, ln)
    IN  CASE At(text, pos) \notin Opening \cup {"<"} -> Nowhere
          [] At(text, pos) = "<" /\ At(text, pos + 1) \in {"<", "="} -> Nowhere
          [] OTHER ->
                Found(ForEach(LAMBDA s, k : ScanLine(s, ln + k, LAMBDA stack :
                                FindEndOfExpressionInLine(
                                    TextAt(lines, ln + k), IF k = 0 THEN pos ELSE 1, stack)),
                              NotFound, Indices(0, Len(lines) - ln)),
                      1)

-----------------------------------------------------------------------------
(* The same backwards.  The left one of two shift characters is skipped.   *)

ScanBackward(s, text, i) ==
    LET b == text[i]
        operator == \/ At(text, i - 1) \in {"-", "operator"}
                    \/ At(text, i + 1) = "="
    IN  IF s.found # 0 \/ s.givenUp \/ s.skipped = i THEN s ELSE
        CASE b \in Closing -> Push(s, b)
          [] b = ">" -> IF operator THEN s ELSE Push(s, ">")
          [] b = "<" /\ At(text, i - 1) = "<" -> [s EXCEPT !.skipped = i - 1]
          [] b = "<" /\ At(text, i - 1) # "<" ->
                IF s.stack # <<>> /\ Last(s.stack) = ">" THEN PopAt(s, i) ELSE s
          [] b \in Opening -> PopPartner(Unpend(s, ">"), {ClosingOf[b]}, i)
          [] b = ";" -> Unpend(s, ">")
          [] OTHER -> s

FindStartOfExpressionInLine(text, last, stack) ==
    ForEach(LAMBDA s, i : ScanBackward(s, text, i),
             [stack |-> stack, found |-> 0, givenUp |-> FALSE, skipped |-> 0],
             [k \in 1 .. last |-> last + 1 - k])

\* The place of the bracket that opens what the one at position pos of line ln
\* closes, or Nowhere.
ReverseCloseExpression(lines, ln, pos) ==
    IF At(TextAt(lines, ln), pos) \notin Closing \cup {">"} THEN Nowhere
    ELSE Found(ForEach(LAMBDA s, i : ScanLine(s, i, LAMBDA stack :
                          FindStartOfExpressionInLine(
                              TextAt(lines, i),
                              IF i = ln THEN pos ELSE Len(TextAt(lines, i)), stack)),
                       NotFound, Reverse(Indices(1, ln))),
               0)
=============================================================================
