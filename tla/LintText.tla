------------------------------ MODULE LintText ------------------------------
(***************************************************************************)
(* How cpplint.py (run on this repository by scripts/lint.sh) prepares the *)
(* text of a file: raw strings are emptied, comments removed, strings      *)
(* collapsed, and every later check reads one of the resulting copies.     *)
(*                                                                         *)
(* A line is its indentation and a sequence of tokens.  A token stands for *)
(* its characters and for the blanks a reader would put around it: words   *)
(* ("name", "class"), punctuation, the comment marks, a quote, the letter  *)
(* R that opens a raw string.  Escapes and single quotes are left out.     *)
(* Lines are numbered from 1; line 1 is the marker put before the file.    *)
(***************************************************************************)
EXTENDS Integers, FiniteSets, SequencesExt

Quote == "\""
EmptyString == <<Quote, Quote>>

Line(indent, text) == [indent |-> indent, text |-> text]
Blank == Line(0, <<>>)
Marker == Line(0, <<"//", "name">>)

\* Line ln of the lines of a file, the empty line where there is none.
TextAt(lines, ln) == IF ln \in DOMAIN lines THEN lines[ln].text ELSE <<>>

IsSequence(s) == s \in Seq(Range(s))
AreLines(lines) == IsSequence(lines) /\ \A i \in DOMAIN lines : IsSequence(lines[i].text)
CountOf(token, text) == Cardinality({i \in DOMAIN text : text[i] = token})
Has(token, text) == Contains(text, token)
Upto(text, i) == SubSeq(text, 1, i)
From(text, i) == SubSeq(text, i, Len(text))

\* The first position where pattern stands in text, 0 when it does not.
Find(pattern, text) ==
    LET at == {i \in DOMAIN text : IsPrefix(pattern, From(text, i))}
    IN  IF at = {} THEN 0 ELSE Min(at)

\* F of the value of x: x is evaluated before F looks at it, and once.
OfValue(F(_), x) == CHOOSE y \in {F(v) : v \in {x}} : TRUE

\* The loops of the program: Step(x, e) for every element e of a sequence, and
\* Step(x) up to n times.
ForEach(Step(_, _), start, seq) ==
    OfValue(LAMBDA s : FoldLeft(LAMBDA x, e : OfValue(LAMBDA v : Step(v, e), x), s, seq),
            start)
Iterate(Step(_), start, n) ==
    ForEach(LAMBDA x, k : Step(x), start, [k \in 1 .. n |-> k])

\* The numbers from i to j, one after the other.
Indices(i, j) == [k \in 1 .. j + 1 - i |-> i + k - 1]

-----------------------------------------------------------------------------
(* Raw strings.                                                            *)

\* Is the end of text inside a string constant?
IsCppString(text) == CountOf(Quote, text) % 2 = 1

\* Where the first match of R"delimiter( starts, with the index of its "("; a
\* delimiter has no parenthesis.
RawStringStarts(text) ==
    {p \in (DOMAIN text) \X (DOMAIN text) :
        /\ p[1] + 2 <= p[2]
        /\ text[p[1]] = "R" /\ text[p[1] + 1] = Quote /\ text[p[2]] = "("
        /\ \A k \in p[1] + 2 .. p[2] - 1 : text[k] \notin {"(", ")"}}

\* The text before position i has a line comment that starts outside a string.
InLineComment(text, i) ==
    \E k \in 1 .. i - 1 : text[k] = "//" /\ ~IsCppString(Upto(text, k - 1))

Delimiter(text, start) ==
    <<")">> \o SubSeq(text, start[1] + 2, start[2] - 1) \o <<Quote>>

\* One turn of the loop over a line outside a raw string: s.open holds the
\* delimiter waited for, the empty sequence when there is none.
EmptyRawString(s) ==
    LET starts == RawStringStarts(s.text)
        start == CHOOSE p \in starts : \A q \in starts : p[1] <= q[1]
        delimiter == Delimiter(s.text, start)
        body == From(s.text, start[2] + 1)
        end == Find(delimiter, body)
        before == Upto(s.text, start[1] - 1) \o EmptyString
    IN  CASE s.open # <<>> \/ starts = {} -> s
          [] s.open = <<>> /\ starts # {} /\ InLineComment(s.text, start[1]) -> s
          [] OTHER ->
                IF end = 0 THEN [text |-> before, open |-> delimiter]
                ELSE [s EXCEPT !.text = before \o From(body, end + Len(delimiter))]

CleanseRawLine(s, line) ==
    LET end == Find(s.open, line.text)
        resumed ==
            CASE s.open = <<>> -> [text |-> line.text, open |-> <<>>]
              [] s.open # <<>> /\ end = 0 -> [text |-> EmptyString, open |-> s.open]
              [] OTHER -> [text |-> EmptyString \o From(line.text, end + Len(s.open)),
                           open |-> <<>>]
        done == Iterate(EmptyRawString, resumed, Len(line.text))
        indent == IF resumed.open # <<>> THEN 0 ELSE line.indent
    IN  [open |-> done.open, lines |-> Append(s.lines, Line(indent, done.text))]

CleanseRawStrings(lines) ==
    ForEach(CleanseRawLine, [open |-> <<>>, lines |-> <<>>], lines).lines

-----------------------------------------------------------------------------
(* Comments and strings.                                                   *)

\* Lines from ln on that open a comment they do not close, and that close one.
CommentStarts(lines, ln) ==
    {i \in ln .. Len(lines) :
        /\ lines[i].text # <<>> /\ lines[i].text[1] = "/*"
        /\ ~Has("*/", lines[i].text)}
CommentEnds(lines, ln) ==
    {i \in ln .. Len(lines) : lines[i].text # <<>> /\ Last(lines[i].text) = "*/"}

CommentDummy == Line(0, <<"/*", "*/">>)

\* One turn of the loop of RemoveMultiLineComments; s.at is where it looks on,
\* beyond the last line when it is over, s.unclosed the start of the comment
\* whose end was not found, if there is one.
RemoveComment(s) ==
    LET starts == CommentStarts(s.lines, s.at)
        begin == Min(starts)
        ends == CommentEnds(s.lines, begin)
        end == Min(ends)
    IN  CASE starts = {} -> [s EXCEPT !.at = Len(s.lines) + 1]
          [] starts # {} /\ ends = {} ->
                [s EXCEPT !.at = Len(s.lines) + 1, !.unclosed = <<begin>>]
          [] OTHER ->
                [s EXCEPT !.at = end + 1,
                          !.lines = [i \in DOMAIN s.lines |->
                              IF i \in begin .. end THEN CommentDummy
                                                    ELSE s.lines[i]]]

RemoveMultiLineComments(lines) ==
    Iterate(RemoveComment, [lines |-> lines, at |-> 1, unclosed |-> <<>>], Len(lines))

\* Cut out the first /* ... */ of a text.
CutComment(text) ==
    LET pairs == {p \in (DOMAIN text) \X (DOMAIN text) :
                    p[1] < p[2] /\ text[p[1]] = "/*" /\ text[p[2]] = "*/"}
        first == CHOOSE p \in pairs :
                    \A q \in pairs : p[1] < q[1] \/ (p[1] = q[1] /\ p[2] <= q[2])
    IN  IF pairs = {} THEN text
        ELSE Upto(text, first[1] - 1) \o From(text, first[2] + 1)

\* Only the first // is looked at: one inside a string hides a later one.
CleanseComments(text) ==
    LET at == SelectInSeq(text, LAMBDA t : t = "//")
        code == IF at # 0 /\ ~IsCppString(Upto(text, at - 1))
                THEN Upto(text, at - 1) ELSE text
    IN  Iterate(CutComment, code, Len(code))

\* What stands inside a pair of quotes goes; after an unmatched quote all stays.
CollapseStrings(text) ==
    LET unmatched == IF IsCppString(text)
                     THEN SelectLastInSeq(text, LAMBDA t : t = Quote)
                     ELSE Len(text) + 1
        kept == {i \in DOMAIN text :
                    \/ text[i] = Quote
                    \/ i > unmatched
                    \/ ~IsCppString(Upto(text, i))}
    IN  IF text # <<>> /\ text[1] = "#include" THEN text
        ELSE FlattenSeq([i \in DOMAIN text |-> IF i \in kept THEN <<text[i]>> ELSE <<>>])

CleanseLine(line) == Line(line.indent, CleanseComments(line.text))
\* (Mutant: comments cut before strings are collapsed only.)
ElideCleansedLine(line) == Line(line.indent, CollapseStrings(CleanseComments(line.text)))
ElideLine(line) == Line(line.indent, CleanseComments(CollapseStrings(line.text)))

\* The four copies of a file that the checks read.
CleansedLines(lines) ==
    LET noRaw == CleanseRawStrings(lines)
    IN  [raw_lines |-> lines,
         lines_without_raw_strings |-> noRaw,
         lines |-> [i \in DOMAIN noRaw |-> CleanseLine(noRaw[i])],
         elided |-> [i \in DOMAIN noRaw |-> ElideLine(noRaw[i])]]
=============================================================================
