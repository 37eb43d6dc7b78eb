---------------------------- MODULE LintRulesProofs ----------------------------
(***************************************************************************)
(* Theorems about what the rules of cpplint.py see and say of a file: what *)
(* a NOLINT mark silences, what is left of comments in the lines that are  *)
(* checked, which #includes are found to be late or to be repeated, how    *)
(* the stack of blocks and the ends of expressions agree with the text,    *)
(* and that no file leaves anything for the next.                          *)
(***************************************************************************)
EXTENDS LintProofs

-----------------------------------------------------------------------------
(* NOLINT.                                                                 *)

\* The properties of the marks, for any copies of the lines.
MarkAt(c, m) == NolintEvents(c.raw_lines, m)[1]
MarksIn(c, ln, category) ==
    {i \in {ln - 1, ln} \cap DOMAIN c.raw_lines :
        LET events == NolintEvents(c.raw_lines, i)
        IN  events # <<>> /\ SuppressionOf(events[1]) \in {<<category, ln>>, <<AllCategories, ln>>}}
IsInRawString(c, ln) ==
    NolintEvents(c.raw_lines, ln) # NolintEvents(c.lines_without_raw_strings, ln)

\* An error that is reported although a mark speaks of it is one that may be.
IsNotSilenced(c, f, p) ==
    (p.file = f /\ MarksIn(c, p.line, p.category) # {}) =>
        \/ p.category \in FoundEarly
        \/ /\ p.category \in FoundBeforeTheLines
           /\ p.line \notin MarksIn(c, p.line, p.category) \/ IsInRawString(c, p.line)

\* The mark of line m must be read before the error e is handled.
Awaits(c, e, m) ==
    /\ m \in MarksIn(c, e.line, e.category) /\ e.category \notin FoundEarly
    /\ e.category \in FoundBeforeTheLines => m = e.line /\ ~IsInRawString(c, e.line)

IsKnownMark(c, m) ==
    /\ NolintEvents(c.raw_lines, m) # <<>>
    /\ Nolints[MarkAt(c, m).mark].category \in ErrorCategories \cup {AllCategories}

\* The marks of the lines so far are read, or waiting; those an error needs are read,
\* or waiting before it.  What is reported while no file is open is of earlier files.
SilenceInv ==
    /\ \A m \in 1 .. position - 1 : IsKnownMark(clean, m) =>
            \/ SuppressionOf(MarkAt(clean, m)) \in suppressions
            \/ \E j \in DOMAIN pending : pending[j] = MarkAt(clean, m)
    /\ \A i \in DOMAIN pending : pending[i].kind = "error" =>
            \A m : Awaits(clean, pending[i], m) =>
                \/ SuppressionOf(MarkAt(clean, m)) \in suppressions
                \/ IsBefore(MarkAt(clean, m), pending, i)
    /\ phase \in {"arguments", "start", "read"} =>
            \A i \in DOMAIN printed : printed[i].file # file
    /\ \A i \in DOMAIN printed : IsNotSilenced(clean, file, printed[i])

\* The invariant says more than the property.
LEMMA SilenceInvSaysSo == SilenceInv => NolintSilencesItsLine
BY DEF SilenceInv, IsNotSilenced, NolintSilencesItsLine, MarksFor, MarksIn, MarkInRawString,
       IsInRawString

\* A mark that silences an error has a known category, and is one mark of its line.
LEMMA AwaitedMark ==
    ASSUME NEW c, NEW e, NEW m, m \in MarksIn(c, e.line, e.category),
           e.category \in ErrorCategories
    PROVE  /\ m \in DOMAIN c.raw_lines /\ m \in {e.line - 1, e.line} /\ IsKnownMark(c, m)
           /\ NolintEvents(c.raw_lines, m) = <<MarkAt(c, m)>>
           /\ MarkAt(c, m).kind = "nolint" /\ MarkAt(c, m).line = m
           /\ SuppressionOf(MarkAt(c, m)) \in {<<e.category, e.line>>, <<AllCategories, e.line>>}
<1>1. PICK events : events = NolintEvents(c.raw_lines, m)
  OBVIOUS
<1>2. /\ m \in DOMAIN c.raw_lines /\ m \in {e.line - 1, e.line} /\ events # <<>>
      /\ SuppressionOf(events[1]) \in {<<e.category, e.line>>, <<AllCategories, e.line>>}
  BY <1>1 DEF MarksIn
<1>3. PICK x : events = <<x>> /\ x.kind = "nolint" /\ x.line = m
  BY <1>1, <1>2, NolintEventsType
<1>4. MarkAt(c, m) = x
  BY <1>1, <1>3 DEF MarkAt
<1>5. SuppressionOf(x) \in {<<e.category, e.line>>, <<AllCategories, e.line>>}
  BY <1>2, <1>3
<1>6. Nolints[x.mark].category \in ErrorCategories \cup {AllCategories}
  <2>1. SuppressionOf(x)[1] = Nolints[x.mark].category
    BY DEF SuppressionOf
  <2>2. SuppressionOf(x)[1] \in {e.category, AllCategories}
    BY <1>5
  <2> QED
    BY <2>1, <2>2
<1> QED
  BY <1>1, <1>2, <1>3, <1>4, <1>5, <1>6 DEF IsKnownMark

\* What the checks give awaits the marks of the lines so far, or has read them.
LEMMA AwaitedMarkIsRead ==
    ASSUME NEW c, NEW ln \in Int, NEW v, NEW s, LineEvents(s, c, ln, v),
           NEW i \in DOMAIN s, s[i].kind = "error", NEW m, Awaits(c, s[i], m), m \in Int
    PROVE  m <= ln \/ IsBefore(MarkAt(c, m), s, i)
<1>1. s[i].category \in ErrorCategories /\ IsLineEvent(s, i, c, ln, v)
  BY DEF LineEvents, IsLineEvent, IsMark, IsError
<1>2. /\ m \in {s[i].line - 1, s[i].line}
      /\ NolintEvents(c.raw_lines, m) = <<MarkAt(c, m)>>
  BY <1>1, AwaitedMark DEF Awaits
<1>3. CASE s[i].line \in Int /\ s[i].line <= ln
  BY <1>2, <1>3
<1>4. CASE MarksAreBefore(s, i, c)
  BY <1>2, <1>4 DEF MarksAreBefore
<1>5. CASE s[i].category \in FoundBeforeTheLines /\ OwnMarkIsBefore(s, i, c)
  <2>1. NolintEvents(c.lines_without_raw_strings, s[i].line) = <<MarkAt(c, m)>>
    BY <1>2, <1>5 DEF Awaits, IsInRawString
  <2> QED
    BY <1>5, <2>1 DEF OwnMarkIsBefore
<1> QED
  BY <1>1, <1>3, <1>4, <1>5 DEF IsLineEvent, IsMark, Awaits

\* What is found before the first line waits for no mark: the marker is none.
LEMMA OpenFileKeepsSilence ==
    ASSUME LintInv, SilenceInv, OpenFile
    PROVE  SilenceInv'
<1>1. AreLines(File.lines) /\ verboseLevel \in Nat
  BY JobType DEF OpenFile, LintInv, RunInv
<1>2. /\ IsClean(clean') /\ clean'.raw_lines[1] = Marker
      /\ LineEvents(pending', clean', 1, verboseLevel)
  BY <1>1, OpenFileEvents
<1>3. /\ phase = "read" /\ phase' = "lines" /\ position' = 1
      /\ printed' = printed /\ file' = file
  BY DEF OpenFile
<1>4. ASSUME NEW i \in DOMAIN pending', pending'[i].kind = "error",
             NEW m, Awaits(clean', pending'[i], m)
      PROVE  IsBefore(MarkAt(clean', m), pending', i)
  <2>1. pending'[i].category \in ErrorCategories
    BY <1>2, <1>4 DEF LineEvents, IsLineEvent, IsMark, IsError
  <2>2. m \in DOMAIN clean'.raw_lines /\ NolintEvents(clean'.raw_lines, m) # <<>>
    <3>1. PICK c, e : c = clean' /\ e = pending'[i]
      OBVIOUS
    <3>2. m \in MarksIn(c, e.line, e.category) /\ e.category \in ErrorCategories
      BY <1>4, <2>1, <3>1 DEF Awaits
    <3>3. m \in DOMAIN c.raw_lines /\ IsKnownMark(c, m)
      BY <3>2, AwaitedMark
    <3> QED
      BY <3>1, <3>3 DEF IsKnownMark
  <2>3. m \in Int /\ IsSequence(clean'.raw_lines)
    BY <1>2, <2>2, SequenceFacts DEF IsClean, AreLines
  <2>4. ~(m <= 1)
    BY <1>2, <2>2, <2>3, MarkerHasNoMark
  <2> QED
    BY <1>2, <1>4, <2>3, <2>4, AwaitedMarkIsRead
<1>5. \A i \in DOMAIN printed' : IsNotSilenced(clean', file', printed'[i])
  BY <1>3 DEF SilenceInv, IsNotSilenced
<1> QED
  BY <1>3, <1>4, <1>5 DEF SilenceInv

\* The mark of a line is the first thing its check reads, and those of the lines before
\* it are read.
LEMMA ProcessLineKeepsSilence ==
    ASSUME LintInv, SilenceInv, ProcessLine
    PROVE  SilenceInv'
<1>1. position \in Nat \ {0}
  BY DEF LintInv, FileInv
<1>2. /\ position \in 1 .. Len(clean.raw_lines)
      /\ LineEvents(pending', clean, position, verboseLevel)
      /\ StartsWith(pending', NolintEvents(clean.raw_lines, position))
  BY <1>1, ProcessLineEvents DEF LintInv, FileInv, RunInv
<1>3. /\ pending = <<>> /\ position' = position + 1 /\ phase = "lines"
      /\ UNCHANGED <<reportVars, clean, phase, file>>
  BY DEF ProcessLine
<1>4. \A m \in 1 .. position - 1 :
            IsKnownMark(clean, m) => SuppressionOf(MarkAt(clean, m)) \in suppressions
  BY <1>3, ShortSequences DEF SilenceInv
<1>5. IsKnownMark(clean, position) =>
            /\ 1 \in DOMAIN pending' /\ pending'[1] = MarkAt(clean, position)
            /\ MarkAt(clean, position).kind = "nolint"
  <2> SUFFICES ASSUME IsKnownMark(clean, position)
               PROVE  /\ 1 \in DOMAIN pending' /\ pending'[1] = MarkAt(clean, position)
                      /\ MarkAt(clean, position).kind = "nolint"
    OBVIOUS
  <2>1. PICK events : events = NolintEvents(clean.raw_lines, position)
    OBVIOUS
  <2>2. PICK e : events = <<e>> /\ e.kind = "nolint"
    BY <2>1, NolintEventsType DEF IsKnownMark
  <2>3. MarkAt(clean, position) = e
    BY <2>1, <2>2 DEF MarkAt
  <2>4. 1 \in DOMAIN pending' /\ pending'[1] = e
    BY <1>2, <2>1, <2>2 DEF StartsWith
  <2> QED
    BY <2>2, <2>3, <2>4
<1>6. ASSUME NEW m \in 1 .. position' - 1, IsKnownMark(clean', m)
      PROVE  \/ SuppressionOf(MarkAt(clean', m)) \in suppressions'
             \/ \E j \in DOMAIN pending' : pending'[j] = MarkAt(clean', m)
  <2>1. m \in 1 .. position - 1 \/ m = position
    BY <1>1, <1>3
  <2>2. clean' = clean /\ suppressions' = suppressions
    BY <1>3 DEF reportVars
  <2> QED
    BY <1>4, <1>5, <1>6, <2>1, <2>2
<1>7. ASSUME NEW i \in DOMAIN pending', pending'[i].kind = "error",
             NEW m, Awaits(clean', pending'[i], m)
      PROVE  \/ SuppressionOf(MarkAt(clean', m)) \in suppressions'
             \/ IsBefore(MarkAt(clean', m), pending', i)
  <2>1. clean' = clean /\ suppressions' = suppressions
    BY <1>3 DEF reportVars
  <2>2. pending'[i].category \in ErrorCategories
    BY <1>2, <1>7 DEF LineEvents, IsLineEvent, IsMark, IsError
  <2>3. m \in DOMAIN clean.raw_lines /\ IsKnownMark(clean, m)
    BY <1>7, <2>1, <2>2, AwaitedMark DEF Awaits
  <2>4. m \in Nat \ {0}
    BY <2>3, SequenceFacts DEF LintInv, FileInv, IsClean, AreLines
  <2>5. m <= position \/ IsBefore(MarkAt(clean, m), pending', i)
    BY <1>1, <1>2, <1>7, <2>1, <2>4, AwaitedMarkIsRead
  <2>6. CASE m <= position - 1
    BY <1>1, <1>4, <2>1, <2>3, <2>4, <2>6
  <2>7. CASE m = position
    <3>1. i # 1
      BY <1>5, <1>7, <2>3, <2>7
    <3>2. i \in Nat \ {0}
      BY <1>2, SequenceFacts DEF LineEvents
    <3>3. 1 \in 1 .. i - 1
      BY <3>1, <3>2
    <3> QED
      BY <1>5, <2>1, <2>3, <2>7, <3>3 DEF IsBefore
  <2> QED
    BY <1>1, <2>1, <2>4, <2>5, <2>6, <2>7
<1>8. \A i \in DOMAIN printed' : IsNotSilenced(clean', file', printed'[i])
  BY <1>3 DEF SilenceInv, reportVars
<1> QED
  BY <1>3, <1>6, <1>7, <1>8 DEF SilenceInv

\* After the last line all marks are read.
LEMMA FinishLinesKeepsSilence ==
    ASSUME LintInv, SilenceInv, FinishLines
    PROVE  SilenceInv'
<1>1. /\ pending = <<>> /\ position > Len(clean.raw_lines) /\ phase' = "restore"
      /\ UNCHANGED <<reportVars, fileVars, file, position>>
  BY DEF FinishLines
<1>2. /\ AreErrors(pending', verboseLevel)
  BY JobType, FinishLinesEvents DEF FinishLines, LintInv, RunInv, FileInv
<1>3. \A m \in 1 .. position - 1 :
            IsKnownMark(clean, m) => SuppressionOf(MarkAt(clean, m)) \in suppressions
  BY <1>1, ShortSequences DEF SilenceInv
<1>4. ASSUME NEW i \in DOMAIN pending', NEW m, Awaits(clean, pending'[i], m)
      PROVE  SuppressionOf(MarkAt(clean, m)) \in suppressions
  <2>1. pending'[i].category \in ErrorCategories
    BY <1>2 DEF AreErrors, IsError
  <2>2. m \in DOMAIN clean.raw_lines /\ IsKnownMark(clean, m)
    BY <1>4, <2>1, AwaitedMark DEF Awaits
  <2>3. DOMAIN clean.raw_lines = 1 .. Len(clean.raw_lines) /\ Len(clean.raw_lines) \in Nat
    BY SequenceFacts DEF LintInv, FileInv, IsClean, AreLines
  <2>4. m \in 1 .. position - 1
    BY <1>1, <2>2, <2>3 DEF LintInv, FileInv
  <2> QED
    BY <1>3, <2>2, <2>4
<1>5. clean' = clean /\ suppressions' = suppressions /\ printed' = printed
  BY <1>1 DEF reportVars, fileVars
<1> QED
  BY <1>1, <1>3, <1>4, <1>5 DEF SilenceInv

\* The mark at the head of what is left to do is read.
LEMMA HeadIsRead ==
    ASSUME Report, NEW m, IsKnownMark(clean, m), Head(pending) = MarkAt(clean, m)
    PROVE  SuppressionOf(MarkAt(clean, m)) \in suppressions'
<1>1. PICK e : e = Head(pending)
  OBVIOUS
<1>2. e.kind = "nolint"
  <2>1. PICK events : events = NolintEvents(clean.raw_lines, m)
    OBVIOUS
  <2>2. PICK x : events = <<x>> /\ x.kind = "nolint"
    BY <2>1, NolintEventsType DEF IsKnownMark
  <2> QED
    BY <1>1, <2>1, <2>2 DEF MarkAt
<1>3. ParseNolintSuppressions(file, e)
  BY <1>1, <1>2 DEF Report, Handle
<1> QED
  BY <1>1, <1>3 DEF ParseNolintSuppressions, IsKnownMark

\* An error that is logged is one no mark holds back, or one that may be.
LEMMA LoggedIsNotSilenced ==
    ASSUME SilenceInv, IsClean(clean), NEW e, NEW p,
           \/ /\ e.kind = "error" /\ 1 \in DOMAIN pending /\ e = pending[1]
              /\ e.category \in ErrorCategories
              /\ p.line = e.line /\ p.category = e.category
              /\ ~IsErrorSuppressedByNolint(e.category, e.line)
           \/ /\ IsMark(e, clean) /\ p.line = e.line /\ p.category = UnknownNolint
              /\ Nolints[e.mark].category \notin ErrorCategories \cup {AllCategories}
    PROVE  IsNotSilenced(clean, file, p)
<1> SUFFICES ASSUME MarksIn(clean, p.line, p.category) # {}, p.category \notin FoundEarly
             PROVE  /\ p.category \in FoundBeforeTheLines
                    /\ \/ p.line \notin MarksIn(clean, p.line, p.category)
                       \/ IsInRawString(clean, p.line)
  BY DEF IsNotSilenced
<1>1. ASSUME e.kind = "error", 1 \in DOMAIN pending, e = pending[1],
             e.category \in ErrorCategories, p.line = e.line, p.category = e.category,
             ~IsErrorSuppressedByNolint(e.category, e.line),
             NEW m, Awaits(clean, e, m)
      PROVE  FALSE
  <2>1. ~IsBefore(MarkAt(clean, m), pending, 1)
    BY DEF IsBefore
  <2>2. SuppressionOf(MarkAt(clean, m)) \in suppressions
    BY <1>1, <2>1 DEF SilenceInv
  <2>3. SuppressionOf(MarkAt(clean, m)) \in {<<e.category, e.line>>, <<AllCategories, e.line>>}
    BY <1>1, AwaitedMark DEF Awaits
  <2> QED
    BY <1>1, <2>2, <2>3 DEF IsErrorSuppressedByNolint
<1>2. CASE IsMark(e, clean) /\ p.line = e.line /\ p.category = UnknownNolint
           /\ Nolints[e.mark].category \notin ErrorCategories \cup {AllCategories}
  <2>1. UnknownNolint \in FoundBeforeTheLines /\ UnknownNolint \in ErrorCategories
    BY PlainCategory DEF FoundBeforeTheLines, PlainCategories, UnknownNolint
  <2>2. ASSUME ~IsInRawString(clean, p.line), p.line \in MarksIn(clean, p.line, p.category)
        PROVE  FALSE
    <3>1. NolintEvents(clean.raw_lines, e.line) = <<e>>
      BY <1>2, <2>2 DEF IsInRawString, IsMark
    <3>2. MarkAt(clean, e.line) = e
      BY <3>1 DEF MarkAt
    <3>3. e.line \in MarksIn(clean, p.line, p.category) /\ p.category \in ErrorCategories
      BY <1>2, <2>1, <2>2
    <3>4. IsKnownMark(clean, e.line)
      BY <3>3, AwaitedMark
    <3> QED
      BY <1>2, <3>2, <3>4 DEF IsKnownMark
  <2> QED
    BY <1>2, <2>1, <2>2
<1>3. CASE /\ e.kind = "error" /\ 1 \in DOMAIN pending /\ e = pending[1]
           /\ e.category \in ErrorCategories
           /\ p.line = e.line /\ p.category = e.category
           /\ ~IsErrorSuppressedByNolint(e.category, e.line)
  <2>1. PICK m : m \in MarksIn(clean, e.line, e.category)
    BY <1>3
  <2>2. p.category \in FoundBeforeTheLines
    BY <1>1, <1>3, <2>1 DEF Awaits
  <2>3. ASSUME ~IsInRawString(clean, p.line), p.line \in MarksIn(clean, p.line, p.category)
        PROVE  FALSE
    <3>1. Awaits(clean, e, e.line)
      BY <1>3, <2>3 DEF Awaits
    <3> QED
      BY <1>1, <1>3, <3>1
  <2> QED
    BY <2>2, <2>3
<1> QED
  BY <1>2, <1>3

\* An event less: the mark at the head is now read, and an error at the head waits for none.
LEMMA ReportKeepsSilence ==
    ASSUME LintInv, SilenceInv, Report
    PROVE  SilenceInv'
<1>1. /\ pending # <<>> /\ pending' = Tail(pending) /\ Handle(file, Head(pending))
      /\ UNCHANGED <<fileVars, phase, file, position>>
      /\ IsClean(clean) /\ clean' = clean
  BY DEF Report, fileVars, LintInv, FileInv
<1>2. PICK e, n : e = Head(pending) /\ n = Len(pending)
  OBVIOUS
<1>3. /\ n \in Nat \ {0} /\ DOMAIN pending = 1 .. n /\ DOMAIN pending' = 1 .. n - 1
      /\ \A i \in 1 .. n - 1 : pending'[i] = pending[i + 1]
      /\ e = pending[1] /\ 1 \in DOMAIN pending
  BY <1>1, <1>2, SequenceFacts, SequenceTail DEF LintInv, EventsInv
<1>4. suppressions \subseteq suppressions'
  BY <1>1 DEF Handle, ParseNolintSuppressions
<1>5. \A m : IsKnownMark(clean, m) /\ pending[1] = MarkAt(clean, m) =>
                SuppressionOf(MarkAt(clean, m)) \in suppressions'
  BY <1>2, <1>3, HeadIsRead
<1>6. ASSUME NEW m \in 1 .. position - 1, IsKnownMark(clean, m)
      PROVE  \/ SuppressionOf(MarkAt(clean, m)) \in suppressions'
             \/ \E j \in DOMAIN pending' : pending'[j] = MarkAt(clean, m)
  <2>1. CASE SuppressionOf(MarkAt(clean, m)) \in suppressions
    BY <1>4, <2>1
  <2>2. ASSUME NEW j \in DOMAIN pending, pending[j] = MarkAt(clean, m)
        PROVE  \/ SuppressionOf(MarkAt(clean, m)) \in suppressions'
               \/ \E k \in DOMAIN pending' : pending'[k] = MarkAt(clean, m)
    <3>1. CASE j = 1
      BY <1>5, <1>6, <2>2, <3>1
    <3>2. CASE j # 1
      <4>1. j - 1 \in 1 .. n - 1 /\ (j - 1) + 1 = j
        BY <1>3, <3>2
      <4>2. pending'[j - 1] = pending[j] /\ j - 1 \in DOMAIN pending'
        BY <1>3, <4>1
      <4> QED
        BY <2>2, <4>2
    <3> QED
      BY <3>1, <3>2
  <2> QED
    BY <1>6, <2>1, <2>2 DEF SilenceInv
<1>7. ASSUME NEW i \in DOMAIN pending', pending'[i].kind = "error",
             NEW m, Awaits(clean, pending'[i], m)
      PROVE  \/ SuppressionOf(MarkAt(clean, m)) \in suppressions'
             \/ IsBefore(MarkAt(clean, m), pending', i)
  <2>1. i \in Nat \ {0} /\ i + 1 \in DOMAIN pending /\ pending'[i] = pending[i + 1]
    BY <1>3
  <2>2. IsKnownMark(clean, m)
    <3>1. pending[i + 1].category \in ErrorCategories
      BY <1>7, <2>1 DEF LintInv, EventsInv, IsMark, IsError
    <3> QED
      BY <1>7, <2>1, <3>1, AwaitedMark DEF Awaits
  <2>3. CASE SuppressionOf(MarkAt(clean, m)) \in suppressions
    BY <1>4, <2>3
  <2>4. CASE IsBefore(MarkAt(clean, m), pending, i + 1)
    <3>1. PICK j \in 1 .. i : pending[j] = MarkAt(clean, m)
      BY <2>1, <2>4 DEF IsBefore
    <3>2. CASE j = 1
      BY <1>5, <2>2, <3>1, <3>2
    <3>3. CASE j # 1
      <4>1. PICK k : k = j - 1
        OBVIOUS
      <4>2. k \in 1 .. i - 1 /\ k \in 1 .. n - 1 /\ k + 1 = j
        BY <1>3, <2>1, <3>3, <4>1
      <4>3. pending'[k] = MarkAt(clean, m)
        BY <1>3, <3>1, <4>2
      <4> QED
        BY <4>2, <4>3 DEF IsBefore
    <3> QED
      BY <3>2, <3>3
  <2> QED
    BY <1>7, <2>1, <2>3, <2>4 DEF SilenceInv
<1>8. \A i \in DOMAIN printed' : IsNotSilenced(clean, file, printed'[i])
  <2>1. \/ printed' = printed
        \/ \E p : printed' = Append(printed, p) /\ IsNotSilenced(clean, file, p)
    <3>1. CASE e.kind = "error"
      <4>1. LogError(file, e.line, e.category, e.confidence) /\ e.category \in ErrorCategories
        BY <1>1, <1>2, <1>3, <3>1 DEF Handle, LintInv, EventsInv, IsMark, IsError
      <4>2. CASE ShouldPrintError(e.category, e.confidence, e.line)
        <5>1. PICK p : p = [file |-> file, line |-> e.line, category |-> e.category,
                            confidence |-> e.confidence]
          OBVIOUS
        <5>2. printed' = Append(printed, p) /\ p.line = e.line /\ p.category = e.category
          BY <4>1, <4>2, <5>1 DEF LogError
        <5>3. ~IsErrorSuppressedByNolint(e.category, e.line)
          BY <4>2 DEF ShouldPrintError
        <5> QED
          BY <1>1, <1>3, <3>1, <4>1, <5>2, <5>3, LoggedIsNotSilenced
      <4>3. CASE ~ShouldPrintError(e.category, e.confidence, e.line)
        BY <4>1, <4>3 DEF LogError
      <4> QED
        BY <4>2, <4>3
    <3>2. CASE e.kind = "nolint"
      <4>1. ParseNolintSuppressions(file, e) /\ IsMark(e, clean)
        BY <1>1, <1>2, <1>3, <3>2 DEF Handle, LintInv, EventsInv, IsError
      <4>2. \/ printed' = printed
            \/ /\ Nolints[e.mark].category \notin ErrorCategories \cup {AllCategories}
               /\ LogError(file, e.line, UnknownNolint, 5)
        BY <4>1 DEF ParseNolintSuppressions
      <4>3. ASSUME Nolints[e.mark].category \notin ErrorCategories \cup {AllCategories},
                   LogError(file, e.line, UnknownNolint, 5), printed' # printed
            PROVE  \E p : printed' = Append(printed, p) /\ IsNotSilenced(clean, file, p)
        <5>1. PICK p : p = [file |-> file, line |-> e.line, category |-> UnknownNolint,
                            confidence |-> 5]
          OBVIOUS
        <5>2. printed' = Append(printed, p) /\ p.line = e.line /\ p.category = UnknownNolint
          BY <4>3, <5>1 DEF LogError
        <5> QED
          BY <1>1, <4>1, <4>3, <5>2, LoggedIsNotSilenced
      <4> QED
        BY <4>2, <4>3
    <3> QED
      BY <1>1, <1>2, <3>1, <3>2 DEF Handle
  <2>2. ASSUME NEW p, printed' = Append(printed, p), IsNotSilenced(clean, file, p)
        PROVE  \A i \in DOMAIN printed' : IsNotSilenced(clean, file, printed'[i])
    <3>1. IsSequence(printed)
      BY DEF LintInv, EventsInv
    <3>2. PICK l : l = Len(printed)
      OBVIOUS
    <3>3. /\ l \in Nat /\ DOMAIN printed = 1 .. l /\ DOMAIN printed' = 1 .. l + 1
          /\ \A i \in 1 .. l : printed'[i] = printed[i]
          /\ printed'[l + 1] = p
      BY <2>2, <3>1, <3>2, SequenceFacts, SequenceAppend
    <3> QED
      BY <2>2, <3>3 DEF SilenceInv
  <2> QED
    BY <2>1, <2>2 DEF SilenceInv
<1>9. phase \notin {"arguments", "start", "read"}
  BY <1>1 DEF LintInv, EventsInv
<1> QED
  BY <1>1, <1>6, <1>7, <1>8, <1>9 DEF SilenceInv

\* What was reported is of an earlier file once the next one starts.
LEMMA OtherStepsKeepSilence ==
    ASSUME LintInv, SilenceInv,
           \/ ParseArguments \/ Exit \/ StartFile \/ SkipFile \/ EndFile \/ UNCHANGED vars
    PROVE  SilenceInv'
<1>1. CASE ParseArguments \/ Exit \/ StartFile \/ SkipFile \/ UNCHANGED vars
  <2>1. UNCHANGED <<fileVars, file, position, pending, suppressions, printed>>
    BY <1>1 DEF ParseArguments, Exit, StartFile, SkipFile, vars, reportVars
  <2>2. phase' \in {"arguments", "start", "read"} => phase \in {"arguments", "start", "read"}
    BY <1>1 DEF ParseArguments, Exit, StartFile, SkipFile, vars
  <2> QED
    BY <2>1, <2>2 DEF SilenceInv, fileVars
<1>2. CASE EndFile
  <2>1. /\ pending = <<>> /\ pending' = <<>> /\ file' = file + 1
        /\ UNCHANGED <<fileVars, position, suppressions, printed>>
    BY <1>2 DEF EndFile
  <2>2. \A i \in DOMAIN printed : printed[i].file # file'
    <3>1. file \in Nat \ {0}
      BY FileType DEF LintInv
    <3> QED
      BY <2>1, <3>1 DEF LintInv, EventsInv
  <2>3. \A i \in DOMAIN printed : IsNotSilenced(clean, file', printed[i])
    BY <2>2 DEF IsNotSilenced
  <2> QED
    BY <2>1, <2>2, <2>3, ShortSequences DEF SilenceInv, fileVars
<1> QED
  BY <1>1, <1>2

\* All steps.
LEMMA StepKeepsSilence ==
    ASSUME LintInv, SilenceInv, [Next]_vars
    PROVE  SilenceInv'
BY OpenFileKeepsSilence, ProcessLineKeepsSilence, FinishLinesKeepsSilence, ReportKeepsSilence,
   OtherStepsKeepSilence DEF Next, Ended

\* A NOLINT mark silences the errors of its line.
THEOREM NolintAlwaysSilencesItsLine == Spec => []NolintSilencesItsLine
<1>1. Init => SilenceInv
  <2> SUFFICES ASSUME Init PROVE SilenceInv
    OBVIOUS
  <2>1. position = 1 /\ pending = <<>> /\ printed = <<>>
    BY DEF Init, InitReport
  <2> QED
    BY <2>1, ShortSequences DEF SilenceInv
<1> QED
  BY <1>1, InitHasTypes, StepKeepsTypes, StepKeepsSilence, SilenceInvSaysSo, PTL DEF Spec

-----------------------------------------------------------------------------
(* Comments in elided lines.                                               *)

\* One more token in a text: the beginning stays, and its count grows by one if the
\* token is the one that is counted.
LEMMA CountAppend ==
    ASSUME NEW s, IsSequence(s), NEW t, NEW token
    PROVE  /\ CountOf(token, s) \in Nat
           /\ CountOf(token, Append(s, t)) = CountOf(token, s) + IF t = token THEN 1 ELSE 0
<1> DEFINE n == Len(s)
           at == {i \in DOMAIN s : s[i] = token}
           u == Append(s, t)
           more == {i \in DOMAIN u : u[i] = token}
<1>1. /\ n \in Nat /\ DOMAIN s = 1 .. n /\ DOMAIN u = 1 .. n + 1
      /\ \A i \in 1 .. n : u[i] = s[i]
      /\ u[n + 1] = t
  BY SequenceFacts, SequenceAppend
<1>2. CountOf(token, s) = Cardinality(at) /\ CountOf(token, u) = Cardinality(more)
  BY DEF CountOf
<1>3. more = at \cup IF t = token THEN {n + 1} ELSE {}
  <2> HIDE DEF u
  <2> QED
    BY <1>1
<1>4. n + 1 \notin at /\ at \subseteq 1 .. n
  BY <1>1
<1> HIDE DEF u, at, more, n
<1>5. IsFiniteSet(at)
  <2>1. n \in Int /\ 1 \in Int
    BY <1>1
  <2> QED
    BY <1>4, <2>1, FS_Interval, FS_Subset
<1>6. Cardinality(at) \in Nat
  BY <1>5, FS_CardinalityType
<1>7. Cardinality(at \cup {n + 1}) = Cardinality(at) + 1
  BY <1>4, <1>5, FS_AddElement
<1>8. CASE t = token
  BY <1>2, <1>3, <1>6, <1>7, <1>8 DEF u
<1>9. CASE t # token
  <2>1. more = at
    BY <1>3, <1>9
  <2> QED
    BY <1>2, <1>6, <1>9, <2>1 DEF u
<1> QED
  BY <1>8, <1>9

\* Only a quote begins or ends a string.
LEMMA StringAppend ==
    ASSUME NEW s, IsSequence(s), NEW t
    PROVE  IsCppString(Append(s, t)) <=> IF t = Quote THEN ~IsCppString(s) ELSE IsCppString(s)
<1>1. PICK m, k : m = CountOf(Quote, s) /\ k = CountOf(Quote, Append(s, t))
  OBVIOUS
<1>2. m \in Nat /\ k = m + IF t = Quote THEN 1 ELSE 0
  BY <1>1, CountAppend
<1>3. (IsCppString(s) <=> m % 2 = 1) /\ (IsCppString(Append(s, t)) <=> k % 2 = 1)
  BY <1>1 DEF IsCppString
<1>4. (m + 1) % 2 = 1 <=> m % 2 # 1
  BY <1>2
<1>5. CASE t = Quote
  <2>1. k = m + 1
    BY <1>2, <1>5
  <2> QED
    BY <1>3, <1>4, <1>5, <2>1
<1>6. CASE t # Quote
  <2>1. k = m
    BY <1>2, <1>6
  <2> QED
    BY <1>3, <1>6, <2>1
<1> QED
  BY <1>5, <1>6

\* The beginnings of a text and of one that is longer by a token.
LEMMA UptoAppend ==
    ASSUME NEW s, IsSequence(s), NEW t, NEW i \in 0 .. Len(s)
    PROVE  Upto(Append(s, t), i) = Upto(s, i)
<1>1. PICK n, u : n = Len(s) /\ u = Append(s, t)
  OBVIOUS
<1>2. /\ n \in Nat /\ DOMAIN s = 1 .. n
      /\ \A k \in 1 .. n : u[k] = s[k]
  BY <1>1, SequenceFacts, SequenceAppend
<1>3. Upto(u, i) = [k \in 1 .. i |-> u[k]] /\ Upto(s, i) = [k \in 1 .. i |-> s[k]]
  <2>1. i \in Int /\ i - 1 + 1 = i
    BY <1>1, <1>2
  <2> QED
    BY <1>1, <1>2, <2>1 DEF Upto
<1> QED
  BY <1>1, <1>2, <1>3

\* All of a text, and a beginning with one more token.
LEMMA UptoNext ==
    ASSUME NEW s, IsSequence(s)
    PROVE  /\ Upto(s, Len(s)) = s /\ Upto(s, 0) = <<>>
           /\ \A i \in 0 .. Len(s) - 1 : Upto(s, i + 1) = Append(Upto(s, i), s[i + 1])
<1>1. PICK S : S = Range(s) /\ s \in Seq(S)
  BY DEF IsSequence
<1>2. Upto(s, Len(s)) = s /\ Upto(s, 0) = <<>>
  BY <1>1 DEF Upto
<1>3. ASSUME NEW i \in 0 .. Len(s) - 1 PROVE Upto(s, i + 1) = Append(Upto(s, i), s[i + 1])
  BY <1>1 DEF Upto
<1> QED
  BY <1>2, <1>3

\* No // of a text stands in a string.
OutsideStrings(s) == \A p \in DOMAIN s : s[p] = "//" => ~IsCppString(Upto(s, p - 1))

\* A token more is outside when the text before it is.
LEMMA OutsideAppend ==
    ASSUME NEW s, IsSequence(s), OutsideStrings(s), NEW t, t = "//" => ~IsCppString(s)
    PROVE  OutsideStrings(Append(s, t))
<1>1. PICK n, u : n = Len(s) /\ u = Append(s, t)
  OBVIOUS
<1>2. /\ n \in Nat /\ DOMAIN s = 1 .. n /\ DOMAIN u = 1 .. n + 1
      /\ \A k \in 1 .. n : u[k] = s[k]
      /\ u[n + 1] = t
  BY <1>1, SequenceFacts, SequenceAppend
<1>3. ASSUME NEW p \in 1 .. n + 1, u[p] = "//" PROVE ~IsCppString(Upto(u, p - 1))
  <2>1. p - 1 \in 0 .. n
    BY <1>2
  <2>2. Upto(u, p - 1) = Upto(s, p - 1)
    BY <1>1, <2>1, UptoAppend
  <2>3. CASE p <= n
    BY <1>2, <1>3, <2>2, <2>3 DEF OutsideStrings
  <2>4. CASE p = n + 1
    <3>1. u[p] = t /\ p - 1 = n
      BY <1>2, <2>4
    <3>2. Upto(s, n) = s
      BY <1>1, UptoNext
    <3> QED
      BY <1>3, <2>2, <3>1, <3>2
  <2> QED
    BY <1>2, <2>3, <2>4
<1> QED
  BY <1>1, <1>2, <1>3 DEF OutsideStrings

\* Collapsing the strings of a line whose quotes are paired leaves only what is outside
\* of them (CollapseStrings).
LEMMA CollapsedIsOutside ==
    ASSUME NEW text, IsSequence(text), ~IsCppString(text),
           ~(text # <<>> /\ text[1] = "#include")
    PROVE  OutsideStrings(CollapseStrings(text))
<1> DEFINE n == Len(text)
           unmatched == IF IsCppString(text)
                        THEN SelectLastInSeq(text, LAMBDA t : t = Quote)
                        ELSE n + 1
           kept == {i \in DOMAIN text :
                       \/ text[i] = Quote
                       \/ i > unmatched
                       \/ ~IsCppString(Upto(text, i))}
           parts == [i \in DOMAIN text |-> IF i \in kept THEN <<text[i]>> ELSE <<>>]
           S == Range(text)
           Done(i) == SubSeq(parts, 1, i)
           IsDone(i) == LET f == FlattenSeq(Done(i))
                        IN  /\ f \in Seq(S) /\ OutsideStrings(f)
                            /\ IsCppString(f) <=> IsCppString(Upto(text, i))
           T == {i \in Nat : i <= n => IsDone(i)}
<1>1. CollapseStrings(text)
        = IF text # <<>> /\ text[1] = "#include" THEN text ELSE FlattenSeq(parts)
  BY Zenon DEF CollapseStrings
<1>2. n \in Nat /\ DOMAIN text = 1 .. n
  BY SequenceFacts
<1>3. \A i \in 1 .. n : i \in kept <=> text[i] = Quote \/ ~IsCppString(Upto(text, i))
  BY <1>2
<1> HIDE DEF kept
<1>4. \A i \in 1 .. n : text[i] \in S
  BY <1>2 DEF Range
<1> HIDE DEF S
<1>5. \A i \in 1 .. n : parts[i] = IF i \in kept THEN <<text[i]>> ELSE <<>>
  BY <1>2
<1>6. parts \in Seq(Seq(S)) /\ Len(parts) = n
  <2>1. parts \in [1 .. n -> Seq(S)]
    BY <1>2, <1>4
  <2> HIDE DEF parts, n
  <2> QED
    BY <1>2, <2>1
<1> HIDE DEF parts
<1>7. Done(0) = <<>> /\ Done(n) = parts
  BY <1>2, <1>6
<1>8. ASSUME NEW i \in 0 .. n - 1
      PROVE  Done(i) \in Seq(Seq(S)) /\ Done(i + 1) = Append(Done(i), parts[i + 1])
  BY <1>2, <1>6
<1> HIDE DEF Done, n
<1>9. 0 \in T
  <2>1. FlattenSeq(Done(0)) = <<>> /\ Upto(text, 0) = <<>>
    BY <1>7, FlattenSeqOfNone, UptoNext
  <2>2. OutsideStrings(<<>>) /\ <<>> \in Seq(S)
    BY ShortSequences DEF OutsideStrings
  <2> QED
    BY <2>1, <2>2
<1>10. ASSUME NEW i \in Nat, i \in T PROVE i + 1 \in T
  <2> SUFFICES ASSUME i + 1 <= n PROVE IsDone(i + 1)
    OBVIOUS
  <2>1. PICK f, t, before, k :
            f = FlattenSeq(Done(i)) /\ t = text[i + 1] /\ before = Upto(text, i) /\ k = i + 1
    OBVIOUS
  <2>2. i \in 0 .. n - 1 /\ k \in 1 .. n /\ i <= n
    BY <1>2, <2>1
  <2>3. f \in Seq(S) /\ OutsideStrings(f) /\ (IsCppString(f) <=> IsCppString(before))
    BY <1>10, <2>1, <2>2
  <2>4. IsSequence(f) /\ IsSequence(before)
    <3>1. i \in Int /\ i <= Len(text)
      BY <2>2 DEF n
    <3> QED
      BY <2>1, <2>3, <3>1, SequenceOver, FromUptoType
  <2>5. Upto(text, k) = Append(before, t)
    BY <2>1, <2>2, UptoNext DEF n
  <2>6. IsCppString(Upto(text, k)) <=> IF t = Quote THEN ~IsCppString(before) ELSE IsCppString(before)
    BY <2>4, <2>5, StringAppend
  <2>7. k \in kept <=> t = Quote \/ ~IsCppString(Upto(text, k))
    BY <1>3, <2>1, <2>2
  <2>8. Done(k) = Append(Done(i), parts[k]) /\ Done(i) \in Seq(Seq(S)) /\ parts[k] \in Seq(S)
    <3>1. parts[k] \in Seq(S)
      BY <1>2, <1>6, <2>2
    <3> QED
      BY <1>8, <2>1, <2>2, <3>1
  <2>9. FlattenSeq(Done(k)) = f \o parts[k]
    BY <2>1, <2>8, FlattenSeqAppend
  <2>10. CASE k \in kept
    <3>1. parts[k] = <<t>> /\ t \in S
      BY <1>4, <1>5, <2>1, <2>2, <2>10
    <3>2. f \o <<t>> = Append(f, t) /\ Append(f, t) \in Seq(S)
      BY <2>3, <3>1
    <3>3. FlattenSeq(Done(k)) = Append(f, t)
      BY <2>9, <3>1, <3>2
    <3>4. IsCppString(Append(f, t)) <=> IF t = Quote THEN ~IsCppString(f) ELSE IsCppString(f)
      BY <2>4, StringAppend
    <3>5. t = "//" => t # Quote
      BY DEF Quote
    <3>6. t = "//" => ~IsCppString(f)
      BY <2>3, <2>6, <2>7, <2>10, <3>5
    <3>7. OutsideStrings(Append(f, t))
      BY <2>3, <2>4, <3>6, OutsideAppend
    <3> QED
      BY <2>1, <2>3, <2>6, <3>2, <3>3, <3>4, <3>7
  <2>11. CASE k \notin kept
    <3>1. parts[k] = <<>>
      BY <1>5, <2>2, <2>11
    <3>2. f \o <<>> = f
      BY <2>3
    <3>3. FlattenSeq(Done(k)) = f
      BY <2>9, <3>1, <3>2
    <3>4. IsCppString(f) <=> IsCppString(Upto(text, k))
      BY <2>3, <2>6, <2>7, <2>11
    <3> QED
      BY <2>1, <2>3, <3>3, <3>4
  <2> QED
    BY <2>10, <2>11
<1> HIDE DEF T
<1>11. n \in T
  BY <1>2, <1>9, <1>10, SetInduction
<1>12. OutsideStrings(FlattenSeq(parts))
  BY <1>7, <1>11 DEF T
<1> QED
  BY <1>1, <1>12

\* A comment that begins and ends in a text.
HasComment(s) == \E k, l \in DOMAIN s : k < l /\ s[k] = "/*" /\ s[l] = "*/"

\* Cutting a comment out of a text makes it shorter, leaves none but its tokens and, if
\* the text does not start with the comment, its beginning (CutComment).
LEMMA CutCommentShortens ==
    ASSUME NEW text, IsSequence(text), NEW u, u = CutComment(text)
    PROVE  /\ IsSequence(u)
           /\ ~HasComment(text) => u = text
           /\ HasComment(text) => Len(u) < Len(text)
           /\ \A p \in DOMAIN u : \E r \in DOMAIN text : u[p] = text[r]
           /\ text # <<>> /\ text[1] # "/*" => u # <<>> /\ u[1] = text[1]
<1> DEFINE Comment(p) == p[1] < p[2] /\ text[p[1]] = "/*" /\ text[p[2]] = "*/"
           pairs == {p \in (DOMAIN text) \X (DOMAIN text) : Comment(p)}
           IsFirst(p) == \A q \in pairs : p[1] < q[1] \/ (p[1] = q[1] /\ p[2] <= q[2])
           first == CHOOSE p \in pairs : IsFirst(p)
<1>1. PICK n : n = Len(text) /\ n \in Nat /\ DOMAIN text = 1 .. n
  BY SequenceFacts
<1>2. u = IF pairs = {} THEN text ELSE Upto(text, first[1] - 1) \o From(text, first[2] + 1)
  BY Zenon DEF CutComment
<1>3. pairs \in SUBSET ((1 .. n) \X (1 .. n))
  <2> HIDE DEF Comment
  <2> QED
    BY <1>1
<1>4. \A p \in pairs : Comment(p)
  OBVIOUS
<1>5. HasComment(text) <=> pairs # {}
  <2>1. ASSUME NEW k \in DOMAIN text, NEW l \in DOMAIN text,
               k < l, text[k] = "/*", text[l] = "*/"
        PROVE  pairs # {}
    <3>1. <<k, l>> \in pairs
      BY <2>1
    <3> QED
      BY <3>1
  <2>2. ASSUME NEW p \in pairs PROVE HasComment(text)
    <3>1. p[1] \in DOMAIN text /\ p[2] \in DOMAIN text
      BY <1>1, <1>3
    <3> QED
      BY <1>4, <3>1 DEF HasComment
  <2> QED
    BY <2>1, <2>2 DEF HasComment
<1>6. CASE pairs = {}
  <2>1. u = text
    BY <1>2, <1>6
  <2> QED
    BY SMTT(30), <1>5, <1>6, <2>1
<1>7. CASE pairs # {}
  <2>1. first \in pairs
    <3>1. \E p \in pairs : IsFirst(p)
      <4> HIDE DEF pairs
      <4> QED
        BY <1>1, <1>3, <1>7, FirstPair
    <3> HIDE DEF IsFirst, pairs
    <3> QED
      BY <3>1
  <2>2. PICK i, k : i = first[1] /\ k = first[2]
    OBVIOUS
  <2>3. i \in 1 .. n /\ k \in 1 .. n /\ i < k /\ text[i] = "/*"
    <3>1. Comment(first)
      BY <1>4, <2>1
    <3> HIDE DEF first, pairs
    <3> QED
      BY <1>3, <2>1, <2>2, <3>1, SMTT(30)
  <2> HIDE DEF first, pairs
  <2>4. PICK before, after : before = Upto(text, i - 1) /\ after = From(text, k + 1)
    OBVIOUS
  <2>5. u = before \o after
    BY <1>2, <1>7, <2>2, <2>4
  <2>6. /\ IsSequence(before) /\ IsSequence(after)
        /\ Len(before) = i - 1 /\ Len(after) = n - k
        /\ \A m \in 1 .. i - 1 : before[m] = text[m]
        /\ \A m \in 1 .. n - k : after[m] = text[k + m]
    <3>1. i - 1 \in 0 .. n /\ k + 1 \in 1 .. n + 1 /\ n + 1 - (k + 1) = n - k
      BY <1>1, <2>3
    <3>2. IsSequence(before) /\ IsSequence(after)
      BY <1>1, <2>4, <3>1, FromUptoType
    <3>3. Len(before) = i - 1 /\ \A m \in 1 .. i - 1 : before[m] = text[m]
      BY <1>1, <2>4, <3>1, PartsOfText
    <3>4. Len(after) = n - k /\ \A m \in 1 .. n - k : after[m] = text[k + 1 + m - 1]
      BY ZenonT(60), <1>1, <2>4, <3>1, PartsOfText
    <3>5. \A m \in 1 .. n - k : k + 1 + m - 1 = k + m
      BY <2>3
    <3> QED
      BY <3>2, <3>3, <3>4, <3>5
  <2>7. IsSequence(u) /\ Len(u) = (i - 1) + (n - k) /\ \A m \in 1 .. i - 1 : u[m] = before[m]
    <3>1. IsSequence(before) /\ IsSequence(after) /\ Len(before) = i - 1 /\ Len(after) = n - k
      BY <2>6
    <3>2. /\ IsSequence(before \o after)
          /\ Len(before \o after) = Len(before) + Len(after)
          /\ \A m \in 1 .. Len(before) : (before \o after)[m] = before[m]
      BY <3>1, SequenceConcat
    <3> QED
      BY <2>5, <3>1, <3>2
  <2>8. ASSUME NEW p \in DOMAIN u PROVE \E r \in DOMAIN text : u[p] = text[r]
    <3>1. \/ p \in DOMAIN before /\ u[p] = before[p]
          \/ \E m \in DOMAIN after : u[p] = after[m]
      <4>1. IsSequence(before) /\ IsSequence(after) /\ p \in DOMAIN (before \o after)
        BY <2>5, <2>6
      <4>2. \/ p \in DOMAIN before /\ (before \o after)[p] = before[p]
            \/ \E m \in DOMAIN after : p = Len(before) + m /\ (before \o after)[p] = after[m]
        BY <4>1, ConcatPositions
      <4> QED
        BY <2>5, <4>2
    <3>2. CASE p \in DOMAIN before /\ u[p] = before[p]
      <4>1. p \in 1 .. i - 1
        BY <2>6, <3>2, SequenceFacts
      <4> QED
        BY <1>1, <2>3, <2>6, <3>2, <4>1
    <3>3. CASE \E m \in DOMAIN after : u[p] = after[m]
      <4>1. PICK m \in DOMAIN after : u[p] = after[m]
        BY <3>3
      <4>2. m \in 1 .. n - k
        BY <2>6, SequenceFacts
      <4>3. k + m \in DOMAIN text
        BY <1>1, <2>3, <4>2
      <4> QED
        BY <2>6, <4>1, <4>2, <4>3
    <3> QED
      BY <3>1, <3>2, <3>3
  <2>9. ASSUME text[1] # "/*" PROVE u # <<>> /\ u[1] = text[1]
    <3>1. i # 1
      BY <2>3, <2>9
    <3>2. 1 \in 1 .. i - 1 /\ Len(u) # 0
      BY <1>1, <2>3, <2>7, <3>1
    <3> QED
      BY <2>6, <2>7, <3>2, ShortSequences
  <2>10. Len(u) < n
    BY <1>1, <2>3, <2>7
  <2> QED
    BY <1>1, <1>5, <1>7, <2>7, <2>8, <2>9, <2>10
<1> QED
  BY <1>6, <1>7

\* What the loop of CleanseComments comes to: after k turns on a text of n tokens no
\* comment is left, or the text is shorter by one for every turn.
IsCleansed(n, code, s, k) ==
    /\ IsSequence(s)
    /\ HasComment(s) => Len(s) <= n - k
    /\ \A p \in DOMAIN s : \E r \in DOMAIN code : s[p] = code[r]
    /\ code # <<>> /\ code[1] # "/*" => s # <<>> /\ s[1] = code[1]
CutAllLoop == INSTANCE SequenceLemmas WITH
    Step <- LAMBDA p, q, text, k : CutTurn(text),
    Holds <- LAMBDA p, q, text, k : IsCleansed(p, q, text, k)

LEMMA CutCommentCleanses ==
    ASSUME NEW n \in Nat, NEW code, NEW s, NEW k \in 1 .. n, IsCleansed(n, code, s, k - 1)
    PROVE  IsCleansed(n, code, CutTurn(s), k)
<1>1. CutTurn(s) = CutComment(s)
  BY DEF CutTurn, OfValue
<1>2. PICK u : u = CutComment(s)
  OBVIOUS
<1>3. IsSequence(s)
  BY DEF IsCleansed
<1>4. /\ IsSequence(u)
      /\ ~HasComment(s) => u = s
      /\ HasComment(s) => Len(u) < Len(s)
      /\ \A p \in DOMAIN u : \E r \in DOMAIN s : u[p] = s[r]
      /\ s # <<>> /\ s[1] # "/*" => u # <<>> /\ u[1] = s[1]
  BY <1>2, <1>3, CutCommentShortens
<1>5. Len(s) \in Nat /\ Len(u) \in Nat
  BY <1>3, <1>4, SequenceFacts
<1>6. HasComment(u) => Len(u) <= n - k
  BY <1>4, <1>5 DEF IsCleansed
<1>7. \A p \in DOMAIN u : \E r \in DOMAIN code : u[p] = code[r]
  BY <1>4 DEF IsCleansed
<1>8. code # <<>> /\ code[1] # "/*" => u # <<>> /\ u[1] = code[1]
  BY <1>4 DEF IsCleansed
<1> QED
  BY <1>1, <1>2, <1>4, <1>6, <1>7, <1>8 DEF IsCleansed

\* Without the comments of a text, no comment is left in it.
LEMMA IteratedCutCleanses ==
    ASSUME NEW code, IsSequence(code), NEW u, u = Iterate(CutComment, code, Len(code))
    PROVE  /\ ~HasComment(u)
           /\ \A p \in DOMAIN u : \E r \in DOMAIN code : u[p] = code[r]
           /\ code # <<>> /\ code[1] # "/*" => u # <<>> /\ u[1] = code[1]
<1> DEFINE n == Len(code)
           turns == [k \in 1 .. n |-> k]
<1>1. turns \in [1 .. n -> Nat] /\ n \in Nat
  BY SequenceFacts
<1>2. Len(turns) = n /\ DOMAIN turns = 1 .. n
  BY <1>1, SequenceFromFunction, SequenceFacts
<1>3. u = CutAllLoop!Loop(n, code, code, turns)
  <2>1. u = ForEach(LAMBDA x, k : CutComment(x), code, turns)
    BY DEF Iterate
  <2>2. ForEach(LAMBDA x, k : CutComment(x), code, turns) = CutAllLoop!Loop(n, code, code, turns)
    <3> HIDE DEF turns, n
    <3> QED
      BY ZenonT(60) DEF ForEach, OfValue, CutTurn, CutAllLoop!Loop,
                        CutAllLoop!Largest, FoldLeft, MapThenFoldSet, Max
  <2> QED
    BY <2>1, <2>2, Zenon
<1>4. IsCleansed(n, code, code, 0)
  BY <1>1 DEF IsCleansed
<1> HIDE DEF turns, n
<1>5. ASSUME NEW s, NEW k \in 1 .. n, IsCleansed(n, code, s, k - 1)
      PROVE  IsCleansed(n, code, CutTurn(s), k)
  BY <1>1, <1>5, CutCommentCleanses
<1>6. IsCleansed(n, code, CutAllLoop!Loop(n, code, code, turns), Len(turns))
  BY <1>1, <1>2, <1>4, <1>5, CutAllLoop!LoopHolds
<1>7. IsCleansed(n, code, u, n)
  BY <1>2, <1>3, <1>6
<1>8. ~HasComment(u)
  <2> SUFFICES ASSUME HasComment(u) PROVE FALSE
    OBVIOUS
  <2>1. Len(u) <= 0 /\ Len(u) \in Nat /\ DOMAIN u = 1 .. Len(u)
    BY <1>1, <1>7, SequenceFacts DEF IsCleansed
  <2>2. DOMAIN u = {}
    BY <2>1
  <2> QED
    BY <2>2 DEF HasComment
<1> QED
  BY <1>7, <1>8 DEF IsCleansed

\* The first token of a text that is t, if there is one (SelectInSeq).
LEMMA FirstToken ==
    ASSUME NEW text, IsSequence(text), NEW at, at = SelectInSeq(text, LAMBDA t : t = "//")
    PROVE  /\ at \in 0 .. Len(text)
           /\ at = 0 => \A i \in DOMAIN text : text[i] # "//"
           /\ at # 0 => text[at] = "//" /\ \A i \in 1 .. at - 1 : text[i] # "//"
<1> DEFINE found == {i \in 1 .. Len(text) : text[i] = "//"}
<1>1. at = IF found # {} THEN Min(found) ELSE 0
  BY Zenon DEF SelectInSeq
<1>2. PICK n : n = Len(text) /\ n \in Nat /\ DOMAIN text = 1 .. n
  BY SequenceFacts
<1>3. /\ found \in SUBSET Nat /\ \A i \in found : i \in 1 .. n /\ text[i] = "//"
      /\ \A i \in 1 .. n : text[i] = "//" => i \in found
  BY <1>2
<1> HIDE DEF found
<1>4. found # {} => Min(found) \in found /\ \A x \in found : Min(found) <= x
  BY <1>3, MinOfNumbers
<1>5. CASE found = {}
  BY <1>1, <1>2, <1>3, <1>5
<1>6. CASE found # {}
  <2>1. at \in found /\ \A x \in found : at <= x
    BY <1>1, <1>4, <1>6
  <2>2. at \in 1 .. n /\ text[at] = "//"
    BY <1>3, <2>1
  <2>3. ASSUME NEW i \in 1 .. at - 1 PROVE text[i] # "//"
    <3>1. i \in 1 .. n /\ ~(at <= i)
      BY <1>2, <2>2
    <3> QED
      BY <1>3, <2>1, <3>1
  <2> QED
    BY <1>2, <2>2, <2>3
<1> QED
  BY <1>5, <1>6

\* Cleansed text: no comment, and no // if none stood in a string (CleanseComments).
LEMMA CleansedText ==
    ASSUME NEW text, IsSequence(text), NEW u, u = CleanseComments(text)
    PROVE  /\ ~HasComment(u)
           /\ OutsideStrings(text) => \A p \in DOMAIN u : u[p] # "//"
           /\ text # <<>> /\ text[1] = "#include" => u # <<>> /\ u[1] = "#include"
<1> DEFINE at == SelectInSeq(text, LAMBDA t : t = "//")
           code == IF at # 0 /\ ~IsCppString(Upto(text, at - 1))
                   THEN Upto(text, at - 1) ELSE text
<1>1. PICK n : n = Len(text) /\ n \in Nat /\ DOMAIN text = 1 .. n
  BY SequenceFacts
<1>2. /\ at \in 0 .. n
      /\ at = 0 => \A i \in DOMAIN text : text[i] # "//"
      /\ at # 0 => text[at] = "//" /\ \A i \in 1 .. at - 1 : text[i] # "//"
  BY <1>1, FirstToken, Zenon
<1>3. u = Iterate(CutComment, code, Len(code))
  BY DEF CleanseComments
<1> HIDE DEF at
<1>4. at # 0 => /\ IsSequence(Upto(text, at - 1))
                /\ Len(Upto(text, at - 1)) = at - 1
                /\ DOMAIN Upto(text, at - 1) = 1 .. at - 1
                /\ \A k \in 1 .. at - 1 : Upto(text, at - 1)[k] = text[k]
  <2> SUFFICES ASSUME at # 0
               PROVE  /\ IsSequence(Upto(text, at - 1))
                      /\ Len(Upto(text, at - 1)) = at - 1
                      /\ DOMAIN Upto(text, at - 1) = 1 .. at - 1
                      /\ \A k \in 1 .. at - 1 : Upto(text, at - 1)[k] = text[k]
    OBVIOUS
  <2>1. PICK m : m = at - 1
    OBVIOUS
  <2>2. m \in 0 .. n /\ m \in Int /\ m <= Len(text)
    BY <1>1, <1>2, <2>1
  <2>3. IsSequence(Upto(text, m)) /\ Len(Upto(text, m)) = m
        /\ \A k \in 1 .. m : Upto(text, m)[k] = text[k]
    BY <1>1, <2>2, FromUptoType, PartsOfText
  <2> QED
    BY <2>1, <2>3, SequenceFacts
<1>5. IsSequence(code)
  BY <1>4
<1>6. OutsideStrings(text) => \A p \in DOMAIN code : code[p] # "//"
  <2>1. CASE at = 0
    BY <1>2, <2>1
  <2>2. CASE at # 0 /\ ~IsCppString(Upto(text, at - 1))
    <3>1. code = Upto(text, at - 1)
      BY <2>2
    <3> QED
      BY <1>2, <1>4, <2>2, <3>1
  <2>3. CASE at # 0 /\ IsCppString(Upto(text, at - 1))
    <3>1. at \in DOMAIN text /\ text[at] = "//"
      BY <1>1, <1>2, <2>3
    <3> QED
      BY <2>3, <3>1 DEF OutsideStrings
  <2> QED
    BY <2>1, <2>2, <2>3
<1>7. text # <<>> /\ text[1] = "#include" => code # <<>> /\ code[1] = "#include"
  <2> SUFFICES ASSUME text # <<>>, text[1] = "#include"
               PROVE  code # <<>> /\ code[1] = "#include"
    OBVIOUS
  <2>1. CASE code = text
    BY <2>1
  <2>2. CASE at # 0 /\ code = Upto(text, at - 1)
    <3>1. at # 1
      BY <1>2
    <3>2. 1 \in 1 .. at - 1
      BY <1>2, <2>2, <3>1
    <3>3. 1 \in DOMAIN code /\ code[1] = text[1]
      BY <1>4, <2>2, <3>2
    <3> QED
      BY <3>3, ShortSequences
  <2> QED
    BY <2>1, <2>2
<1> HIDE DEF code
<1>8. /\ ~HasComment(u)
      /\ \A p \in DOMAIN u : \E r \in DOMAIN code : u[p] = code[r]
      /\ code # <<>> /\ code[1] # "/*" => u # <<>> /\ u[1] = code[1]
  BY <1>3, <1>5, IteratedCutCleanses
<1>9. text # <<>> /\ text[1] = "#include" => u # <<>> /\ u[1] = "#include"
  BY <1>7, <1>8
<1> QED
  BY <1>6, <1>8, <1>9

\* A line whose quotes are paired has no comment left when it is elided (ElideLine).
LEMMA ElidedText ==
    ASSUME NEW text, IsSequence(text), ~IsCppString(text),
           NEW u, u = CleanseComments(CollapseStrings(text)), At(u, 1) # "#include"
    PROVE  ~HasComment(u) /\ \A p \in DOMAIN u : u[p] # "//"
<1>1. PICK code : code = CollapseStrings(text)
  OBVIOUS
<1>2. IsSequence(code)
  BY <1>1, CollapseStringsType
<1>3. /\ ~HasComment(u)
      /\ OutsideStrings(code) => \A p \in DOMAIN u : u[p] # "//"
      /\ code # <<>> /\ code[1] = "#include" => u # <<>> /\ u[1] = "#include"
  BY <1>1, <1>2, CleansedText
<1>4. ~(text # <<>> /\ text[1] = "#include")
  <2> SUFFICES ASSUME text # <<>>, text[1] = "#include" PROVE FALSE
    OBVIOUS
  <2>1. code = text
    BY <1>1, Zenon DEF CollapseStrings
  <2>2. u # <<>> /\ u[1] = "#include"
    BY <1>3, <2>1
  <2>3. IsSequence(u)
    BY <1>1, <1>2, CleanseCommentsType
  <2>4. 1 \in DOMAIN u
    BY <2>2, <2>3, SequenceTail
  <2> QED
    BY <2>2, <2>4 DEF At
<1>5. OutsideStrings(code)
  BY <1>1, <1>4, CollapsedIsOutside
<1> QED
  BY <1>3, <1>5

\* The elided lines of a file are made of those without raw strings.
ElidedInv ==
    clean.elided = [i \in DOMAIN clean.lines_without_raw_strings |->
                        ElideLine(clean.lines_without_raw_strings[i])]

LEMMA ElidedOfCleansed ==
    ASSUME NEW lines, NEW c, c = CleansedLines(lines)
    PROVE  c.elided = [i \in DOMAIN c.lines_without_raw_strings |->
                            ElideLine(c.lines_without_raw_strings[i])]
<1>1. PICK noRaw : noRaw = CleanseRawStrings(lines)
  OBVIOUS
<1>2. c = [raw_lines |-> lines, lines_without_raw_strings |-> noRaw,
           lines |-> [i \in DOMAIN noRaw |-> CleanseLine(noRaw[i])],
           elided |-> [i \in DOMAIN noRaw |-> ElideLine(noRaw[i])]]
  BY <1>1, Zenon DEF CleansedLines
<1>3. c.elided = [i \in DOMAIN noRaw |-> ElideLine(noRaw[i])] /\ c.lines_without_raw_strings = noRaw
  BY <1>2
<1> QED
  BY <1>3, Zenon

\* The copies of the lines are made when a file is opened, and not changed.
LEMMA CleanStays ==
    ASSUME [Next]_vars
    PROVE  clean' = clean \/ \E lines : clean' = CleansedLines(lines)
<1>1. CASE OpenFile
  BY <1>1 DEF OpenFile
<1>2. CASE ~OpenFile
  BY <1>2 DEF Next, vars, fileVars, ParseArguments, Exit, StartFile, SkipFile, Report, ProcessLine,
              FinishLines, EndFile, Ended
<1> QED
  BY <1>1, <1>2

\* The checks that read elided lines see no comment, whatever the lines of a file
\* (CollapseStrings and CleanseComments).
THEOREM CommentsAreElided == Spec => []ElidedHasNoComments
<1>1. Init => ElidedInv
  BY ElidedOfCleansed DEF Init, NoLines, ElidedInv
<1>2. ElidedInv /\ [Next]_vars => ElidedInv'
  <2> SUFFICES ASSUME ElidedInv, [Next]_vars PROVE ElidedInv'
    OBVIOUS
  <2>1. CASE clean' = clean
    BY <2>1 DEF ElidedInv
  <2>2. ASSUME NEW lines, clean' = CleansedLines(lines) PROVE ElidedInv'
    <3>1. PICK c : c = clean'
      OBVIOUS
    <3>2. c.elided = [i \in DOMAIN c.lines_without_raw_strings |->
                            ElideLine(c.lines_without_raw_strings[i])]
      BY <2>2, <3>1, ElidedOfCleansed
    <3> QED
      BY <3>1, <3>2 DEF ElidedInv
  <2> QED
    BY <2>1, <2>2, CleanStays
<1>3. LintInv /\ ElidedInv => ElidedHasNoComments
  <2> SUFFICES ASSUME LintInv, ElidedInv PROVE ElidedHasNoComments
    OBVIOUS
  <2>1. /\ AreLines(clean.lines_without_raw_strings)
        /\ Len(clean.elided) = Len(clean.raw_lines)
    BY DEF LintInv, FileInv, IsClean
  <2>2. ASSUME NEW i \in DOMAIN clean.elided,
               ~IsCppString(clean.lines_without_raw_strings[i].text),
               At(clean.elided[i].text, 1) # "#include"
        PROVE  /\ ~Has("//", clean.elided[i].text)
               /\ \A k, l \in DOMAIN clean.elided[i].text :
                    k < l => ~(clean.elided[i].text[k] = "/*" /\ clean.elided[i].text[l] = "*/")
    <3>1. PICK text, u : text = clean.lines_without_raw_strings[i].text /\ u = clean.elided[i].text
      OBVIOUS
    <3>2. i \in DOMAIN clean.lines_without_raw_strings
      BY DEF ElidedInv
    <3>3. clean.elided[i] = ElideLine(clean.lines_without_raw_strings[i])
      BY <3>2 DEF ElidedInv
    <3>4. u = CleanseComments(CollapseStrings(text))
      BY <3>1, <3>3 DEF ElideLine, Line
    <3>5. IsSequence(text)
      BY <2>1, <3>1, <3>2 DEF AreLines
    <3>6. ~HasComment(u) /\ \A p \in DOMAIN u : u[p] # "//"
      BY <2>2, <3>1, <3>4, <3>5, ElidedText
    <3>7. DOMAIN u = 1 .. Len(u)
      BY <3>4, <3>5, CollapseStringsType, CleanseCommentsType, SequenceFacts
    <3> QED
      BY <3>1, <3>6, <3>7 DEF HasComment, Has, Contains
  <2> QED
    BY <2>1, <2>2, Zenon DEF ElidedHasNoComments
<1> QED
  BY <1>1, <1>2, <1>3, InitHasTypes, StepKeepsTypes, PTL DEF Spec

-----------------------------------------------------------------------------
(* The includes.                                                           *)

\* A set of headers for every #if so far, and a section.
IsIncludes(s) ==
    /\ {"list", "section", "last_header"} \subseteq DOMAIN s
    /\ IsSequence(s.list) /\ s.list # <<>>
    /\ s.section \in INITIAL_SECTION .. OTHER_H_SECTION

IncludeIn(c, i) == IsInclude(c.elided[i].text) /\ IsInclude(c.lines[i].text)
HeaderIn(c, i) == c.lines[i].text[3]
IsSystemIn(c, i) == c.lines[i].text[2] = "<"
FreshIn(c, i, dir) ==
    /\ IncludeIn(c, i) /\ ~Headers[HeaderIn(c, i)].thirdParty
    /\ ~(Headers[HeaderIn(c, i)].dotCc /\ Headers[HeaderIn(c, i)].dir # dir)

\* r lists what s does, and besides it only this header, in the last set.
ListsMore(r, s, header) ==
    /\ IsIncludes(r) /\ Len(r.list) = Len(s.list)
    /\ \A k \in DOMAIN s.list : s.list[k] \subseteq r.list[k]
    /\ \A k \in DOMAIN s.list : \A e \in r.list[k] : e \in s.list[k] \/ e.header = header

\* The section moves on to that of the header, or stays.
LEMMA NextSection ==
    ASSUME NEW s, IsIncludes(s), NEW header_type
    PROVE  LET next == CheckNextIncludeOrder(s, header_type)
           IN  /\ IsIncludes(next.includes) /\ next.includes.list = s.list
               /\ s.section = OTHER_H_SECTION => next.includes.section = OTHER_H_SECTION
               /\ header_type = "OTHER_HEADER" => next.includes.section = OTHER_H_SECTION
               /\ s.section = OTHER_H_SECTION /\ header_type \in {"C_SYS_HEADER", "CPP_SYS_HEADER"}
                    => next.late
<1> DEFINE latest == CASE header_type = "C_SYS_HEADER" -> C_SECTION
                       [] header_type = "CPP_SYS_HEADER" -> CPP_SECTION
                       [] header_type = "OTHER_HEADER" -> OTHER_H_SECTION
                       [] OTHER -> MY_H_SECTION
           system == header_type \in {"C_SYS_HEADER", "CPP_SYS_HEADER"}
           section == IF s.section <= latest THEN latest ELSE OTHER_H_SECTION
           next == CheckNextIncludeOrder(s, header_type)
<1>1. next = IF system /\ s.section > latest
             THEN [includes |-> [s EXCEPT !.last_header = 0], late |-> TRUE]
             ELSE [includes |-> [s EXCEPT !.section = section,
                                         !.last_header = IF section = s.section THEN @ ELSE 0],
                   late |-> FALSE]
  BY Zenon DEF CheckNextIncludeOrder
<1> USE DEF INITIAL_SECTION, MY_H_SECTION, C_SECTION, CPP_SECTION, OTHER_H_SECTION
<1>2. /\ latest \in 1 .. 4 /\ s.section \in 0 .. 4 /\ section \in 1 .. 4
      /\ system => latest < 4
      /\ header_type = "OTHER_HEADER" => latest = 4 /\ ~system
      /\ s.section = 4 => section = 4
      /\ latest = 4 => section = 4
  BY DEF IsIncludes
<1> HIDE DEF latest, section, next
<1>3. CASE system /\ s.section > latest
  <2>1. next = [includes |-> [s EXCEPT !.last_header = 0], late |-> TRUE]
    BY <1>1, <1>3
  <2> QED
    BY <1>2, <1>3, <2>1 DEF IsIncludes, next
<1>4. CASE ~(system /\ s.section > latest)
  <2>1. \E x : next.includes = [[s EXCEPT !.section = section] EXCEPT !.last_header = x]
    BY <1>1, <1>4
  <2>2. ~(s.section = 4 /\ system)
    BY <1>2, <1>4
  <2> QED
    BY <1>2, <2>1, <2>2 DEF IsIncludes, next
<1> QED
  BY <1>3, <1>4

\* A header that is accepted is listed in the last set, and found too late behind one
\* of another package.
LEMMA AcceptIncludeLists ==
    ASSUME NEW s, IsIncludes(s), NEW c, NEW ln, NEW f,
           NEW a, a = AcceptInclude(s, c, ln, f, HeaderIn(c, ln), IsSystemIn(c, ln)),
           NEW r, r = a.includes
    PROVE  LET header == HeaderIn(c, ln)
               type == ClassifyInclude(f, header, IsSystemIn(c, ln))
           IN  /\ {"includes", "errors"} \subseteq DOMAIN a
               /\ ListsMore(r, s, header) /\ FindHeader(r, header)
               /\ s.section = OTHER_H_SECTION => r.section = OTHER_H_SECTION
               /\ type = "OTHER_HEADER" => r.section = OTHER_H_SECTION
               /\ IsSystemIn(c, ln) /\ s.section = OTHER_H_SECTION =>
                    \E rest : IsSequence(rest) /\ a.errors = <<OrderError(ln)>> \o rest
<1> DEFINE include == HeaderIn(c, ln)
           is_system == IsSystemIn(c, ln)
           entry == [header |-> include, line |-> ln]
           last == Len(s.list)
           listed == [s EXCEPT !.list[last] = @ \cup {entry}]
           type == ClassifyInclude(f, include, is_system)
           next == CheckNextIncludeOrder(listed, type)
           rank == Headers[include].rank
           inOrder == IsInAlphabeticalOrder(next.includes, c.elided, ln, rank)
           alpha == IF inOrder THEN <<>> ELSE <<AlphaError(ln)>>
<1>1. a = [includes |-> [next.includes EXCEPT !.last_header = rank],
           errors |-> (IF next.late THEN <<OrderError(ln)>> ELSE <<>>) \o alpha]
  BY DEF AcceptInclude
<1>2. PICK l : l = [s.list EXCEPT ![last] = s.list[last] \cup {entry}]
  OBVIOUS
<1>3. listed = [s EXCEPT !.list = l]
  BY <1>2 DEF IsIncludes
<1>4. /\ last \in Nat /\ last \in DOMAIN s.list /\ DOMAIN s.list = 1 .. last
      /\ DOMAIN l = 1 .. last /\ IsSequence(l) /\ Len(l) = last
  <2>1. last \in Nat /\ last \in DOMAIN s.list /\ DOMAIN s.list = 1 .. last
    BY SequenceFacts, SequenceFront DEF IsIncludes
  <2>2. l \in [1 .. last -> Range(l)] /\ DOMAIN l = 1 .. last
    BY <1>2, <2>1 DEF Range
  <2> HIDE DEF last
  <2>3. IsSequence(l) /\ Len(l) = last
    BY <2>1, <2>2, SequenceFromFunction
  <2> QED
    BY <2>1, <2>2, <2>3
<1>5. /\ \A k \in DOMAIN s.list : s.list[k] \subseteq l[k]
      /\ \A k \in DOMAIN s.list : \A e \in l[k] : e \in s.list[k] \/ e = entry
      /\ entry \in l[last] /\ entry.header = include
  BY <1>2, <1>4
<1> HIDE DEF entry
<1>6. IsIncludes(listed) /\ listed.list = l /\ listed.section = s.section
  <2>1. l # <<>>
    BY <1>4, ShortSequences
  <2> QED
    BY <1>3, <1>4, <2>1 DEF IsIncludes
<1> HIDE DEF listed
<1>7. /\ IsIncludes(next.includes) /\ next.includes.list = l
      /\ s.section = OTHER_H_SECTION => next.includes.section = OTHER_H_SECTION
      /\ type = "OTHER_HEADER" => next.includes.section = OTHER_H_SECTION
      /\ s.section = OTHER_H_SECTION /\ type \in {"C_SYS_HEADER", "CPP_SYS_HEADER"} => next.late
  BY <1>6, NextSection
<1>8. is_system => type \in {"C_SYS_HEADER", "CPP_SYS_HEADER"}
  BY DEF ClassifyInclude
<1> HIDE DEF type, next, rank, inOrder
<1>9. r = [next.includes EXCEPT !.last_header = rank]
  BY <1>1
<1>10. IsIncludes(r) /\ r.list = l /\ r.section = next.includes.section
  BY <1>7, <1>9 DEF IsIncludes
<1>11. ListsMore(r, s, include)
  BY <1>4, <1>5, <1>10 DEF ListsMore
<1>12. FindHeader(r, include)
  BY <1>4, <1>5, <1>10 DEF FindHeader
<1>13. IsSequence(alpha)
  BY ShortSequences
<1> HIDE DEF alpha
<1>14. is_system /\ s.section = OTHER_H_SECTION => a.errors = <<OrderError(ln)>> \o alpha
  BY <1>1, <1>7, <1>8
<1> QED
  BY <1>1, <1>7, <1>10, <1>11, <1>12, <1>13, <1>14 DEF type

\* An #include line lists its header, once it is neither known, of a third party nor a
\* .cc file of another directory; of two sections the later one is kept.
AddsInclude(r, s, c, ln, f) ==
    LET header == HeaderIn(c, ln)
        new == FreshIn(c, ln, f.dir) /\ ~FindHeader(s, header)
        type == ClassifyInclude(f, header, IsSystemIn(c, ln))
    IN  /\ ListsMore(r.includes, s, header)
        /\ FreshIn(c, ln, f.dir) => FindHeader(r.includes, header)
        /\ s.section = OTHER_H_SECTION => r.includes.section = OTHER_H_SECTION
        /\ new /\ type = "OTHER_HEADER" => r.includes.section = OTHER_H_SECTION
        /\ new /\ IsSystemIn(c, ln) /\ s.section = OTHER_H_SECTION =>
                \E first, rest : /\ IsSequence(first) /\ IsSequence(rest)
                                 /\ r.errors = first \o (<<OrderError(ln)>> \o rest)

LEMMA IncludeLineLists ==
    ASSUME NEW s, IsIncludes(s), NEW c, NEW ln, NEW f, IncludeIn(c, ln),
           NEW r, r = CheckLanguageIncludes(s, c, ln, f)
    PROVE  AddsInclude(r, s, c, ln, f)
<1> DEFINE line == c.lines[ln]
           include == HeaderIn(c, ln)
           header == Headers[include]
           is_system == IsSystemIn(c, ln)
           bare == /\ ~is_system /\ line.indent = 0
                   /\ header.dotH /\ header.dir = <<>> /\ ~header.thirdParty
           first == IF bare THEN <<IncludeError(ln)>> ELSE <<>>
           known == FindHeader(s, include)
           foreign == header.dotCc /\ header.dir # f.dir
           third == header.thirdParty
           accepted == AcceptInclude(s, c, ln, f, include, is_system)
           Rest == CASE known -> [includes |-> s, errors |-> <<IncludeError(ln)>>]
                     [] ~known /\ header.dotCc /\ header.dir # f.dir ->
                          [includes |-> s, errors |-> <<IncludeError(ln)>>]
                     [] ~known /\ ~(header.dotCc /\ header.dir # f.dir)
                        /\ header.thirdParty -> [includes |-> s, errors |-> <<>>]
                     [] OTHER -> accepted
<1>1. r = CheckIncludeLine(s, c, ln, f)
  BY ZenonT(60) DEF CheckLanguageIncludes, IncludeIn
<1>2. r = [Rest EXCEPT !.errors = first \o @]
  BY <1>1 DEF CheckIncludeLine, HeaderIn, IsSystemIn
<1>3. /\ ~known /\ ~foreign /\ ~third => Rest = accepted
      /\ known \/ foreign \/ third => \E e : Rest = [includes |-> s, errors |-> e]
  <2> HIDE DEF known, header, accepted
  <2> QED
    OBVIOUS
<1>4. FreshIn(c, ln, f.dir) <=> ~foreign /\ ~third
  BY DEF FreshIn
<1>5. IsSequence(first)
  <2> HIDE DEF bare
  <2> QED
    BY ShortSequences
<1> HIDE DEF first, Rest, known, foreign, third
<1>6. CASE known \/ foreign \/ third
  <2>1. PICK e : Rest = [includes |-> s, errors |-> e]
    BY <1>3, <1>6
  <2>2. r.includes = s
    BY <1>2, <2>1
  <2>3. ListsMore(s, s, HeaderIn(c, ln))
    BY DEF ListsMore
  <2>4. FreshIn(c, ln, f.dir) => FindHeader(s, HeaderIn(c, ln))
    BY <1>4, <1>6 DEF known
  <2> QED
    BY <2>2, <2>3, <2>4 DEF AddsInclude
<1>7. CASE ~known /\ ~foreign /\ ~third
  <2>1. PICK a, i : a = accepted /\ i = a.includes
    OBVIOUS
  <2>2. /\ {"includes", "errors"} \subseteq DOMAIN a
        /\ ListsMore(i, s, include) /\ FindHeader(i, include)
        /\ s.section = OTHER_H_SECTION => i.section = OTHER_H_SECTION
        /\ ClassifyInclude(f, include, is_system) = "OTHER_HEADER" => i.section = OTHER_H_SECTION
        /\ is_system /\ s.section = OTHER_H_SECTION =>
                \E rest : IsSequence(rest) /\ a.errors = <<OrderError(ln)>> \o rest
    BY <2>1, AcceptIncludeLists
  <2> HIDE DEF accepted, include, is_system
  <2>3. r = [a EXCEPT !.errors = first \o @]
    BY <1>2, <1>3, <1>7, <2>1
  <2>4. r.includes = i /\ r.errors = first \o a.errors
    BY <2>1, <2>2, <2>3
  <2> QED
    BY <1>4, <1>5, <1>7, <2>2, <2>4 DEF known, include, is_system, AddsInclude
<1> QED
  BY <1>6, <1>7

\* A directive starts a set, empties it, or leaves the sets alone.
ListsAs(r, s, directive) ==
    /\ IsIncludes(r)
    /\ directive \in {"#if", "#ifndef"} => r.list = Append(s.list, {})
    /\ directive \in {"#else", "#elif"} => r.list = Append(Front(s.list), {})
    /\ directive \notin {"#if", "#ifndef", "#else", "#elif"} => r.list = s.list
    /\ directive \notin Directives \ {"#include", "#define"} => r = s

\* What any other line does.
LEMMA OtherLineLists ==
    ASSUME NEW s, IsIncludes(s), NEW c, NEW ln, NEW f, ~IncludeIn(c, ln),
           NEW r, r = CheckLanguageIncludes(s, c, ln, f).includes
    PROVE  ListsAs(r, s, Directive(c.elided[ln].text))
<1> DEFINE text == c.elided[ln].text
           directive == Directive(text)
           reset == [s EXCEPT !.section = INITIAL_SECTION, !.last_header = 0]
<1>1. IsInclude(text) => directive = "#include"
  BY DEF IsInclude, Directive, Directives
<1>2. r = IF ~IsInclude(text) /\ directive \in {"#if", "#ifndef", "#elif", "#else", "#endif"}
          THEN ResetSection(s, directive) ELSE s
  <2> HIDE DEF ListsAs
  <2>1. CheckLanguageIncludes(s, c, ln, f)
          = IF ~IsInclude(text) /\ directive \in {"#if", "#ifndef", "#elif", "#else", "#endif"}
            THEN [includes |-> ResetSection(s, directive), errors |-> <<>>]
            ELSE [includes |-> s, errors |-> <<>>]
    BY DEF CheckLanguageIncludes, IncludeIn, text, directive
  <2> QED
    BY <2>1
<1>3. directive \in Directives \cup {""}
  BY DEF Directive
<1> HIDE DEF ListsAs
<1>4. IsIncludes(reset) /\ reset.list = s.list
  BY DEF IsIncludes, INITIAL_SECTION, OTHER_H_SECTION
<1>5. ResetSection(s, directive)
        = CASE directive \in {"#if", "#ifndef"} -> [reset EXCEPT !.list = Append(s.list, {})]
            [] directive \in {"#else", "#elif"} ->
                  [reset EXCEPT !.list = Append(Front(s.list), {})]
            [] OTHER -> reset
  BY <1>4 DEF ResetSection
<1> HIDE DEF reset
<1>6. ASSUME NEW l, IsSequence(l), l # <<>>, NEW q, q = [reset EXCEPT !.list = l]
      PROVE  IsIncludes(q) /\ q.list = l
  BY <1>4, <1>6 DEF IsIncludes
<1>7. /\ IsSequence(Append(s.list, {})) /\ Append(s.list, {}) # <<>>
      /\ IsSequence(Append(Front(s.list), {})) /\ Append(Front(s.list), {}) # <<>>
  <2>1. IsSequence(s.list) /\ IsSequence(Front(s.list))
    BY SequenceFront DEF IsIncludes
  <2>2. ASSUME NEW l, IsSequence(l) PROVE IsSequence(Append(l, {})) /\ Append(l, {}) # <<>>
    <3>1. PICK m : m = Append(l, {})
      OBVIOUS
    <3>2. IsSequence(m) /\ Len(m) = Len(l) + 1 /\ Len(l) \in Nat
      BY <2>2, <3>1, SequenceAppend, SequenceFacts
    <3>3. m # <<>>
      BY <3>2, ShortSequences
    <3> QED
      BY <3>1, <3>2, <3>3
  <2> QED
    BY <2>1, <2>2
<1> USE DEF ListsAs, Directives
<1>8. CASE directive \in {"#if", "#ifndef"}
  <2>1. r = [reset EXCEPT !.list = Append(s.list, {})]
    BY <1>1, <1>2, <1>5, <1>8
  <2>2. ListsAs(r, s, directive)
    BY <1>6, <1>7, <1>8, <2>1
  <2> QED
    BY <2>2 DEF text, directive
<1>9. CASE directive \in {"#else", "#elif"}
  <2>1. r = [reset EXCEPT !.list = Append(Front(s.list), {})]
    BY <1>1, <1>2, <1>5, <1>9
  <2>2. ListsAs(r, s, directive)
    BY <1>6, <1>7, <1>9, <2>1
  <2> QED
    BY <2>2 DEF text, directive
<1>10. CASE directive = "#endif"
  <2>1. r = reset
    BY <1>1, <1>2, <1>5, <1>10
  <2>2. ListsAs(r, s, directive)
    BY <1>4, <1>10, <2>1
  <2> QED
    BY <2>2 DEF text, directive
<1>11. CASE directive \notin Directives \ {"#include", "#define"}
  <2>1. r = s
    BY <1>2, <1>11
  <2>2. ListsAs(r, s, directive)
    BY <1>1, <1>2, <1>11, <2>1
  <2> QED
    BY <2>2 DEF text, directive
<1> QED
  BY <1>8, <1>9, <1>10, <1>11

\* The #if blocks open before a line: one loop over the lines, which takes them one by
\* one.
DepthTurn(s, line) == OfValue(LAMBDA v : DepthStep(v, line), s)
DepthLoop == INSTANCE SequenceLemmas WITH
    Step <- LAMBDA p, q, s, line : DepthTurn(s, line),
    Holds <- LAMBDA p, q, s, line : TRUE
NoDepth == [open |-> <<>>, depth |-> 0]
DepthIn(lines, ln) == DepthLoop!Loop(0, 0, NoDepth, Upto(lines, ln - 1))

LEMMA DepthIsLoop ==
    ASSUME NEW ln
    PROVE  DepthBefore(ln) = DepthIn(clean.elided, ln)
<1> DEFINE lines == Upto(clean.elided, ln - 1)
<1>1. DepthBefore(ln) = ForEach(DepthStep, NoDepth, lines)
  BY DEF DepthBefore, NoDepth
<1> HIDE DEF lines
<1>2. ForEach(DepthStep, NoDepth, lines) = DepthLoop!Loop(0, 0, NoDepth, lines)
  BY ZenonT(60) DEF ForEach, OfValue, DepthTurn, DepthLoop!Loop,
                    DepthLoop!Largest, FoldLeft, MapThenFoldSet, Max
<1> QED
  BY <1>1, <1>2 DEF DepthIn, lines

\* No #if is open before the first line; every line changes what is open and how deep.
LEMMA DepthAtFirst ==
    ASSUME NEW lines, IsSequence(lines)
    PROVE  DepthIn(lines, 1) = NoDepth
<1>1. Upto(lines, 1 - 1) = <<>>
  BY DEF Upto, IsSequence
<1> QED
  BY <1>1, DepthLoop!LoopOfNone DEF DepthIn

LEMMA DepthAfter ==
    ASSUME NEW lines, IsSequence(lines), NEW ln \in 1 .. Len(lines)
    PROVE  DepthIn(lines, ln + 1) = DepthStep(DepthIn(lines, ln), lines[ln])
<1>1. PICK n : n = ln - 1
  OBVIOUS
<1>2. PICK seq, more : seq = Upto(lines, n) /\ more = Upto(lines, n + 1)
  OBVIOUS
<1>3. /\ n \in Nat /\ n + 1 = ln /\ (ln + 1) - 1 = n + 1
      /\ Len(seq) = n /\ DOMAIN seq = 1 .. n /\ Len(more) = n + 1 /\ DOMAIN more = 1 .. n + 1
      /\ \A i \in 1 .. n : more[i] = seq[i]
      /\ more[n + 1] = lines[ln]
  <2>1. n \in Nat /\ n + 1 = ln /\ (ln + 1) - 1 = n + 1 /\ Len(lines) \in Nat
    BY <1>1, SequenceFacts
  <2>2. /\ Len(seq) = n /\ DOMAIN seq = 1 .. n /\ \A i \in 1 .. n : seq[i] = lines[i]
        /\ Len(more) = n + 1 /\ DOMAIN more = 1 .. n + 1
        /\ \A i \in 1 .. n + 1 : more[i] = lines[i]
    BY <1>2, <2>1 DEF Upto, IsSequence
  <2> QED
    BY <2>1, <2>2
<1>4. DepthLoop!Loop(0, 0, NoDepth, more)
        = DepthTurn(DepthLoop!Loop(0, 0, NoDepth, seq), lines[ln])
  BY <1>3, DepthLoop!LoopAppend
<1>5. \A s : DepthTurn(s, lines[ln]) = DepthStep(s, lines[ln])
  BY DEF DepthTurn, OfValue
<1> QED
  BY <1>1, <1>2, <1>3, <1>4, <1>5 DEF DepthIn

\* See DepthAtFirst and DepthAfter.
LEMMA DepthOfNone ==
    ASSUME NEW lines, IsSequence(lines)
    PROVE  DepthIn(lines, 1).open = <<>>
BY DepthAtFirst DEF NoDepth

LEMMA DepthOfNext ==
    ASSUME NEW lines, IsSequence(lines), NEW ln \in 1 .. Len(lines)
    PROVE  DepthIn(lines, ln + 1).open = Branch(DepthIn(lines, ln).open, lines[ln].text)
<1>1. DepthIn(lines, ln + 1) = DepthStep(DepthIn(lines, ln), lines[ln])
  BY DepthAfter
<1> QED
  BY <1>1 DEF DepthStep

\* How a line changes the blocks that are open.
LEMMA BranchOpen ==
    ASSUME NEW open, IsSequence(open), NEW text, NEW new, new = Branch(open, text)
    PROVE  LET directive == Directive(text)
           IN  /\ IsSequence(new)
               /\ directive \in {"#if", "#ifndef"} => new # <<>>
               /\ directive \in {"#else", "#elif"} /\ open # <<>> => new # <<>>
               /\ new # <<>> /\ open = <<>> => directive \in {"#if", "#ifndef"}
<1> DEFINE directive == Directive(text)
<1>1. ASSUME NEW s, IsSequence(s), NEW b
      PROVE  IsSequence(Append(s, b)) /\ Append(s, b) # <<>>
  <2>1. PICK m : m = Append(s, b)
    OBVIOUS
  <2>2. IsSequence(m) /\ Len(m) = Len(s) + 1 /\ Len(s) \in Nat
    BY <1>1, <2>1, SequenceAppend, SequenceFacts
  <2> QED
    BY <2>1, <2>2, ShortSequences
<1>2. open # <<>> => IsSequence(Front(open))
  BY SequenceFront
<1>3. new = CASE directive \in {"#if", "#ifndef"} -> Append(open, FALSE)
              [] directive \in {"#else", "#elif"} /\ open # <<>> -> Append(Front(open), TRUE)
              [] directive = "#endif" /\ open # <<>> -> Front(open)
              [] OTHER -> open
  BY DEF Branch
<1> HIDE DEF directive
<1>4. CASE directive \in {"#if", "#ifndef"}
  <2>1. new = Append(open, FALSE)
    BY <1>3, <1>4
  <2> QED
    BY <1>1, <1>4, <2>1 DEF directive
<1>5. CASE directive \in {"#else", "#elif"} /\ open # <<>>
  <2>1. new = Append(Front(open), TRUE)
    BY <1>3, <1>5
  <2> QED
    BY <1>1, <1>2, <1>5, <2>1 DEF directive
<1>6. CASE directive = "#endif" /\ open # <<>>
  <2>1. new = Front(open)
    BY <1>3, <1>6
  <2> QED
    BY <1>2, <1>6, <2>1 DEF directive
<1>7. CASE /\ directive \notin {"#if", "#ifndef"}
           /\ ~(directive \in {"#else", "#elif", "#endif"} /\ open # <<>>)
  <2>1. new = open
    BY <1>3, <1>7
  <2> QED
    BY <1>7, <2>1 DEF directive
<1> QED
  BY <1>4, <1>5, <1>6, <1>7

IncludesInv ==
    phase = "lines" =>
        /\ IsIncludes(includes) /\ IsSequence(DepthIn(clean.elided, position).open)
        /\ \A k \in DOMAIN includes.list : \A e \in includes.list[k] :
                \E i \in 1 .. position - 1 : IncludeIn(clean, i) /\ HeaderIn(clean, i) = e.header

\* The header of line i is listed, and in a set that is not the last while an #if is open.
IsListed(c, i, list, position_) ==
    \E k \in DOMAIN list :
        /\ \E e \in list[k] : e.header = HeaderIn(c, i)
        /\ DepthIn(c.elided, position_).open # <<>> => k < Len(list)

StrayElseIn(c) ==
    \E i \in DOMAIN c.elided :
        /\ Directive(c.elided[i].text) \in {"#else", "#elif"}
        /\ DepthIn(c.elided, i).open = <<>>

KnownInv ==
    (phase = "lines" /\ "asm" \notin Words(clean) /\ ~StrayElseIn(clean)) =>
        \A i \in 1 .. position - 1 :
            (FreshIn(clean, i, File.dir) /\ DepthIn(clean.elided, i).open = <<>>) =>
                IsListed(clean, i, includes.list, position)

\* Line j is the first to include its header, which is of another package.
IsOther(c, j, f) ==
    /\ FreshIn(c, j, f.dir)
    /\ ClassifyInclude(f, HeaderIn(c, j), IsSystemIn(c, j)) = "OTHER_HEADER"
    /\ \A i \in 1 .. j - 1 : IncludeIn(c, i) => HeaderIn(c, i) # HeaderIn(c, j)

SectionInv ==
    (phase = "lines" /\ "asm" \notin Words(clean)) =>
        \A j \in 1 .. position - 1 :
            (/\ IsOther(clean, j, File)
             /\ \A i \in j .. position - 1 :
                    Directive(clean.elided[i].text) \notin Directives \ {"#include", "#define"}) =>
                includes.section = OTHER_H_SECTION

AllIncludesInv == IncludesInv /\ KnownInv /\ SectionInv

\* Lines without the word start no assembly.
LEMMA NoAsmWord ==
    ASSUME IsClean(clean), ~HasAsm
    PROVE  "asm" \notin Words(clean)
<1>1. ASSUME NEW i \in DOMAIN clean.elided PROVE "asm" \notin Range(clean.elided[i].text)
  <2>1. PICK text : text = clean.elided[i].text
    OBVIOUS
  <2>2. IsSequence(text) /\ ~Has("asm", text)
    BY <2>1 DEF HasAsm, IsClean, AreLines
  <2>3. DOMAIN text = 1 .. Len(text)
    BY <2>2, SequenceFacts
  <2> QED
    BY <2>1, <2>2, <2>3 DEF Has, Contains, Range
<1> QED
  BY <1>1 DEF Words

\* A line without assembly: its checks change the includes, and their errors come last.
LEMMA LineIncludes ==
    ASSUME LintInv, ProcessLine, "asm" \notin Words(clean)
    PROVE  LET included == CheckLanguageIncludes(includes, clean, position, File)
           IN  /\ position \in 1 .. Len(clean.raw_lines)
               /\ includes' = included.includes
               /\ \E s : IsSequence(s) /\ pending' = s \o included.errors
<1> DEFINE updated == Update(nesting, clean, position)
           measured == CheckForFunctionLengths(function, clean, position, verboseLevel)
           included == CheckLanguageIncludes(includes, clean, position, File)
           ok(s) == LineEvents(s, clean, position, verboseLevel)
<1>1. position \in Nat \ {0} /\ IsClean(clean) /\ IsNesting(nesting, Words(clean))
      /\ IsFunction(function) /\ verboseLevel \in Nat
  <2>1. FileInv /\ verboseLevel \in Nat
    BY DEF LintInv, RunInv
  <2> QED
    BY <2>1 DEF FileInv
<1>2. position \in 1 .. Len(clean.raw_lines)
  <2>1. Len(clean.raw_lines) \in Nat
    BY <1>1, SequenceFacts DEF IsClean, AreLines
  <2> QED
    BY <1>1, <2>1 DEF ProcessLine
<1>3. IsNesting(updated.nesting, Words(clean)) /\ ok(updated.errors)
  BY <1>1, <1>2, WordsOfLine, UpdateKeeps
<1>4. ok(measured.errors)
  BY <1>1, <1>2, FunctionLengthEvents
<1>5. FinishLine(position, updated, measured, included)
  BY DEF ProcessLine
<1> HIDE DEF updated, measured, included
<1>6. ~InAsmBlock(updated.nesting)
  <2>1. PICK n : n = updated.nesting
    OBVIOUS
  <2>2. n.stack # <<>> => IsBlock(Last(n.stack), Words(clean))
    BY <1>3, <2>1, StackFront DEF IsNesting
  <2> QED
    BY <2>1, <2>2 DEF InAsmBlock, Top, IsBlock
<1> DEFINE mark == NolintEvents(clean.raw_lines, position)
           indented == CheckForNamespaceIndentation(nesting', clean, position)
           several == CheckForMultilineCommentsAndStrings(clean, position)
           style == CheckStyle(nesting', clean, position, File, Cppvar, lineLength)
           checks == measured.errors \o several \o style \o included.errors
<1>7. includes' = included.includes /\ pending' = mark \o updated.errors \o indented \o checks
  BY <1>5, <1>6, ZenonT(60) DEF FinishLine
<1>8. ok(mark) /\ ok(indented) /\ ok(several) /\ ok(style)
  <2>1. position \in Nat /\ IsNesting(nesting', Words(clean))
    BY <1>1, <1>3, <1>5, Zenon DEF FinishLine
  <2> QED
    BY <1>1, <1>2, <2>1, MarkEvents, NamespaceIndentationEvents, MultilineEvents, StyleEvents
<1>9. ok(included.errors)
  BY <1>1, IncludeEvents DEF included
<1>10. \A s : ok(s) => IsSequence(s)
  BY DEF LineEvents
<1> DEFINE before == (mark \o updated.errors \o indented) \o (measured.errors \o several \o style)
<1>11. IsSequence(before) /\ pending' = before \o included.errors
  <2>1. PICK a, b, e : /\ a = mark \o updated.errors \o indented
                       /\ b = measured.errors \o several \o style
                       /\ e = included.errors
    OBVIOUS
  <2>2. IsSequence(a) /\ IsSequence(b) /\ IsSequence(e)
    BY <1>3, <1>4, <1>8, <1>9, <1>10, <2>1, ConcatType
  <2>3. pending' = a \o (b \o e) /\ before = a \o b
    BY <1>7, <2>1
  <2> HIDE DEF before
  <2>4. a \o (b \o e) = (a \o b) \o e
    <3>1. PICK S : S = Range(a) \cup Range(b) \cup Range(e)
      OBVIOUS
    <3>2. a \in Seq(S) /\ b \in Seq(S) /\ e \in Seq(S)
      <4>1. Range(a) \subseteq S /\ Range(b) \subseteq S /\ Range(e) \subseteq S
        BY <3>1
      <4> QED
        BY <2>2, <4>1, SeqMonotonic DEF IsSequence
    <3> QED
      BY <3>2, ConcatAssociative
  <2> QED
    BY <2>1, <2>2, <2>3, <2>4, ConcatType
<1> HIDE DEF before
<1> QED
  BY <1>2, <1>7, <1>11 DEF included

\* Where line ln stands when it is processed.
LEMMA LineStands ==
    ASSUME LintInv, ProcessLine
    PROVE  /\ position \in Nat \ {0} /\ position' - 1 = position /\ position' = position + 1
           /\ IsClean(clean) /\ clean' = clean /\ phase = "lines" /\ phase' = "lines"
           /\ pending = <<>> /\ File' = File
           /\ IsSequence(clean.elided) /\ position \in 1 .. Len(clean.elided)
           /\ position \in DOMAIN clean.elided
<1>1. FileInv
  BY DEF LintInv
<1>2. /\ position \in Nat \ {0} /\ IsClean(clean)
  BY <1>1 DEF FileInv
<1>3. /\ IsSequence(clean.elided) /\ Len(clean.elided) = Len(clean.raw_lines)
      /\ Len(clean.raw_lines) \in Nat /\ DOMAIN clean.elided = 1 .. Len(clean.elided)
  BY <1>2, SequenceFacts DEF IsClean, AreLines
<1> QED
  BY <1>2, <1>3 DEF ProcessLine, File

LEMMA ProcessLineKeepsLists ==
    ASSUME LintInv, IncludesInv, ProcessLine
    PROVE  IncludesInv'
<1> DEFINE included == CheckLanguageIncludes(includes, clean, position, File)
           text == clean.elided[position].text
<1>1. /\ position \in Nat \ {0} /\ position' = position + 1 /\ clean' = clean /\ phase = "lines"
      /\ IsSequence(clean.elided) /\ position \in 1 .. Len(clean.elided)
  BY LineStands
<1>2. includes' = includes \/ includes' = included.includes
  BY Zenon DEF ProcessLine, FinishLine
<1>3. PICK r, d : r = included.includes /\ d = Directive(text)
  OBVIOUS
<1>4. /\ IsIncludes(includes) /\ IsSequence(DepthIn(clean.elided, position).open)
      /\ \A k \in DOMAIN includes.list : \A e \in includes.list[k] :
            \E i \in 1 .. position - 1 : IncludeIn(clean, i) /\ HeaderIn(clean, i) = e.header
  BY <1>1 DEF IncludesInv
<1>5. IsSequence(DepthIn(clean.elided, position + 1).open)
  <2>1. PICK new : new = DepthIn(clean.elided, position + 1).open
    OBVIOUS
  <2>2. new = Branch(DepthIn(clean.elided, position).open, text)
    BY <1>1, <2>1, DepthOfNext
  <2> QED
    BY <1>4, <2>1, <2>2, BranchOpen
<1> DEFINE Lists(s) ==
        /\ IsIncludes(s)
        /\ \A k \in DOMAIN s.list : \A e \in s.list[k] :
            \E i \in 1 .. position : IncludeIn(clean, i) /\ HeaderIn(clean, i) = e.header
<1>6. Lists(includes)
  <2>1. \A i \in 1 .. position - 1 : i \in 1 .. position
    BY <1>1
  <2> QED
    BY <1>4, <2>1
<1>7. Lists(r)
  <2>1. CASE IncludeIn(clean, position)
    <3>1. ListsMore(r, includes, HeaderIn(clean, position))
      <4>1. PICK x : x = included
        OBVIOUS
      <4>2. ListsMore(x.includes, includes, HeaderIn(clean, position))
        BY <1>4, <2>1, <4>1, IncludeLineLists DEF AddsInclude
      <4> QED
        BY <1>3, <4>1, <4>2
    <3>2. DOMAIN r.list = DOMAIN includes.list
      BY <1>4, <3>1, SequenceFacts DEF ListsMore, IsIncludes
    <3>3. position \in 1 .. position
      BY <1>1
    <3> QED
      BY <1>6, <2>1, <3>1, <3>2, <3>3 DEF ListsMore
  <2>2. CASE ~IncludeIn(clean, position)
    <3>1. /\ IsIncludes(r)
          /\ d \in {"#if", "#ifndef"} => r.list = Append(includes.list, {})
          /\ d \in {"#else", "#elif"} => r.list = Append(Front(includes.list), {})
          /\ d \notin {"#if", "#ifndef", "#else", "#elif"} => r.list = includes.list
      <4>1. ListsAs(r, includes, d)
        BY <1>3, <1>4, <2>2, OtherLineLists
      <4> QED
        BY <4>1 DEF ListsAs
    <3>2. ASSUME NEW l, IsSequence(l), \A k \in DOMAIN l : k \in DOMAIN includes.list /\ l[k] = includes.list[k],
                 r.list = Append(l, {})
          PROVE  Lists(r)
      <4>1. /\ DOMAIN r.list = 1 .. Len(l) + 1 /\ Len(l) \in Nat /\ DOMAIN l = 1 .. Len(l)
            /\ r.list[Len(l) + 1] = {} /\ \A k \in 1 .. Len(l) : r.list[k] = l[k]
        BY <3>2, SequenceAppend, SequenceFacts
      <4>2. \A k \in DOMAIN r.list : r.list[k] = {} \/ k \in DOMAIN l
        BY <4>1
      <4> QED
        BY <1>6, <3>1, <3>2, <4>1, <4>2
    <3>3. CASE d \in {"#if", "#ifndef"}
      BY <1>4, <3>1, <3>2, <3>3 DEF IsIncludes
    <3>4. CASE d \in {"#else", "#elif"}
      <4>1. PICK l : l = Front(includes.list)
        OBVIOUS
      <4>2. IsSequence(l) /\ \A k \in DOMAIN l : k \in DOMAIN includes.list /\ l[k] = includes.list[k]
        BY SMTT(30), <1>4, <4>1, SequenceFront, SequenceFacts DEF IsIncludes
      <4> QED
        BY <3>1, <3>2, <3>4, <4>1, <4>2
    <3>5. CASE d \notin {"#if", "#ifndef", "#else", "#elif"}
      BY <1>6, <3>1, <3>5
    <3> QED
      BY <3>3, <3>4, <3>5
  <2> QED
    BY <2>1, <2>2
<1>8. Lists(includes')
  BY <1>2, <1>3, <1>6, <1>7
<1> HIDE DEF included
<1> QED
  BY <1>1, <1>5, <1>8 DEF IncludesInv

\* A listed header stays listed.
LEMMA ProcessLineKeepsKnown ==
    ASSUME LintInv, IncludesInv, KnownInv, ProcessLine
    PROVE  KnownInv'
<1> DEFINE included == CheckLanguageIncludes(includes, clean, position, File)
           text == clean.elided[position].text
<1>1. /\ position \in Nat \ {0} /\ position' = position + 1 /\ clean' = clean /\ phase = "lines"
      /\ IsSequence(clean.elided) /\ position \in 1 .. Len(clean.elided) /\ File' = File
      /\ position \in DOMAIN clean.elided
  BY LineStands
<1> SUFFICES ASSUME "asm" \notin Words(clean), ~StrayElseIn(clean),
                    NEW i \in 1 .. position, FreshIn(clean, i, File.dir),
                    DepthIn(clean.elided, i).open = <<>>
             PROVE  IsListed(clean, i, includes'.list, position + 1)
  <2>1. position' - 1 = position
    BY <1>1
  <2> QED
    BY <1>1, <2>1 DEF KnownInv
<1>2. PICK s, r, l, d, open, new :
        /\ s = includes /\ r = included.includes /\ l = includes.list /\ d = Directive(text)
        /\ open = DepthIn(clean.elided, position).open
        /\ new = DepthIn(clean.elided, position + 1).open
  OBVIOUS
<1>3. includes' = r
  BY <1>2, LineIncludes
<1>4. IsIncludes(s) /\ IsSequence(open) /\ l = s.list
  BY <1>1, <1>2 DEF IncludesInv
<1>5. /\ d \in {"#if", "#ifndef"} => new # <<>>
      /\ d \in {"#else", "#elif"} /\ open # <<>> => new # <<>>
      /\ new # <<>> /\ open = <<>> => d \in {"#if", "#ifndef"}
  <2>1. new = Branch(open, text)
    BY <1>1, <1>2, DepthOfNext
  <2> QED
    BY <1>2, <1>4, <2>1, BranchOpen
<1>6. d \in {"#else", "#elif"} => open # <<>>
  BY <1>1, <1>2 DEF StrayElseIn
<1>7. DOMAIN l = 1 .. Len(l) /\ Len(l) \in Nat
  BY <1>4, SequenceFacts DEF IsIncludes
<1>8. ASSUME NEW k \in DOMAIN l, NEW e \in l[k], e.header = HeaderIn(clean, i),
             open # <<>> => k < Len(l)
      PROVE  IsListed(clean, i, r.list, position + 1)
  <2> SUFFICES /\ k \in DOMAIN r.list /\ e \in r.list[k]
               /\ new # <<>> => k < Len(r.list)
    BY <1>2, <1>8 DEF IsListed
  <2>1. CASE IncludeIn(clean, position)
    <3>1. ListsMore(r, s, HeaderIn(clean, position))
      <4>1. PICK x : x = included
        OBVIOUS
      <4>2. ListsMore(x.includes, s, HeaderIn(clean, position))
        BY <1>2, <1>4, <2>1, <4>1, IncludeLineLists DEF AddsInclude
      <4> QED
        BY <1>2, <4>1, <4>2
    <3>2. Len(r.list) = Len(l) /\ DOMAIN r.list = DOMAIN l /\ l[k] \subseteq r.list[k]
      BY <1>4, <1>8, <3>1, SequenceFacts DEF ListsMore, IsIncludes
    <3>3. d = "#include"
      BY <1>2, <2>1 DEF IncludeIn, IsInclude, Directive, Directives
    <3> QED
      BY <1>5, <1>8, <3>2, <3>3
  <2>2. CASE ~IncludeIn(clean, position)
    <3>1. /\ d \in {"#if", "#ifndef"} => r.list = Append(l, {})
          /\ d \in {"#else", "#elif"} => r.list = Append(Front(l), {})
          /\ d \notin {"#if", "#ifndef", "#else", "#elif"} => r.list = l
      <4>1. ListsAs(r, s, d)
        BY <1>2, <1>4, <2>2, OtherLineLists
      <4> QED
        BY <1>4, <4>1 DEF ListsAs
    <3>2. CASE d \in {"#if", "#ifndef"}
      <4>1. PICK m : m = Append(l, {})
        OBVIOUS
      <4>2. /\ DOMAIN m = 1 .. Len(l) + 1 /\ Len(m) = Len(l) + 1
            /\ \A j \in 1 .. Len(l) : m[j] = l[j]
        BY <1>4, <4>1, SequenceAppend DEF IsIncludes
      <4> QED
        BY <1>7, <1>8, <3>1, <3>2, <4>1, <4>2
    <3>3. CASE d \in {"#else", "#elif"}
      <4>1. PICK m, n : m = Front(l) /\ n = Append(m, {})
        OBVIOUS
      <4>2. /\ IsSequence(m) /\ Len(m) = Len(l) - 1
            /\ \A j \in 1 .. Len(l) - 1 : m[j] = l[j]
        BY <1>4, <4>1, SequenceFront DEF IsIncludes
      <4>3. /\ DOMAIN n = 1 .. Len(m) + 1 /\ Len(n) = Len(m) + 1
            /\ \A j \in 1 .. Len(m) : n[j] = m[j]
        BY <4>1, <4>2, SequenceAppend
      <4>4. k < Len(l)
        BY <1>6, <1>8, <3>3
      <4>5. r.list = n
        BY <3>1, <3>3, <4>1
      <4>6. k \in 1 .. Len(m) /\ n[k] = l[k] /\ k < Len(n) /\ k \in DOMAIN n
        BY <1>7, <1>8, <4>2, <4>3, <4>4
      <4> QED
        BY <1>8, <4>5, <4>6
    <3>4. CASE d \notin {"#if", "#ifndef", "#else", "#elif"}
      BY <1>5, <1>8, <3>1, <3>4
    <3> QED
      BY <3>2, <3>3, <3>4
  <2> QED
    BY <2>1, <2>2
<1>9. CASE i \in 1 .. position - 1
  <2>1. IsListed(clean, i, l, position)
    BY <1>1, <1>2, <1>9 DEF KnownInv
  <2>2. PICK k \in DOMAIN l : /\ \E e \in l[k] : e.header = HeaderIn(clean, i)
                              /\ open # <<>> => k < Len(l)
    BY <1>2, <2>1 DEF IsListed
  <2>3. PICK e \in l[k] : e.header = HeaderIn(clean, i)
    BY <2>2
  <2>4. IsListed(clean, i, r.list, position + 1)
    BY <1>8, <2>2, <2>3
  <2> QED
    BY <1>3, <2>4
<1>10. CASE i = position
  <2>1. PICK x : x = included
    OBVIOUS
  <2>2. IncludeIn(clean, position)
    BY <1>10 DEF FreshIn
  <2>3. FindHeader(x.includes, HeaderIn(clean, position))
    BY <1>2, <1>4, <1>10, <2>1, <2>2, IncludeLineLists DEF AddsInclude
  <2>4. d = "#include"
    BY <1>2, <2>2 DEF IncludeIn, IsInclude, Directive, Directives
  <2>5. new = <<>>
    BY <1>2, <1>5, <1>10, <2>4
  <2>6. FindHeader(r, HeaderIn(clean, i))
    BY <1>2, <1>10, <2>1, <2>3
  <2> QED
    BY <1>2, <1>3, <2>5, <2>6 DEF IsListed, FindHeader
<1> QED
  BY <1>1, <1>9, <1>10

\* Behind a header of another package the section stays that of other headers.
LEMMA ProcessLineKeepsSection ==
    ASSUME LintInv, IncludesInv, SectionInv, ProcessLine
    PROVE  SectionInv'
<1> DEFINE included == CheckLanguageIncludes(includes, clean, position, File)
           plain(i) == Directive(clean.elided[i].text) \notin Directives \ {"#include", "#define"}
<1>1. /\ position \in Nat \ {0} /\ position' = position + 1 /\ clean' = clean /\ phase = "lines"
      /\ position' - 1 = position /\ File' = File
  BY LineStands
<1> SUFFICES ASSUME "asm" \notin Words(clean), NEW j \in 1 .. position,
                    IsOther(clean, j, File), \A i \in j .. position : plain(i)
             PROVE  includes'.section = OTHER_H_SECTION
  BY <1>1 DEF SectionInv
<1>2. PICK s, x, r, d : /\ s = includes /\ x = included /\ r = included.includes
                        /\ d = Directive(clean.elided[position].text)
  OBVIOUS
<1>3. includes' = r /\ r = x.includes
  BY <1>2, LineIncludes
<1>4. /\ IsIncludes(s)
      /\ \A k \in DOMAIN s.list : \A e \in s.list[k] :
            \E i \in 1 .. position - 1 : IncludeIn(clean, i) /\ HeaderIn(clean, i) = e.header
  BY <1>1, <1>2 DEF IncludesInv
<1>5. position \in j .. position
  BY <1>1
<1>6. CASE j \in 1 .. position - 1
  <2>1. \A i \in j .. position - 1 : plain(i)
    BY <1>1
  <2>2. s.section = OTHER_H_SECTION
    BY <1>1, <1>2, <1>6, <2>1 DEF SectionInv
  <2>3. CASE IncludeIn(clean, position)
    <3>1. AddsInclude(x, s, clean, position, File)
      BY <1>2, <1>4, <2>3, IncludeLineLists
    <3> QED
      BY <1>3, <2>2, <3>1 DEF AddsInclude
  <2>4. CASE ~IncludeIn(clean, position)
    <3>1. ListsAs(r, s, d)
      BY <1>2, <1>4, <2>4, OtherLineLists
    <3>2. d \notin Directives \ {"#include", "#define"}
      BY <1>2, <1>5
    <3> QED
      BY <1>3, <2>2, <3>1, <3>2 DEF ListsAs
  <2> QED
    BY <2>3, <2>4
<1>7. CASE j = position
  <2>1. /\ FreshIn(clean, position, File.dir) /\ IncludeIn(clean, position)
        /\ ClassifyInclude(File, HeaderIn(clean, position), IsSystemIn(clean, position))
                = "OTHER_HEADER"
        /\ \A i \in 1 .. position - 1 :
                IncludeIn(clean, i) => HeaderIn(clean, i) # HeaderIn(clean, position)
    BY <1>7 DEF IsOther, FreshIn
  <2>2. ~FindHeader(s, HeaderIn(clean, position))
    BY <1>4, <2>1 DEF FindHeader
  <2>3. AddsInclude(x, s, clean, position, File)
    BY <1>2, <1>4, <2>1, IncludeLineLists
  <2> QED
    BY <1>3, <2>1, <2>2, <2>3 DEF AddsInclude
<1> QED
  BY <1>1, <1>6, <1>7

-----------------------------------------------------------------------------
(* The headers of a run.                                                     *)

LEMMA OpenFileKeepsIncludes ==
    ASSUME LintInv', OpenFile
    PROVE  AllIncludesInv'
<1>1. /\ phase' = "lines" /\ position' = 1 /\ includes' = InitialIncludes
  BY DEF OpenFile
<1>2. IsSequence(clean'.elided)
  BY DEF LintInv, FileInv, IsClean, AreLines
<1>3. IsSequence(DepthIn(clean'.elided, 1).open)
  <2>1. PICK lines : lines = clean'.elided
    OBVIOUS
  <2>2. DepthIn(lines, 1).open = <<>>
    BY <1>2, <2>1, DepthOfNone
  <2> QED
    BY <2>1, <2>2, ShortSequences
<1>4. IsIncludes(InitialIncludes) /\ InitialIncludes.list = <<{}>>
  <2>1. IsSequence(<<{}>>) /\ <<{}>> # <<>>
    BY ShortSequences
  <2> QED
    BY <2>1 DEF IsIncludes, InitialIncludes, INITIAL_SECTION, OTHER_H_SECTION
<1>5. IncludesInv'
  BY <1>1, <1>3, <1>4 DEF IncludesInv
<1>6. position' - 1 = 0 /\ KnownInv' /\ SectionInv'
  BY <1>1 DEF KnownInv, SectionInv
<1> QED
  BY <1>5, <1>6 DEF AllIncludesInv

LEMMA StepKeepsIncludes ==
    ASSUME LintInv, LintInv', AllIncludesInv, [Next]_vars
    PROVE  AllIncludesInv'
<1>1. CASE OpenFile
  BY <1>1, OpenFileKeepsIncludes
<1>2. CASE ProcessLine
  BY <1>2, ProcessLineKeepsLists, ProcessLineKeepsKnown, ProcessLineKeepsSection
     DEF AllIncludesInv
<1>3. CASE Report \/ Ended \/ UNCHANGED vars
  <2>1. UNCHANGED <<fileVars, job, phase, file, position>>
    BY <1>3 DEF Report, Ended, vars
  <2>2. /\ phase' = phase /\ clean' = clean /\ includes' = includes /\ position' = position
        /\ File' = File
    BY <2>1 DEF fileVars, File
  <2> QED
    BY <2>2, Zenon DEF AllIncludesInv, IncludesInv, KnownInv, SectionInv
<1>4. CASE ParseArguments \/ Exit \/ StartFile \/ SkipFile \/ FinishLines \/ EndFile
  <2>1. phase' # "lines"
    BY <1>4 DEF ParseArguments, Exit, StartFile, SkipFile, FinishLines, EndFile
  <2> QED
    BY <2>1 DEF AllIncludesInv, IncludesInv, KnownInv, SectionInv
<1> QED
  BY <1>1, <1>2, <1>3, <1>4 DEF Next

\* The words of the properties are those of the invariant.
LEMMA SameWords ==
    ASSUME LintInv
    PROVE  /\ ~HasAsm => "asm" \notin Words(clean)
           /\ HasStrayElse <=> StrayElseIn(clean)
           /\ \A i : /\ IsFreshInclude(i) <=> FreshIn(clean, i, File.dir)
                     /\ IsIncludeLine(i) <=> IncludeIn(clean, i)
                     /\ HeaderAt(i) = HeaderIn(clean, i) /\ (IsSystem(i) <=> IsSystemIn(clean, i))
<1>1. IsClean(clean)
  BY DEF LintInv, FileInv
<1>2. ~HasAsm => "asm" \notin Words(clean)
  BY <1>1, NoAsmWord
<1>3. HasStrayElse <=> StrayElseIn(clean)
  BY DepthIsLoop DEF HasStrayElse, StrayElseIn
<1>4. \A i : /\ IsIncludeLine(i) <=> IncludeIn(clean, i)
            /\ HeaderAt(i) = HeaderIn(clean, i) /\ (IsSystem(i) <=> IsSystemIn(clean, i))
  BY DEF IsIncludeLine, IncludeIn, HeaderAt, HeaderIn, IsSystem, IsSystemIn
<1> QED
  BY <1>2, <1>3, <1>4, Zenon DEF IsFreshInclude, FreshIn

LEMMA InitHasIncludes == Init => AllIncludesInv
  BY DEF Init, AllIncludesInv, IncludesInv, KnownInv, SectionInv

\* A header included outside of every #if is listed in a set that no #else throws away
\* (_IncludeState.ResetSection): a second #include of it is found.
THEOREM UnconditionalIncludesAlwaysKnown == Spec => []UnconditionalIncludesAreKnown
<1>1. ASSUME LintInv, AllIncludesInv PROVE UnconditionalIncludesAreKnown
  <2> SUFFICES ASSUME phase = "lines", ~HasAsm, ~HasStrayElse,
                      NEW i \in 1 .. position - 1, IsFreshInclude(i),
                      DepthBefore(i).open = <<>>
               PROVE  FindHeader(includes, HeaderAt(i))
    BY DEF UnconditionalIncludesAreKnown, BetweenLines
  <2>1. /\ "asm" \notin Words(clean) /\ ~StrayElseIn(clean) /\ FreshIn(clean, i, File.dir)
        /\ HeaderAt(i) = HeaderIn(clean, i)
    BY <1>1, SameWords
  <2>2. DepthIn(clean.elided, i).open = <<>>
    BY DepthIsLoop
  <2>3. IsListed(clean, i, includes.list, position)
    BY <1>1, <2>1, <2>2 DEF AllIncludesInv, KnownInv
  <2> QED
    BY <2>1, <2>3 DEF IsListed, FindHeader
<1> QED
  BY <1>1, InitHasTypes, StepKeepsTypes, InitHasIncludes, StepKeepsIncludes, PTL DEF Spec

\* Nothing is lost when sequences are put together.
LEMMA ConcatHolds ==
    ASSUME NEW s, NEW t, IsSequence(s), IsSequence(t)
    PROVE  Range(s) \subseteq Range(s \o t) /\ Range(t) \subseteq Range(s \o t)
<1>1. PICK S : S = Range(s) \cup Range(t)
  OBVIOUS
<1>2. Range(s) \subseteq S /\ Range(t) \subseteq S
  BY <1>1
<1>3. s \in Seq(S) /\ t \in Seq(S)
  BY <1>2, SeqMonotonic DEF IsSequence
<1> QED
  BY <1>3, ConcatRange

\* Every new system header behind one of another package is found to be late
\* (_IncludeState.CheckNextIncludeOrder): the section stays that of other headers to the
\* next conditional directive.
THEOREM LateIncludesAlwaysFound == Spec => LateIncludesAreFound
<1> DEFINE late == (BetweenLines /\ position' = position + 1 /\ ~HasAsm
                    /\ IsFreshInclude(position) /\ IsSystem(position)
                    /\ ~FindHeader(includes, HeaderAt(position))
                    /\ FollowsOtherHeader(position))
           found == OrderError(position) \in Range(pending')
<1>1. ASSUME LintInv, AllIncludesInv, Next, late PROVE found
  <2>1. ProcessLine
    <3>1. position \in Nat
      BY <1>1 DEF LintInv, FileInv
    <3>2. phase = "lines" /\ pending = <<>> /\ position' # position
      BY <1>1, <3>1 DEF BetweenLines
    <3> QED
      BY <1>1, <3>2 DEF Next, ParseArguments, Exit, StartFile, SkipFile, OpenFile, Report,
                        FinishLines, EndFile, Ended, vars
  <2>2. /\ phase = "lines" /\ position \in Nat \ {0}
    BY <1>1, <2>1, LineStands
  <2>3. /\ "asm" \notin Words(clean) /\ FreshIn(clean, position, File.dir)
        /\ IsSystemIn(clean, position) /\ ~FindHeader(includes, HeaderIn(clean, position))
    BY <1>1, SameWords
  <2>4. PICK j \in 1 .. position - 1 :
            /\ IsFreshInclude(j)
            /\ ClassifyInclude(File, HeaderAt(j), IsSystem(j)) = "OTHER_HEADER"
            /\ \A i \in 1 .. j - 1 : IsIncludeLine(i) => HeaderAt(i) # HeaderAt(j)
            /\ \A i \in j .. position :
                    Directive(clean.elided[i].text) \notin Directives \ {"#include", "#define"}
    BY <1>1 DEF FollowsOtherHeader
  <2>5. IsOther(clean, j, File)
    <3>1. FreshIn(clean, j, File.dir)
      BY <1>1, <2>4, SameWords
    <3>2. /\ HeaderAt(j) = HeaderIn(clean, j)
          /\ IsSystem(j) = IsSystemIn(clean, j)
      BY DEF HeaderAt, HeaderIn, IsSystem, IsSystemIn
    <3>3. ClassifyInclude(File, HeaderIn(clean, j), IsSystemIn(clean, j)) = "OTHER_HEADER"
      BY <2>4, <3>2
    <3>4. \A i \in 1 .. j - 1 :
             IncludeIn(clean, i) => HeaderIn(clean, i) # HeaderIn(clean, j)
      BY <1>1, <2>4, SameWords
    <3> QED
      BY <3>1, <3>3, <3>4 DEF IsOther
  <2>6. includes.section = OTHER_H_SECTION
    <3>1. \A i \in j .. position - 1 : i \in j .. position
      BY <2>2
    <3> QED
      BY <1>1, <2>2, <2>3, <2>4, <2>5, <3>1 DEF AllIncludesInv, SectionInv
  <2>7. PICK x : x = CheckLanguageIncludes(includes, clean, position, File)
    OBVIOUS
  <2>8. \E s : IsSequence(s) /\ pending' = s \o x.errors
    BY <1>1, <2>1, <2>3, <2>7, LineIncludes
  <2>9. IsIncludes(includes) /\ IncludeIn(clean, position)
    BY <1>1, <2>2, <2>3 DEF AllIncludesInv, IncludesInv, FreshIn
  <2>10. AddsInclude(x, includes, clean, position, File)
    BY <2>7, <2>9, IncludeLineLists
  <2>11. \E first, rest : /\ IsSequence(first) /\ IsSequence(rest)
                         /\ x.errors = first \o (<<OrderError(position)>> \o rest)
    BY <2>3, <2>6, <2>10 DEF AddsInclude
  <2>12. PICK s, first, rest, e :
            /\ IsSequence(s) /\ IsSequence(first) /\ IsSequence(rest)
            /\ e = OrderError(position)
            /\ pending' = s \o (first \o (<<e>> \o rest))
    BY <2>8, <2>11
  <2>13. e \in Range(<<e>>) /\ IsSequence(<<e>>)
    BY ShortSequences DEF Range
  <2>14. e \in Range(<<e>> \o rest) /\ IsSequence(<<e>> \o rest)
    <3>1. PICK one : one = <<e>>
      OBVIOUS
    <3> QED
      BY <2>12, <2>13, <3>1, ConcatHolds, ConcatType
  <2>15. PICK last : last = <<e>> \o rest
    OBVIOUS
  <2>16. PICK more : more = first \o last
    OBVIOUS
  <2>17. e \in Range(more) /\ IsSequence(more)
    BY <2>12, <2>14, <2>15, <2>16, ConcatHolds, ConcatType
  <2>18. e \in Range(s \o more)
    BY <2>12, <2>17, ConcatHolds
  <2> QED
    BY <2>12, <2>15, <2>16, <2>18
<1>2. LateIncludesAreFound <=> [][late => found]_vars
  BY DEF LateIncludesAreFound
<1> HIDE DEF late, found
<1>3. ASSUME LintInv, AllIncludesInv, [Next]_vars PROVE [late => found]_vars
  BY <1>1, <1>3
<1> QED
  BY <1>2, <1>3, InitHasTypes, StepKeepsTypes, InitHasIncludes, StepKeepsIncludes, PTL DEF Spec

-----------------------------------------------------------------------------
(* The stacks kept at #if and #else.                                       *)

IsKept(pp, else) ==
    /\ {"stack_before_if", "stack_before_else", "seen_else"} \subseteq DOMAIN pp
    /\ AllSeen(pp.stack_before_if) /\ AllSeen(pp.stack_before_else)
    /\ pp.seen_else = else

\* Outside of #else parts the stack has the depth of the braces; inside of them the
\* outermost one has kept the stack that has.
FirstElse(open, i) == open[i] = TRUE /\ \A j \in 1 .. i - 1 : open[j] = FALSE
NoElse(open) == \A i \in 1 .. Len(open) : open[i] = FALSE
Follows(stack, pps, open, depth) ==
    /\ AllSeen(stack) /\ IsSequence(pps) /\ IsSequence(open) /\ Len(pps) = Len(open)
    /\ \A i \in 1 .. Len(open) : open[i] \in BOOLEAN /\ IsKept(pps[i], open[i])
    /\ \A i \in 1 .. Len(open) :
            FirstElse(open, i) => Len(pps[i].stack_before_else) = depth
    /\ NoElse(open) => Len(stack) = depth

\* An #if or #else more.
LEMMA FollowsMore ==
    ASSUME NEW stack, NEW pps, NEW open, NEW depth, Follows(stack, pps, open, depth),
           NEW new, AllSeen(new), NEW else \in BOOLEAN, NEW pp, IsKept(pp, else),
           NoElse(open) => IF else THEN Len(pp.stack_before_else) = depth ELSE Len(new) = depth
    PROVE  Follows(new, Append(pps, pp), Append(open, else), depth)
<1>1. PICK n, m : n = Len(open) /\ m = n + 1
  OBVIOUS
<1>2. PICK s, t : s = Append(pps, pp) /\ t = Append(open, else)
  OBVIOUS
<1>3. /\ n \in Nat /\ m \in Nat /\ IsSequence(s) /\ IsSequence(t) /\ Len(s) = m /\ Len(t) = m
      /\ s[m] = pp /\ t[m] = else
      /\ \A i \in 1 .. n : s[i] = pps[i] /\ t[i] = open[i]
  <2>1. IsSequence(pps) /\ IsSequence(open) /\ Len(pps) = n /\ Len(open) = n
    BY <1>1 DEF Follows
  <2>2. n \in Nat
    BY <2>1, SequenceFacts
  <2> QED
    BY <1>1, <1>2, <2>1, <2>2, SequenceAppend
<1>4. \A i \in 1 .. m : i \in 1 .. n \/ i = m
  BY <1>1, <1>3
<1>5. ASSUME NEW i \in 1 .. m PROVE t[i] \in BOOLEAN /\ IsKept(s[i], t[i])
  BY <1>1, <1>3, <1>4, <1>5 DEF Follows
<1>6. 1 .. m - 1 = 1 .. n
  BY <1>1, <1>3
<1>7. ASSUME NEW i \in 1 .. m, FirstElse(t, i) PROVE Len(s[i].stack_before_else) = depth
  <2>1. CASE i \in 1 .. n
    <3>1. \A j \in 1 .. i - 1 : j \in 1 .. n
      BY <1>3, <2>1
    <3>2. FirstElse(open, i)
      BY <1>3, <1>7, <2>1, <3>1 DEF FirstElse
    <3> QED
      BY <1>1, <1>3, <2>1, <3>2 DEF Follows
  <2>2. CASE i = m
    <3>1. else = TRUE
      BY <1>3, <1>7, <2>2 DEF FirstElse
    <3>2. \A j \in 1 .. n : open[j] = FALSE
      BY <1>3, <1>6, <1>7, <2>2 DEF FirstElse
    <3>3. NoElse(open)
      BY <1>1, <3>2 DEF NoElse
    <3> QED
      BY <1>3, <2>2, <3>1, <3>3
  <2> QED
    BY <1>4, <2>1, <2>2
<1>8. ASSUME NoElse(t) PROVE Len(new) = depth
  <2>1. else = FALSE
    <3>1. m \in 1 .. m
      BY <1>1, <1>3
    <3> QED
      BY <1>3, <1>8, <3>1 DEF NoElse
  <2>2. NoElse(open)
    <3>1. \A i \in 1 .. n : i \in 1 .. m
      BY <1>1, <1>3
    <3> QED
      BY <1>1, <1>3, <1>8, <3>1 DEF NoElse
  <2> QED
    BY <2>1, <2>2
<1>9. Follows(new, s, t, depth)
  BY <1>3, <1>5, <1>7, <1>8 DEF Follows
<1> QED
  BY <1>2, <1>9

\* One less.
LEMMA FollowsLess ==
    ASSUME NEW stack, NEW pps, NEW open, NEW depth, Follows(stack, pps, open, depth),
           pps # <<>>, NEW pp, pp = Last(pps)
    PROVE  /\ open # <<>> /\ pp.seen_else \in BOOLEAN /\ IsKept(pp, pp.seen_else)
           /\ Follows(IF pp.seen_else THEN pp.stack_before_else ELSE stack,
                      Front(pps), Front(open), depth)
           /\ pp.seen_else = FALSE /\ NoElse(Front(open)) => Len(stack) = depth
<1>1. PICK m, n : m = Len(open) /\ n = m - 1
  OBVIOUS
<1>2. PICK s, t : s = Front(pps) /\ t = Front(open)
  OBVIOUS
<1>3. IsSequence(pps) /\ IsSequence(open) /\ Len(pps) = m
  BY <1>1 DEF Follows
<1>4. /\ m \in Nat \ {0} /\ IsSequence(s) /\ Len(s) = n /\ \A i \in 1 .. n : s[i] = pps[i]
      /\ pps[m] = pp
  BY <1>1, <1>2, <1>3, SequenceFront DEF Last
<1>5. open # <<>>
  BY <1>1, <1>4, ShortSequences
<1>6. IsSequence(t) /\ Len(t) = n /\ \A i \in 1 .. n : t[i] = open[i]
  BY <1>1, <1>2, <1>3, <1>5, SequenceFront
<1>7. n \in Nat /\ m \in 1 .. m /\ m = n + 1 /\ \A i \in 1 .. n : i \in 1 .. m
  BY <1>1, <1>4
<1>8. /\ \A i \in 1 .. m : open[i] \in BOOLEAN /\ IsKept(pps[i], open[i])
      /\ \A i \in 1 .. m : FirstElse(open, i) => Len(pps[i].stack_before_else) = depth
      /\ NoElse(open) => Len(stack) = depth
      /\ AllSeen(stack)
  BY <1>1 DEF Follows
<1>9. open[m] = pp.seen_else /\ pp.seen_else \in BOOLEAN /\ IsKept(pp, pp.seen_else)
  <2>1. open[m] \in BOOLEAN /\ IsKept(pps[m], open[m])
    BY <1>7, <1>8
  <2> QED
    BY <1>4, <2>1 DEF IsKept
<1>10. \A i \in 1 .. n : t[i] \in BOOLEAN /\ IsKept(s[i], t[i])
  BY <1>4, <1>6, <1>7, <1>8
<1>11. ASSUME NEW i \in 1 .. n, FirstElse(t, i) PROVE Len(s[i].stack_before_else) = depth
  <2>1. \A j \in 1 .. i - 1 : j \in 1 .. n
    BY <1>7
  <2>2. FirstElse(open, i)
    BY <1>6, <1>11, <2>1 DEF FirstElse
  <2> QED
    BY <1>4, <1>7, <1>8, <2>2
<1>12. PICK new : new = IF pp.seen_else THEN pp.stack_before_else ELSE stack
  OBVIOUS
<1>13. AllSeen(new)
  BY <1>8, <1>9, <1>12 DEF IsKept
<1>14. ASSUME NoElse(t) PROVE Len(new) = depth /\ (pp.seen_else = FALSE => Len(stack) = depth)
  <2>1. \A j \in 1 .. n : open[j] = FALSE
    BY <1>6, <1>14 DEF NoElse
  <2>2. CASE pp.seen_else = TRUE
    <3>1. \A j \in 1 .. m - 1 : j \in 1 .. n
      BY <1>7
    <3>2. FirstElse(open, m)
      BY <1>9, <2>1, <2>2, <3>1 DEF FirstElse
    <3>3. Len(pps[m].stack_before_else) = depth
      BY <1>7, <1>8, <3>2
    <3> QED
      BY <1>4, <1>12, <2>2, <3>3
  <2>3. CASE pp.seen_else = FALSE
    <3>1. \A j \in 1 .. m : j \in 1 .. n \/ j = m
      BY <1>7
    <3>2. NoElse(open)
      BY <1>1, <1>9, <2>1, <2>3, <3>1 DEF NoElse
    <3> QED
      BY <1>8, <1>12, <2>3, <3>2
  <2> QED
    BY <1>9, <2>2, <2>3
<1>15. Follows(new, s, t, depth)
  BY <1>4, <1>6, <1>10, <1>11, <1>13, <1>14 DEF Follows
<1> QED
  BY <1>2, <1>5, <1>9, <1>12, <1>14, <1>15

\* UpdatePreprocessor keeps, restores and forgets as Branch does.
LEMMA UpdatePreprocessorFollows ==
    ASSUME NEW n, HasStacks(n), NEW open, NEW depth,
           Follows(n.stack, n.pp_stack, open, depth), NEW text,
           NEW changed, changed = UpdatePreprocessor(n, text)
    PROVE  /\ HasStacks(changed)
           /\ Follows(changed.stack, changed.pp_stack, Branch(open, text), depth)
<1> DEFINE directive == Directive(text)
           new == Branch(open, text)
           pps == n.pp_stack
           stack == n.stack
<1>1. changed = CASE directive \in {"#if", "#ifndef"} -> BeginIf(n)
                  [] directive \in {"#else", "#elif"} /\ pps # <<>> -> BeginElse(n)
                  [] directive = "#endif" /\ pps # <<>> -> EndIf(n)
                  [] OTHER -> n
  BY DEF UpdatePreprocessor
<1>2. new = CASE directive \in {"#if", "#ifndef"} -> Append(open, FALSE)
              [] directive \in {"#else", "#elif"} /\ open # <<>> -> Append(Front(open), TRUE)
              [] directive = "#endif" /\ open # <<>> -> Front(open)
              [] OTHER -> open
  BY DEF Branch
<1>3. pps = <<>> <=> open = <<>>
  <2>1. IsSequence(pps) /\ IsSequence(open) /\ Len(pps) = Len(open)
    BY DEF Follows
  <2> QED
    BY <2>1, SameSequence, ShortSequences
<1>4. HasStacks(n) /\ AllSeen(stack)
  BY DEF Follows
<1> HIDE DEF directive, new
<1>5. CASE directive \in {"#if", "#ifndef"}
  <2>1. new = Append(open, FALSE) /\ changed = BeginIf(n)
    BY <1>1, <1>2, <1>5
  <2>2. PICK pp : pp = PreprocessorInfo(stack)
    OBVIOUS
  <2>3. HasStacks(changed) /\ changed.stack = stack /\ changed.pp_stack = Append(pps, pp)
    BY <2>1, <2>2 DEF BeginIf, HasStacks
  <2>4. IsKept(pp, FALSE)
    <3>1. AllSeen(<<>>)
      BY ShortSequences DEF AllSeen
    <3> QED
      BY <1>4, <2>2, <3>1 DEF IsKept, PreprocessorInfo
  <2>5. NoElse(open) => Len(stack) = depth
    BY DEF Follows
  <2>6. Follows(stack, Append(pps, pp), Append(open, FALSE), depth)
    BY <1>4, <2>4, <2>5, FollowsMore
  <2> QED
    BY <2>1, <2>3, <2>6 DEF new
<1>6. CASE directive \in {"#else", "#elif"} /\ pps # <<>>
  <2>1. new = Append(Front(open), TRUE) /\ changed = BeginElse(n)
    BY <1>1, <1>2, <1>3, <1>6
  <2>2. PICK pp, kept : /\ pp = Last(pps)
                        /\ kept = IF pp.seen_else THEN pp
                                  ELSE [pp EXCEPT !.seen_else = TRUE, !.stack_before_else = stack]
    OBVIOUS
  <2>3. /\ HasStacks(changed) /\ changed.stack = pp.stack_before_if
        /\ changed.pp_stack = Append(Front(pps), kept)
    BY <2>1, <2>2 DEF BeginElse, HasStacks
  <2>4. PICK old : old = IF pp.seen_else THEN pp.stack_before_else ELSE stack
    OBVIOUS
  <2>5. /\ pp.seen_else \in BOOLEAN /\ IsKept(pp, pp.seen_else)
        /\ Follows(old, Front(pps), Front(open), depth)
    BY <1>6, <2>2, <2>4, FollowsLess
  <2>6. IsKept(kept, TRUE) /\ kept.stack_before_else = old
    BY <1>4, <2>2, <2>4, <2>5 DEF IsKept
  <2>7. NoElse(Front(open)) => Len(kept.stack_before_else) = depth
    BY <2>5, <2>6 DEF Follows
  <2>8. AllSeen(pp.stack_before_if)
    BY <2>5 DEF IsKept
  <2>9. Follows(pp.stack_before_if, Append(Front(pps), kept), Append(Front(open), TRUE), depth)
    BY <2>5, <2>6, <2>7, <2>8, FollowsMore
  <2> QED
    BY <2>1, <2>3, <2>9 DEF new
<1>7. CASE directive = "#endif" /\ pps # <<>>
  <2>1. new = Front(open) /\ changed = EndIf(n)
    BY <1>1, <1>2, <1>3, <1>7
  <2>2. PICK pp : pp = Last(pps)
    OBVIOUS
  <2>3. /\ HasStacks(changed) /\ changed.pp_stack = Front(pps)
        /\ changed.stack = IF pp.seen_else THEN pp.stack_before_else ELSE stack
    BY <2>1, <2>2 DEF EndIf, HasStacks
  <2>4. Follows(changed.stack, Front(pps), Front(open), depth)
    BY <1>7, <2>2, <2>3, FollowsLess
  <2> QED
    BY <2>1, <2>3, <2>4 DEF new
<1>8. CASE /\ directive \notin {"#if", "#ifndef"}
           /\ ~(directive \in {"#else", "#elif", "#endif"} /\ pps # <<>>)
  <2>1. new = open /\ changed = n
    BY <1>1, <1>2, <1>3, <1>8
  <2> QED
    BY <1>4, <2>1 DEF new
<1> QED
  BY <1>5, <1>6, <1>7, <1>8

\* A line changes the stack as DepthStep changes the depth.
LEMMA UpdateFollows ==
    ASSUME NEW n, HasStacks(n), NEW open, NEW depth,
           Follows(n.stack, n.pp_stack, open, depth),
           NEW c, NEW ln, NEW line, line = c.elided[ln], IsSequence(line.text), HeadsEnd(line.text),
           NEW new, new = Update(n, c, ln).nesting,
           NEW s, s = DepthStep([open |-> open, depth |-> depth], line)
    PROVE  HasStacks(new) /\ Follows(new.stack, new.pp_stack, s.open, s.depth)
<1>1. PICK changed, text : text = line.text /\ changed = UpdatePreprocessor(n, text)
  OBVIOUS
<1>2. HasStacks(changed) /\ Follows(changed.stack, changed.pp_stack, Branch(open, text), depth)
  BY <1>1, UpdatePreprocessorFollows
<1>3. /\ HasStacks(new) /\ new.pp_stack = changed.pp_stack
      /\ AllSeen(new.stack) /\ Len(new.stack) = Depth(Len(changed.stack), text)
  <2>1. AllSeen(changed.stack)
    BY <1>2 DEF Follows
  <2> QED
    BY <1>1, <1>2, <2>1, UpdateStands
<1>4. PICK next : next = Branch(open, text)
  OBVIOUS
<1>5. /\ s.open = next
      /\ s.depth = IF TRUE \in Range(next) THEN depth ELSE Depth(depth, text)
  BY <1>1, <1>4 DEF DepthStep
<1>6. /\ IsSequence(next) /\ Len(changed.pp_stack) = Len(next) /\ IsSequence(changed.pp_stack)
      /\ \A i \in 1 .. Len(next) : next[i] \in BOOLEAN /\ IsKept(changed.pp_stack[i], next[i])
      /\ \A i \in 1 .. Len(next) :
            FirstElse(next, i) => Len(changed.pp_stack[i].stack_before_else) = depth
      /\ NoElse(next) => Len(changed.stack) = depth
  BY <1>2, <1>4 DEF Follows
<1>7. NoElse(next) <=> TRUE \notin Range(next)
  <2>1. DOMAIN next = 1 .. Len(next)
    BY <1>6, SequenceFacts
  <2> QED
    BY <1>6, <2>1 DEF NoElse, Range
<1>8. ASSUME NEW i \in 1 .. Len(next), FirstElse(next, i)
      PROVE  Len(new.pp_stack[i].stack_before_else) = s.depth
  <2>1. ~NoElse(next)
    BY <1>8 DEF FirstElse, NoElse
  <2> QED
    BY <1>3, <1>5, <1>6, <1>7, <1>8, <2>1
<1>9. NoElse(next) => Len(new.stack) = s.depth
  BY <1>3, <1>5, <1>6, <1>7
<1> QED
  BY <1>3, <1>5, <1>6, <1>8, <1>9 DEF Follows

-----------------------------------------------------------------------------
(* The lines of a file.                                                    *)

HeadsEndIn(c) == \A i \in DOMAIN c.elided : HeadsEnd(c.elided[i].text)

\* The stack follows the braces of the lines so far; see Follows.
BracesInv ==
    (phase = "lines" /\ HeadsEndIn(clean)) =>
        /\ HasStacks(nesting)
        /\ Follows(nesting.stack, nesting.pp_stack,
                   DepthIn(clean.elided, position).open, DepthIn(clean.elided, position).depth)

LEMMA OpenFileKeepsBraces ==
    ASSUME LintInv', OpenFile
    PROVE  BracesInv'
<1>1. /\ phase' = "lines" /\ position' = 1 /\ nesting' = InitialNesting
  BY DEF OpenFile
<1>2. IsSequence(clean'.elided)
  BY DEF LintInv, FileInv, IsClean, AreLines
<1>3. DepthIn(clean'.elided, 1) = [open |-> <<>>, depth |-> 0]
  <2>1. PICK lines : lines = clean'.elided
    OBVIOUS
  <2> QED
    BY <1>2, <2>1, DepthAtFirst DEF NoDepth
<1>4. Follows(<<>>, <<>>, <<>>, 0)
  BY ShortSequences DEF Follows, AllSeen
<1>5. /\ HasStacks(InitialNesting)
      /\ InitialNesting.stack = <<>> /\ InitialNesting.pp_stack = <<>>
  BY DEF HasStacks, InitialNesting
<1> QED
  BY <1>1, <1>3, <1>4, <1>5 DEF BracesInv

LEMMA ProcessLineKeepsBraces ==
    ASSUME LintInv, BracesInv, ProcessLine
    PROVE  BracesInv'
<1> SUFFICES ASSUME HeadsEndIn(clean')
             PROVE  /\ HasStacks(nesting')
                    /\ Follows(nesting'.stack, nesting'.pp_stack,
                               DepthIn(clean'.elided, position').open,
                               DepthIn(clean'.elided, position').depth)
  BY DEF BracesInv
<1>1. /\ position' = position + 1 /\ clean' = clean /\ phase = "lines" /\ IsClean(clean)
      /\ IsSequence(clean.elided) /\ position \in 1 .. Len(clean.elided)
      /\ position \in DOMAIN clean.elided
  BY LineStands
<1>2. nesting' = Update(nesting, clean, position).nesting
  BY DEF ProcessLine, FinishLine
<1>3. PICK s, d, line : /\ s = DepthIn(clean.elided, position) /\ line = clean.elided[position]
                        /\ d = DepthIn(clean.elided, position + 1)
  OBVIOUS
<1>4. HasStacks(nesting) /\ Follows(nesting.stack, nesting.pp_stack, s.open, s.depth)
  BY <1>1, <1>3 DEF BracesInv
<1>5. d = DepthStep(s, line)
  BY <1>1, <1>3, DepthAfter
<1>6. DepthStep(s, line) = DepthStep([open |-> s.open, depth |-> s.depth], line)
  BY DEF DepthStep
<1>7. IsSequence(line.text) /\ HeadsEnd(line.text)
  BY <1>1, <1>3 DEF HeadsEndIn, IsClean, AreLines
<1>8. HasStacks(nesting') /\ Follows(nesting'.stack, nesting'.pp_stack, d.open, d.depth)
  BY <1>2, <1>3, <1>4, <1>5, <1>6, <1>7, UpdateFollows
<1> QED
  BY <1>1, <1>3, <1>8

LEMMA StepKeepsBraces ==
    ASSUME LintInv, LintInv', BracesInv, [Next]_vars
    PROVE  BracesInv'
<1>1. CASE OpenFile
  BY <1>1, OpenFileKeepsBraces
<1>2. CASE ProcessLine
  BY <1>2, ProcessLineKeepsBraces
<1>3. CASE Report \/ Ended \/ UNCHANGED vars
  <2>1. UNCHANGED <<fileVars, job, phase, file, position>>
    BY <1>3 DEF Report, Ended, vars
  <2>2. phase' = phase /\ clean' = clean /\ nesting' = nesting /\ position' = position
    BY <2>1 DEF fileVars
  <2> QED
    BY <2>2, Zenon DEF BracesInv
<1>4. CASE ParseArguments \/ Exit \/ StartFile \/ SkipFile \/ FinishLines \/ EndFile
  <2>1. phase' # "lines"
    BY <1>4 DEF ParseArguments, Exit, StartFile, SkipFile, FinishLines, EndFile
  <2> QED
    BY <2>1 DEF BracesInv
<1> QED
  BY <1>1, <1>2, <1>3, <1>4 DEF Next

\* Outside of #else parts the stack has one block for every brace that is open
\* (NestingState.Update and UpdatePreprocessor), if every head has its brace on its line.
THEOREM StackAlwaysFollowsBraces == Spec => []StackFollowsBraces
<1>1. Init => BracesInv
  BY DEF Init, BracesInv
<1>2. ASSUME LintInv, BracesInv PROVE StackFollowsBraces
  <2> DEFINE before == DepthBefore(position)
             seen == {i \in DOMAIN nesting.stack : nesting.stack[i].seen_open_brace}
  <2> SUFFICES ASSUME phase = "lines", HeadsEndOnTheirLines, TRUE \notin Range(before.open)
               PROVE  Cardinality(seen) = before.depth
    BY Zenon DEF StackFollowsBraces, BetweenLines
  <2>1. before = DepthIn(clean.elided, position)
    BY DepthIsLoop
  <2>2. HeadsEndIn(clean)
    BY Zenon DEF HeadsEndOnTheirLines, HeadsEndIn, HeadsEnd
  <2> HIDE DEF before
  <2>3. PICK stack : /\ stack = nesting.stack
                     /\ Follows(stack, nesting.pp_stack, before.open, before.depth)
    BY <1>2, <2>1, <2>2 DEF BracesInv
  <2>4. NoElse(before.open)
    <3>1. /\ DOMAIN before.open = 1 .. Len(before.open)
          /\ \A i \in 1 .. Len(before.open) : before.open[i] \in BOOLEAN
      BY <2>3, SequenceFacts DEF Follows
    <3> QED
      BY <3>1 DEF NoElse, Range
  <2>5. AllSeen(stack) /\ Len(stack) = before.depth
    BY <2>3, <2>4 DEF Follows
  <2>6. Len(stack) \in Nat /\ DOMAIN stack = 1 .. Len(stack)
    BY <2>5, SequenceFacts DEF AllSeen
  <2>7. seen = 1 .. Len(stack)
    BY <2>3, <2>5, <2>6 DEF AllSeen, IsOpen
  <2> HIDE DEF seen
  <2>8. Cardinality(1 .. Len(stack)) = Len(stack)
    <3>1. PICK m : m = Len(stack) /\ m \in Nat
      BY <2>6
    <3>2. 1 \in Int /\ m \in Int
      BY <3>1
    <3>3. Cardinality(1 .. m) = IF 1 > m THEN 0 ELSE m - 1 + 1
      BY <3>2, FS_Interval, Zenon
    <3>4. (IF 1 > m THEN 0 ELSE m - 1 + 1) = m
      BY <3>1
    <3> QED
      BY <3>1, <3>3, <3>4
  <2> QED
    BY <2>5, <2>7, <2>8
<1> QED
  BY <1>1, <1>2, InitHasTypes, StepKeepsTypes, StepKeepsBraces, PTL DEF Spec

-----------------------------------------------------------------------------
(* Brackets: the stack of a scan without the pending ones.                 *)

Brackets == Opening \cup Closing \cup {"<", ">"}
IsStackOf(s) == s \in Seq(Brackets)

\* The brackets of a stack that are not b.
BareTurn(b, s, c) == IF c = b THEN s ELSE Append(s, c)
BareLoop == INSTANCE SequenceLemmas WITH
    Step <- LAMBDA b, q, s, c : BareTurn(b, s, c),
    Holds <- LAMBDA b, q, s, k : TRUE
Bare(stack, b) == BareLoop!Loop(b, 0, <<>>, stack)

\* An empty stack has none; a bracket on top is one more, unless it is b.
LEMMA BareOfNone == ASSUME NEW b PROVE Bare(<<>>, b) = <<>>
BY BareLoop!LoopOfNone DEF Bare

LEMMA BareOfAppend ==
    ASSUME NEW s, IsStackOf(s), NEW c \in Brackets, NEW b
    PROVE  Bare(Append(s, c), b) = IF c = b THEN Bare(s, b) ELSE Append(Bare(s, b), c)
<1>1. PICK n, t : n = Len(s) /\ t = Append(s, c)
  OBVIOUS
<1>2. /\ n \in Nat /\ DOMAIN s = 1 .. n /\ Len(t) = n + 1 /\ DOMAIN t = 1 .. n + 1
      /\ \A i \in 1 .. n : t[i] = s[i]
  BY <1>1 DEF IsStackOf
<1>3. t[n + 1] = c
  BY <1>1 DEF IsStackOf
<1>4. BareLoop!Loop(b, 0, <<>>, t) = BareTurn(b, BareLoop!Loop(b, 0, <<>>, s), t[n + 1])
  <2>1. Len(s) = n
    BY <1>1
  <2> QED
    BY <1>2, <2>1, BareLoop!LoopAppend
<1> QED
  BY <1>1, <1>3, <1>4 DEF BareTurn, Bare

\* The last bracket of a stack, and those below.
LEMMA StackParts ==
    ASSUME NEW s, IsStackOf(s), s # <<>>
    PROVE  /\ IsStackOf(Front(s)) /\ Last(s) \in Brackets /\ s = Append(Front(s), Last(s))
           /\ Len(s) \in Nat \ {0} /\ Len(Front(s)) = Len(s) - 1 /\ Last(s) = s[Len(s)]
           /\ \A i \in 1 .. Len(s) - 1 : Front(s)[i] = s[i]
<1>1. PICK n \in Nat \ {0} : n = Len(s)
  BY DEF IsStackOf
<1>2. Front(s) = SubSeq(s, 1, n - 1) /\ Last(s) = s[n]
  BY <1>1 DEF Front, Last
<1>3. /\ SubSeq(s, 1, n - 1) \in Seq(Brackets) /\ s[n] \in Brackets
      /\ Len(SubSeq(s, 1, n - 1)) = n - 1
      /\ \A i \in 1 .. n - 1 : SubSeq(s, 1, n - 1)[i] = s[i]
  BY <1>1 DEF IsStackOf
<1>4. s = Append(SubSeq(s, 1, n - 1), s[n])
  BY <1>1 DEF IsStackOf
<1> QED
  BY <1>1, <1>2, <1>3, <1>4 DEF IsStackOf

\* A stack with a bracket more: its lowest one stays.
LEMMA StackWithBracket ==
    ASSUME NEW s, IsStackOf(s), NEW c \in Brackets
    PROVE  /\ IsStackOf(Append(s, c)) /\ Append(s, c) # <<>>
           /\ Append(s, c)[1] = IF s = <<>> THEN c ELSE s[1]
<1>1. PICK n \in Nat : n = Len(s)
  BY DEF IsStackOf
<1>2. Append(s, c) \in Seq(Brackets) /\ Len(Append(s, c)) = n + 1
  BY <1>1 DEF IsStackOf
<1>3. CASE s = <<>>
  BY <1>2, <1>3 DEF IsStackOf
<1>4. CASE s # <<>>
  <2>1. n \in Nat \ {0}
    BY <1>1, <1>4 DEF IsStackOf
  <2>2. Append(s, c)[1] = s[1]
    BY <1>1, <2>1 DEF IsStackOf
  <2> QED
    BY <1>2, <1>4, <2>1, <2>2 DEF IsStackOf
<1> QED
  BY <1>3, <1>4

\* A stack of pending brackets only has no others; one that starts with another has some.
LEMMA BareOfStack ==
    ASSUME NEW s, IsStackOf(s), NEW b
    PROVE  /\ IsStackOf(Bare(s, b))
           /\ (\A i \in DOMAIN s : s[i] = b) => Bare(s, b) = <<>>
           /\ (s # <<>> /\ s[1] # b) => Bare(s, b) # <<>>
<1> DEFINE Right(t) == /\ IsStackOf(Bare(t, b))
                       /\ (\A i \in DOMAIN t : t[i] = b) => Bare(t, b) = <<>>
                       /\ (t # <<>> /\ t[1] # b) => Bare(t, b) # <<>>
           T == {t \in Seq(Brackets) : Right(t)}
<1>1. <<>> \in T
  <2>1. <<>> \in Seq(Brackets) /\ Bare(<<>>, b) = <<>>
    BY BareOfNone
  <2> QED
    BY <2>1 DEF IsStackOf
<1>2. ASSUME NEW t \in Seq(Brackets), NEW c \in Brackets, t \in T PROVE Append(t, c) \in T
  <2>1. PICK u : u = Append(t, c)
    OBVIOUS
  <2>2. PICK v : v = Bare(t, b)
    OBVIOUS
  <2>3. IsStackOf(t) /\ IsStackOf(v) /\ IsStackOf(u)
    BY <1>2, <2>1, <2>2, StackWithBracket DEF IsStackOf
  <2>4. Bare(u, b) = IF c = b THEN v ELSE Append(v, c)
    BY <2>1, <2>2, <2>3, BareOfAppend
  <2>5. IsStackOf(Bare(u, b))
    BY <2>3, <2>4, StackWithBracket
  <2>6. ASSUME \A i \in DOMAIN u : u[i] = b PROVE Bare(u, b) = <<>>
    <3>1. \A i \in DOMAIN t : i \in DOMAIN u /\ u[i] = t[i]
      BY <2>1
    <3>2. Len(u) \in DOMAIN u /\ u[Len(u)] = c
      BY <2>1
    <3>3. c = b
      BY <2>6, <3>2
    <3>4. v = <<>>
      BY <1>2, <2>2, <2>6, <3>1
    <3> QED
      BY <2>4, <3>3, <3>4
  <2>7. ASSUME u[1] # b PROVE Bare(u, b) # <<>>
    <3>1. CASE t = <<>>
      <4>1. c # b
        BY <2>1, <2>3, <2>7, <3>1, StackWithBracket
      <4> QED
        BY <2>3, <2>4, <4>1, StackWithBracket
    <3>2. CASE t # <<>>
      <4>1. t[1] # b
        BY <2>1, <2>3, <2>7, <3>2, StackWithBracket
      <4>2. v # <<>>
        BY <1>2, <2>2, <3>2, <4>1
      <4> QED
        BY <2>3, <2>4, <4>2, StackWithBracket
    <3> QED
      BY <3>1, <3>2
  <2> QED
    BY <2>1, <2>3, <2>5, <2>6, <2>7 DEF IsStackOf
<1> HIDE DEF T
<1>3. Seq(Brackets) \subseteq T
  BY <1>1, <1>2, SeqInduction
<1>4. s \in T
  BY <1>3 DEF IsStackOf
<1> QED
  BY <1>4 DEF T

\* Brackets b on top of a stack are dropped without a change to the others.
LEMMA DropPendingFacts ==
    ASSUME NEW s, IsStackOf(s), NEW b, s # <<>>, s[1] # b, NEW d, d = DropPending(s, b)
    PROVE  /\ IsStackOf(d) /\ d # <<>> /\ d[1] = s[1] /\ Last(d) # b
           /\ Bare(d, b) = Bare(s, b)
<1> DEFINE others == {i \in 1 .. Len(s) : s[i] # b}
           kept == SelectLastInSeq(s, LAMBDA c : c # b)
<1>1. PICK n \in Nat \ {0} : n = Len(s)
  BY DEF IsStackOf
<1>2. kept = IF others # {} THEN Max(others) ELSE 0
  BY Zenon DEF SelectLastInSeq
<1>3. d = SubSeq(s, 1, kept)
  BY Zenon DEF DropPending
<1> HIDE DEF kept
<1>4. 1 \in others /\ others \in SUBSET (1 .. n)
  BY <1>1
<1>5. kept \in 1 .. n /\ s[kept] # b /\ \A i \in kept + 1 .. n : s[i] = b
  <2>1. kept \in others /\ \A i \in others : i <= kept
    <3> HIDE DEF others
    <3> QED
      BY <1>2, <1>4, MaxOfInterval
  <2>2. kept \in 1 .. n /\ s[kept] # b
    BY <1>1, <2>1
  <2>3. ASSUME NEW i \in kept + 1 .. n PROVE s[i] = b
    <3>1. i \in 1 .. n /\ ~(i <= kept)
      BY <2>2
    <3>2. i \notin others
      BY <2>1, <3>1
    <3> QED
      BY <1>1, <3>1, <3>2
  <2> QED
    BY <2>2, <2>3
<1> HIDE DEF others
<1>6. /\ d \in Seq(Brackets) /\ Len(d) = kept /\ d[1] = s[1] /\ d[kept] = s[kept]
  BY <1>1, <1>3, <1>5 DEF IsStackOf
<1> DEFINE T == {m \in Nat : kept + m <= n => Bare(SubSeq(s, 1, kept + m), b) = Bare(d, b)}
<1>7. 0 \in T
  BY <1>3, <1>5
<1>8. ASSUME NEW m \in Nat, m \in T PROVE m + 1 \in T
  <2> SUFFICES ASSUME kept + (m + 1) <= n
               PROVE Bare(SubSeq(s, 1, kept + (m + 1)), b) = Bare(d, b)
    OBVIOUS
  <2>1. PICK i, j : i = kept + m /\ j = kept + (m + 1)
    OBVIOUS
  <2>2. i \in 1 .. n /\ j \in 1 .. n /\ j = i + 1 /\ j \in kept + 1 .. n
    BY <1>5, <2>1
  <2>3. SubSeq(s, 1, i) \in Seq(Brackets) /\ s[j] \in Brackets
    BY <1>1, <2>2 DEF IsStackOf
  <2>4. SubSeq(s, 1, j) = Append(SubSeq(s, 1, i), s[j])
    BY <1>1, <2>2 DEF IsStackOf
  <2>5. Bare(SubSeq(s, 1, j), b) = Bare(SubSeq(s, 1, i), b)
    <3>1. IsStackOf(SubSeq(s, 1, i)) /\ s[j] = b
      BY <1>5, <2>2, <2>3 DEF IsStackOf
    <3>2. Bare(Append(SubSeq(s, 1, i), s[j]), b) = Bare(SubSeq(s, 1, i), b)
      BY <2>3, <3>1, BareOfAppend, Zenon
    <3> QED
      BY <2>4, <3>2, Zenon
  <2>6. Bare(SubSeq(s, 1, i), b) = Bare(d, b)
    BY <1>8, <2>1, <2>2
  <2> QED
    BY <2>1, <2>5, <2>6
<1> HIDE DEF T
<1>9. PICK m \in Nat : kept + m = n /\ m \in T
  <2>1. n - kept \in Nat /\ kept + (n - kept) = n
    BY <1>5
  <2>2. n - kept \in T
    BY <1>7, <1>8, <2>1, SetInduction
  <2> QED
    BY <2>1, <2>2
<1>10. SubSeq(s, 1, n) = s
  BY <1>1 DEF IsStackOf
<1>11. Bare(d, b) = Bare(s, b)
  <2>1. kept + m <= n /\ Bare(SubSeq(s, 1, kept + m), b) = Bare(d, b)
    BY <1>5, <1>9 DEF T
  <2> QED
    BY <1>9, <1>10, <2>1, Zenon
<1>12. d # <<>> /\ Last(d) = d[kept]
  BY <1>5, <1>6 DEF Last
<1> QED
  BY <1>5, <1>6, <1>11, <1>12 DEF IsStackOf

\* The last bracket that is not b, and those below.
LEMMA BareOfTop ==
    ASSUME NEW s, IsStackOf(s), NEW b, s # <<>>, s[1] # b
    PROVE  /\ Last(s) = b => Front(s) # <<>> /\ Front(s)[1] = s[1] /\ Bare(Front(s), b) = Bare(s, b)
           /\ Last(s) # b => /\ Bare(s, b) = Append(Bare(Front(s), b), Last(s))
                             /\ (Len(s) = 1) = (Bare(Front(s), b) = <<>>)
                             /\ (Len(s) # 1) = (Front(s) # <<>>)
                             /\ Front(s) # <<>> => Front(s)[1] = s[1]
<1>1. PICK f, c, n : f = Front(s) /\ c = Last(s) /\ n = Len(s)
  OBVIOUS
<1>2. /\ IsStackOf(f) /\ c \in Brackets /\ s = Append(f, c) /\ n \in Nat \ {0}
      /\ Len(f) = n - 1 /\ c = s[n] /\ \A i \in 1 .. n - 1 : f[i] = s[i]
  BY <1>1, StackParts
<1>3. Bare(s, b) = IF c = b THEN Bare(f, b) ELSE Append(Bare(f, b), c)
  <2>1. Bare(Append(f, c), b) = IF c = b THEN Bare(f, b) ELSE Append(Bare(f, b), c)
    <3>1. IsStackOf(f) /\ c \in Brackets
      BY <1>2
    <3> QED
      BY ONLY <3>1, BareOfAppend, SMT
  <2> QED
    BY <1>2, <2>1, Zenon
<1>4. n = 1 => f = <<>> /\ Bare(f, b) = <<>>
  <2>1. n = 1 => f = <<>>
    BY <1>2 DEF IsStackOf
  <2> QED
    BY <2>1, BareOfNone
<1>5. n # 1 => f # <<>> /\ f[1] = s[1] /\ Bare(f, b) # <<>>
  <2>1. n # 1 => f # <<>> /\ f[1] = s[1]
    BY <1>2 DEF IsStackOf
  <2> QED
    BY <1>2, <2>1, BareOfStack
<1>6. c = b => n # 1
  BY <1>2
<1> QED
  BY <1>1, <1>2, <1>3, <1>4, <1>5, <1>6, Zenon

-----------------------------------------------------------------------------
(* A scan that goes on, is over, was given up.                             *)

ScanFields == {"stack", "found", "givenUp"}
Scans(s, plain, b) ==
    /\ ScanFields \subseteq DOMAIN s /\ s.found = 0 /\ s.givenUp = FALSE
    /\ IsStackOf(s.stack) /\ (s.stack # <<>> => s.stack[1] # b)
    /\ Bare(s.stack, b) = plain
IsOver(s, i) ==
    /\ ScanFields \subseteq DOMAIN s /\ s.found = i /\ s.givenUp = FALSE /\ s.stack = <<>>
SameSkip(s, t) ==
    "skipped" \in DOMAIN s => "skipped" \in DOMAIN t /\ t.skipped = s.skipped

\* A bracket put on the stack waits behind the others; b on an empty stack would be alone.
LEMMA PushScans ==
    ASSUME NEW s, NEW p, NEW b, Scans(s, p, b), NEW c \in Brackets, c = b => p # <<>>
    PROVE  /\ Scans(Push(s, c), IF c = b THEN p ELSE Append(p, c), b)
           /\ SameSkip(s, Push(s, c))
<1>1. PICK t, u : t = Push(s, c) /\ u = Append(s.stack, c)
  OBVIOUS
<1>2. /\ ScanFields \subseteq DOMAIN t /\ t.found = 0 /\ t.givenUp = FALSE /\ t.stack = u
      /\ SameSkip(s, t)
  BY <1>1 DEF Scans, Push, ScanFields, SameSkip
<1>3. IsStackOf(u) /\ u # <<>> /\ u[1] = IF s.stack = <<>> THEN c ELSE s.stack[1]
  BY <1>1, StackWithBracket DEF Scans
<1>4. Bare(u, b) = IF c = b THEN p ELSE Append(p, c)
  BY <1>1, BareOfAppend DEF Scans
<1>5. u[1] # b
  <2>1. CASE s.stack = <<>>
    <3>1. p = <<>>
      BY <2>1, BareOfNone DEF Scans
    <3> QED
      BY <1>3, <2>1, <3>1
  <2>2. CASE s.stack # <<>>
    BY <1>3, <2>2 DEF Scans
  <2> QED
    BY <2>1, <2>2
<1>6. Scans(t, IF c = b THEN p ELSE Append(p, c), b)
  BY <1>2, <1>3, <1>4, <1>5 DEF Scans
<1> QED
  BY <1>1, <1>2, <1>6

\* Something is left of what is waited for: the stack is not empty.
LEMMA ScansStack ==
    ASSUME NEW s, NEW p, NEW b, Scans(s, p, b), p # <<>>
    PROVE  IsStackOf(s.stack) /\ s.stack # <<>> /\ s.stack[1] # b /\ Bare(s.stack, b) = p
BY BareOfNone DEF Scans

\* A pending bracket taken back.
LEMMA PopPending ==
    ASSUME NEW s, NEW p, NEW b, Scans(s, p, b), p # <<>>, Last(s.stack) = b
    PROVE  /\ Len(s.stack) # 1
           /\ Scans([s EXCEPT !.stack = Front(@)], p, b)
           /\ SameSkip(s, [s EXCEPT !.stack = Front(@)])
<1>1. PICK t, u : t = [s EXCEPT !.stack = Front(@)] /\ u = Front(s.stack)
  OBVIOUS
<1>2. IsStackOf(s.stack) /\ s.stack # <<>> /\ s.stack[1] # b /\ Bare(s.stack, b) = p
  BY ScansStack
<1>3. /\ ScanFields \subseteq DOMAIN t /\ t.found = 0 /\ t.givenUp = FALSE /\ t.stack = u
      /\ SameSkip(s, t)
  BY <1>1 DEF Scans, ScanFields, SameSkip
<1>4. IsStackOf(u) /\ u # <<>> /\ u[1] = s.stack[1] /\ Bare(u, b) = p
  BY <1>1, <1>2, StackParts, BareOfTop
<1>5. Len(s.stack) # 1
  BY <1>2, StackParts
<1>6. Scans(t, p, b)
  BY <1>2, <1>3, <1>4 DEF Scans
<1> QED
  BY <1>1, <1>3, <1>5, <1>6

\* The partner of a bracket taken off the stack.
LEMMA PopScans ==
    ASSUME NEW s, NEW p, NEW b, Scans(s, p, b), p # <<>>, Last(s.stack) # b, NEW i
    PROVE  /\ IsStackOf(p) /\ Last(s.stack) = Last(p) /\ IsStackOf(Front(p))
           /\ p = Append(Front(p), Last(p))
           /\ Front(p) = <<>> => IsOver(PopAt(s, i), i)
           /\ Front(p) # <<>> => Scans(PopAt(s, i), Front(p), b)
           /\ SameSkip(s, PopAt(s, i))
<1>1. PICK t, u, f : t = PopAt(s, i) /\ u = Front(s.stack) /\ f = Bare(u, b)
  OBVIOUS
<1>2. IsStackOf(s.stack) /\ s.stack # <<>> /\ s.stack[1] # b /\ Bare(s.stack, b) = p
  BY ScansStack
<1>3. /\ IsStackOf(u) /\ p = Append(f, Last(s.stack)) /\ (Len(s.stack) = 1) = (f = <<>>)
      /\ (Len(s.stack) # 1) = (u # <<>>) /\ (u # <<>> => u[1] = s.stack[1])
      /\ Last(s.stack) \in Brackets
  BY <1>1, <1>2, StackParts, BareOfTop
<1>4. IsStackOf(f) /\ IsStackOf(p)
  <2>1. IsStackOf(Bare(u, b)) /\ IsStackOf(Bare(s.stack, b))
    BY <1>2, <1>3, BareOfStack, Zenon
  <2> QED
    BY <1>1, <1>2, <2>1, Zenon
<1>5. Front(p) = f /\ Last(p) = Last(s.stack)
  <2>1. PICK c : c = Last(s.stack)
    OBVIOUS
  <2>2. p = Append(f, c) /\ f \in Seq(Brackets) /\ c \in Brackets
    BY <1>3, <1>4, <2>1 DEF IsStackOf
  <2>3. Front(p) = f /\ Last(p) = c
    BY <2>2 DEF Front, Last
  <2> QED
    BY <2>1, <2>3
<1>6. CASE Len(s.stack) = 1
  <2>1. t = [s EXCEPT !.stack = <<>>, !.found = i] /\ f = <<>>
    BY <1>1, <1>3, <1>6 DEF PopAt
  <2>2. IsOver(t, i) /\ SameSkip(s, t)
    BY <2>1 DEF Scans, ScanFields, IsOver, SameSkip
  <2> QED
    BY <1>1, <1>3, <1>4, <1>5, <2>1, <2>2
<1>7. CASE Len(s.stack) # 1
  <2>1. t = [s EXCEPT !.stack = u] /\ f # <<>>
    BY <1>1, <1>3, <1>7 DEF PopAt
  <2>2. /\ ScanFields \subseteq DOMAIN t /\ t.found = 0 /\ t.givenUp = FALSE /\ t.stack = u
        /\ SameSkip(s, t)
    BY <2>1 DEF Scans, ScanFields, SameSkip
  <2>3. Scans(t, f, b)
    BY <1>1, <1>2, <1>3, <1>7, <2>2 DEF Scans
  <2> QED
    BY <1>1, <1>3, <1>4, <1>5, <2>1, <2>2, <2>3
<1> QED
  BY <1>6, <1>7

\* Pending brackets dropped from the top.
LEMMA UnpendScans ==
    ASSUME NEW s, NEW p, NEW b, Scans(s, p, b), p # <<>>
    PROVE  Scans(Unpend(s, b), p, b) /\ Last(Unpend(s, b).stack) # b /\ SameSkip(s, Unpend(s, b))
<1>1. PICK t, d : t = Unpend(s, b) /\ d = DropPending(s.stack, b)
  OBVIOUS
<1>2. IsStackOf(s.stack) /\ s.stack # <<>> /\ s.stack[1] # b /\ Bare(s.stack, b) = p
  BY ScansStack
<1>3. IsStackOf(d) /\ d # <<>> /\ d[1] = s.stack[1] /\ Last(d) # b /\ Bare(d, b) = Bare(s.stack, b)
  BY <1>1, <1>2, DropPendingFacts
<1>4. 1 \in DOMAIN s.stack
  BY <1>2 DEF IsStackOf
<1>5. t = [s EXCEPT !.stack = d]
  BY <1>1, <1>2, <1>4 DEF Unpend
<1>6. /\ ScanFields \subseteq DOMAIN t /\ t.found = 0 /\ t.givenUp = FALSE /\ t.stack = d
      /\ SameSkip(s, t)
  BY <1>5 DEF Scans, ScanFields, SameSkip
<1>7. Scans(t, p, b)
  BY <1>2, <1>3, <1>6 DEF Scans
<1> QED
  BY <1>1, <1>3, <1>6, <1>7

\* What a token does to the brackets that are open, "<" and ">" left aside.
BracketStep(c, p, q) ==
    \/ c \in Opening /\ q = Append(p, c)
    \/ /\ c \in Closing /\ p # <<>> /\ q = Front(p)
       /\ Last(p) \in Opening /\ ClosingOf[Last(p)] = c
    \/ c \notin Opening \cup Closing /\ p # <<>> /\ q = p
IsOpenList(p) == p \in Seq(Opening)
IsGivenUp(s) == ScanFields \subseteq DOMAIN s /\ s.found = 0 /\ s.givenUp = TRUE

\* The kinds of brackets are apart, and each closing one has one partner.
LEMMA BracketKinds ==
    /\ Opening \subseteq Brackets /\ Closing \subseteq Brackets
    /\ "<" \in Brackets /\ ">" \in Brackets
    /\ Opening \cap Closing = {}
    /\ "<" \notin Opening \cup Closing /\ ">" \notin Opening \cup Closing
    /\ ";" \notin Opening \cup Closing
    /\ \A c \in Opening : ClosingOf[c] \in Closing
    /\ \A c \in Opening : \A d \in Opening : ClosingOf[c] = ClosingOf[d] => c = d
BY DEF Opening, Closing, Brackets, ClosingOf

\* A list of open brackets with one more, and without its last one.
LEMMA OpenListParts ==
    ASSUME NEW p, IsOpenList(p)
    PROVE  /\ \A c \in Opening : IsOpenList(Append(p, c)) /\ Append(p, c) # <<>>
           /\ p # <<>> => IsOpenList(Front(p)) /\ Last(p) \in Opening
<1>1. ASSUME NEW c \in Opening PROVE IsOpenList(Append(p, c)) /\ Append(p, c) # <<>>
  <2>1. Append(p, c) \in Seq(Opening) /\ Len(Append(p, c)) = Len(p) + 1 /\ Len(p) \in Nat
    BY DEF IsOpenList
  <2> QED
    BY <2>1 DEF IsOpenList
<1>2. ASSUME p # <<>> PROVE IsOpenList(Front(p)) /\ Last(p) \in Opening
  BY <1>2 DEF IsOpenList, Front, Last
<1> QED
  BY <1>1, <1>2

\* The pending brackets do not matter: a "<" changes none of the others.
LEMMA OpenAngleScans ==
    ASSUME NEW s, NEW p, Scans(s, p, "<"), p # <<>>, NEW text, NEW i
    PROVE  Scans(OpenAngle(s, text, i), p, "<")
<1>1. PICK t : t = OpenAngle(s, text, i)
  OBVIOUS
<1>2. \/ t = GiveUp(s) /\ Len(s.stack) = 1 /\ Last(s.stack) = "<"
      \/ t = [s EXCEPT !.stack = Front(@)] /\ Last(s.stack) = "<"
      \/ t = s
      \/ t = Push(s, "<")
  BY <1>1 DEF OpenAngle
<1>3. "<" \in Brackets
  BY BracketKinds
<1>4. t # s /\ t # Push(s, "<") => Last(s.stack) = "<" /\ t = [s EXCEPT !.stack = Front(@)]
  BY <1>2, PopPending, Zenon
<1>5. CASE t = s
  BY <1>1, <1>5
<1>6. CASE t = Push(s, "<")
  BY <1>1, <1>3, <1>6, PushScans
<1>7. CASE t # s /\ t # Push(s, "<")
  BY <1>1, <1>4, <1>7, PopPending
<1> QED
  BY <1>5, <1>6, <1>7

\* Nor does a ">": it can only close a pending "<".
LEMMA CloseAngleScans ==
    ASSUME NEW s, NEW p, Scans(s, p, "<"), p # <<>>, NEW text, NEW i
    PROVE  Scans(CloseAngle(s, text, i), p, "<")
<1>1. PICK t : t = CloseAngle(s, text, i)
  OBVIOUS
<1>2. t = s \/ (t = PopAt(s, i) /\ Last(s.stack) = "<")
  BY <1>1 DEF CloseAngle
<1>3. CASE t = s
  BY <1>1, <1>3
<1>4. CASE t = PopAt(s, i) /\ Last(s.stack) = "<"
  <2>1. Len(s.stack) # 1 /\ Scans([s EXCEPT !.stack = Front(@)], p, "<")
    BY <1>4, PopPending
  <2>2. t = [s EXCEPT !.stack = Front(@)]
    BY <1>4, <2>1 DEF PopAt
  <2> QED
    BY <1>1, <2>1, <2>2
<1> QED
  BY <1>2, <1>3, <1>4

\* A token of a scan forwards, of which the end has not been found (FindEndOfExpressionInLine).
LEMMA ForwardStep ==
    ASSUME NEW s, NEW p, Scans(s, p, "<"), IsOpenList(p), NEW text, NEW i \in Nat \ {0},
           p # <<>> \/ text[i] \in Opening, NEW t, t = ScanForward(s, text, i)
    PROVE  \/ IsGivenUp(t)
           \/ \E q : /\ IsOpenList(q) /\ BracketStep(text[i], p, q)
                     /\ q # <<>> => Scans(t, q, "<")
                     /\ q = <<>> => IsOver(t, i)
<1>1. PICK c : c = text[i]
  OBVIOUS
<1>2. s.found = 0 /\ ~s.givenUp
  BY DEF Scans
<1>3. CASE c \in Opening
  <2>1. c \in Brackets /\ c \notin Closing \cup {"<", ">", ";"}
    BY <1>3, BracketKinds
  <2>2. t = Push(s, c)
    BY <1>1, <1>2, <1>3, <2>1 DEF ScanForward
  <2>3. Scans(t, Append(p, c), "<")
    BY <2>1, <2>2, PushScans
  <2>4. IsOpenList(Append(p, c)) /\ Append(p, c) # <<>>
    BY <1>3, OpenListParts
  <2> QED
    BY <1>1, <1>3, <2>3, <2>4 DEF BracketStep
<1>4. CASE c = "<"
  <2>1. p # <<>> /\ c \notin Opening \cup Closing
    BY <1>1, <1>4, BracketKinds
  <2>2. t = OpenAngle(s, text, i)
    BY <1>1, <1>2, <1>4, <2>1 DEF ScanForward
  <2>3. Scans(t, p, "<")
    BY <2>1, <2>2, OpenAngleScans
  <2> QED
    BY <1>1, <2>1, <2>3 DEF BracketStep
<1>5. CASE c \in Closing
  <2>1. p # <<>> /\ c \notin Opening \cup {"<", ">", ";"}
    BY <1>1, <1>5, BracketKinds
  <2> DEFINE partners == {d \in Opening : ClosingOf[d] = c}
  <2>0. PICK u : u = Unpend(s, "<")
    OBVIOUS
  <2>2. t = PopPartner(u, partners, i)
    BY <1>1, <1>2, <1>5, <2>0, <2>1 DEF ScanForward
  <2>3. Scans(u, p, "<") /\ Last(u.stack) # "<"
    BY <2>0, <2>1, UnpendScans
  <2>4. ~u.givenUp /\ u.found = 0 /\ ScanFields \subseteq DOMAIN u
    BY <2>3 DEF Scans
  <2>5. CASE Last(u.stack) \in partners
    <3>1. t = PopAt(u, i)
      BY <2>2, <2>4, <2>5 DEF PopPartner
    <3>2. /\ Last(u.stack) = Last(p) /\ (Front(p) = <<>> => IsOver(t, i))
          /\ (Front(p) # <<>> => Scans(t, Front(p), "<"))
      <4>1. /\ Last(u.stack) = Last(p) /\ (Front(p) = <<>> => IsOver(PopAt(u, i), i))
            /\ (Front(p) # <<>> => Scans(PopAt(u, i), Front(p), "<"))
        BY <2>1, <2>3, PopScans
      <4> QED
        BY <3>1, <4>1
    <3>3. Last(p) \in Opening /\ ClosingOf[Last(p)] = c /\ IsOpenList(Front(p))
      BY <2>1, <2>5, <3>2, OpenListParts
    <3> QED
      BY <1>1, <1>5, <2>1, <3>2, <3>3 DEF BracketStep
  <2>6. CASE Last(u.stack) \notin partners
    <3>1. t = GiveUp(u)
      BY <2>2, <2>4, <2>6 DEF PopPartner
    <3> QED
      BY <2>4, <3>1 DEF GiveUp, IsGivenUp, ScanFields
  <2> QED
    BY <2>5, <2>6
<1>6. CASE c \notin Opening \cup Closing \cup {"<"}
  <2>1. p # <<>>
    BY <1>1, <1>6
  <2>2. t \in {CloseAngle(s, text, i), Unpend(s, "<"), s}
    BY <1>1, <1>2, <1>6 DEF ScanForward
  <2>3. Scans(t, p, "<")
    BY <2>1, <2>2, CloseAngleScans, UnpendScans
  <2> QED
    BY <1>1, <1>6, <2>1, <2>3 DEF BracketStep
<1> QED
  BY <1>3, <1>4, <1>5, <1>6

\* The brackets that close the open ones: what a scan backwards waits for.
Mirror(p) == [k \in DOMAIN p |-> ClosingOf[p[k]]]

\* What a scan backwards has come to, where p is open before position i: it is over
\* if nothing is.
Behind(s, p, i) == IF p = <<>> THEN IsOver(s, i) ELSE Scans(s, Mirror(p), ">")
\* Only the left one of two "<" is skipped.
Skips(s, text) == "skipped" \in DOMAIN s /\ (s.skipped = 0 \/ At(text, s.skipped) = "<")

\* The mirror of a list of open brackets, and of the one without its last.
LEMMA MirrorParts ==
    ASSUME NEW p, IsOpenList(p)
    PROVE  /\ IsStackOf(Mirror(p)) /\ (Mirror(p) = <<>>) = (p = <<>>)
           /\ p # <<>> => /\ Mirror(p) = Append(Mirror(Front(p)), ClosingOf[Last(p)])
                          /\ Last(Mirror(p)) = ClosingOf[Last(p)]
                          /\ Front(Mirror(p)) = Mirror(Front(p))
<1>1. PICK n, m : n = Len(p) /\ m = Mirror(p)
  OBVIOUS
<1>2. n \in Nat /\ DOMAIN p = 1 .. n /\ \A k \in 1 .. n : p[k] \in Opening
  BY <1>1 DEF IsOpenList
<1>3. m \in [1 .. n -> Closing] /\ \A k \in 1 .. n : m[k] = ClosingOf[p[k]]
  BY <1>1, <1>2, BracketKinds DEF Mirror
<1>4. m \in Seq(Brackets) /\ Len(m) = n
  <2>1. m \in Seq(Closing) /\ Len(m) = n
    BY <1>2, <1>3
  <2> QED
    BY <2>1 DEF Brackets
<1>5. (m = <<>>) = (p = <<>>)
  <2>1. p = <<>> <=> n = 0
    BY <1>1 DEF IsOpenList
  <2>2. m = <<>> <=> n = 0
    BY <1>2, <1>4
  <2> QED
    BY <2>1, <2>2
<1>6. ASSUME p # <<>>
      PROVE  /\ m = Append(Mirror(Front(p)), ClosingOf[Last(p)])
             /\ Last(m) = ClosingOf[Last(p)] /\ Front(m) = Mirror(Front(p))
  <2>1. n \in Nat \ {0}
    BY <1>1, <1>2, <1>6 DEF IsOpenList
  <2>2. PICK f : f = Front(p)
    OBVIOUS
  <2>3. DOMAIN f = 1 .. n - 1 /\ \A k \in 1 .. n - 1 : f[k] = p[k]
    BY <1>1, <1>2, <2>1, <2>2 DEF IsOpenList, Front
  <2>4. Mirror(f) = [k \in 1 .. n - 1 |-> ClosingOf[f[k]]]
    BY <2>3 DEF Mirror
  <2>5. Mirror(f) = SubSeq(m, 1, n - 1)
    <3>1. /\ SubSeq(m, 1, n - 1) \in Seq(Brackets) /\ Len(SubSeq(m, 1, n - 1)) = n - 1
          /\ \A k \in 1 .. n - 1 : SubSeq(m, 1, n - 1)[k] = m[k]
      BY <1>4, <2>1
    <3>2. PICK u : u = SubSeq(m, 1, n - 1)
      OBVIOUS
    <3>3. u = [k \in 1 .. n - 1 |-> u[k]]
      BY <3>1, <3>2, <2>1
    <3>4. \A k \in 1 .. n - 1 : u[k] = ClosingOf[f[k]]
      BY <1>3, <2>1, <2>3, <3>1, <3>2
    <3> QED
      BY <2>4, <3>2, <3>3, <3>4
  <2>6. Front(m) = SubSeq(m, 1, n - 1) /\ Last(m) = m[n] /\ Last(p) = p[n]
    BY <1>1, <1>4 DEF Front, Last
  <2>7. m = Append(SubSeq(m, 1, n - 1), m[n])
    BY <1>4, <2>1
  <2>8. m[n] = ClosingOf[p[n]]
    BY <1>3, <2>1
  <2> QED
    BY <2>2, <2>5, <2>6, <2>7, <2>8
<1> QED
  BY <1>1, <1>4, <1>5, <1>6 DEF IsStackOf

\* A token of a scan backwards takes back what it did to the open brackets
\* (FindStartOfExpressionInLine).
LEMMA BackwardStep ==
    ASSUME NEW s, NEW p, NEW q, IsOpenList(p), IsOpenList(q), Scans(s, Mirror(q), ">"),
           NEW text, NEW i \in DOMAIN text, i \in Nat \ {0}, Skips(s, text),
           BracketStep(text[i], p, q), NEW t, t = ScanBackward(s, text, i)
    PROVE  Behind(t, p, i) /\ Skips(t, text)
<1>1. PICK c : c = text[i]
  OBVIOUS
<1>2. s.found = 0 /\ ~s.givenUp /\ "skipped" \in DOMAIN s
  BY DEF Scans, Skips
<1>3. ASSUME SameSkip(s, t) PROVE Skips(t, text)
  BY <1>3 DEF SameSkip, Skips
<1>4. /\ IsStackOf(Mirror(q)) /\ (Mirror(q) = <<>>) = (q = <<>>)
      /\ IsStackOf(Mirror(p)) /\ (Mirror(p) = <<>>) = (p = <<>>)
  BY MirrorParts
<1>5. CASE s.skipped = i
  <2>1. c = "<" /\ t = s
    BY <1>1, <1>5 DEF Skips, At, ScanBackward
  <2>2. p # <<>> /\ q = p
    BY <1>1, <2>1, BracketKinds DEF BracketStep
  <2> QED
    BY <2>1, <2>2 DEF Behind
<1>6. CASE s.skipped # i /\ c \in Closing
  <2>1. c \in Brackets /\ c \notin Opening \cup {"<", ">", ";"}
    BY <1>6, BracketKinds
  <2>2. t = Push(s, c)
    BY <1>1, <1>2, <1>6, <2>1 DEF ScanBackward
  <2>3. p # <<>> /\ q = Front(p) /\ ClosingOf[Last(p)] = c
    BY <1>1, <2>1 DEF BracketStep, Brackets
  <2>4. Mirror(p) = Append(Mirror(q), c)
    BY <2>3, MirrorParts
  <2>5. Scans(t, Append(Mirror(q), c), ">") /\ SameSkip(s, t)
    BY <2>1, <2>2, PushScans
  <2> QED
    BY <1>3, <2>3, <2>4, <2>5 DEF Behind
<1>7. CASE s.skipped # i /\ c \in Opening
  <2>1. c \notin Closing \cup {"<", ">", ";"}
    BY <1>7, BracketKinds
  <2>2. PICK u : u = Unpend(s, ">")
    OBVIOUS
  <2>3. t = PopPartner(u, {ClosingOf[c]}, i)
    BY <1>1, <1>2, <1>7, <2>1, <2>2 DEF ScanBackward
  <2>4. q = Append(p, c)
    BY <1>1, <1>7, <2>1 DEF BracketStep
  <2>5. q # <<>> /\ Front(q) = p /\ Last(q) = c
    BY <1>7, <2>4 DEF IsOpenList, Front, Last
  <2>6. Last(Mirror(q)) = ClosingOf[c] /\ Front(Mirror(q)) = Mirror(p) /\ Mirror(q) # <<>>
    BY <1>4, <2>5, MirrorParts
  <2>7. Scans(u, Mirror(q), ">") /\ Last(u.stack) # ">" /\ SameSkip(s, u)
    BY <2>2, <2>6, UnpendScans
  <2>8. /\ Last(u.stack) = Last(Mirror(q)) /\ SameSkip(u, PopAt(u, i))
        /\ Front(Mirror(q)) = <<>> => IsOver(PopAt(u, i), i)
        /\ Front(Mirror(q)) # <<>> => Scans(PopAt(u, i), Front(Mirror(q)), ">")
    BY <2>6, <2>7, PopScans
  <2>9. ~u.givenUp
    BY <2>7 DEF Scans
  <2>10. t = PopAt(u, i)
    BY <2>3, <2>6, <2>8, <2>9 DEF PopPartner
  <2>11. SameSkip(s, t)
    BY <1>2, <2>7, <2>8, <2>10 DEF SameSkip
  <2> QED
    BY <1>3, <1>4, <2>6, <2>8, <2>10, <2>11 DEF Behind
<1>8. CASE s.skipped # i /\ c \notin Opening \cup Closing
  <2>1. p # <<>> /\ q = p /\ Mirror(p) # <<>>
    BY <1>1, <1>4, <1>8 DEF BracketStep
  <2>2. CASE c = "<" /\ At(text, i - 1) = "<"
    <3>1. t = [s EXCEPT !.skipped = i - 1]
      BY <1>1, <1>2, <1>8, <2>2 DEF ScanBackward
    <3>2. Scans(t, Mirror(p), ">")
      BY <2>1, <3>1 DEF Scans, ScanFields
    <3>3. Skips(t, text)
      BY <1>2, <2>2, <3>1 DEF Skips
    <3> QED
      BY <2>1, <3>2, <3>3 DEF Behind
  <2>3. CASE c = "<" /\ At(text, i - 1) # "<" /\ Last(s.stack) = ">" /\ t # s
    <3>1. t = PopAt(s, i)
      BY <1>1, <1>2, <1>8, <2>3 DEF ScanBackward
    <3>2. /\ Len(s.stack) # 1 /\ Scans([s EXCEPT !.stack = Front(@)], Mirror(p), ">")
          /\ SameSkip(s, [s EXCEPT !.stack = Front(@)])
      BY <2>1, <2>3, PopPending
    <3>3. t = [s EXCEPT !.stack = Front(@)]
      BY <3>1, <3>2 DEF PopAt
    <3> QED
      BY <1>3, <2>1, <3>2, <3>3 DEF Behind
  <2>4. CASE ~(c = "<" /\ At(text, i - 1) = "<")
             /\ ~(c = "<" /\ At(text, i - 1) # "<" /\ Last(s.stack) = ">" /\ t # s)
    <3>1. t \in {s, Push(s, ">"), Unpend(s, ">")}
      BY <1>1, <1>2, <1>8, <2>4 DEF ScanBackward
    <3>2. Scans(t, Mirror(p), ">") /\ SameSkip(s, t)
      <4>1. ">" \in Brackets
        BY BracketKinds
      <4>2. CASE t = s
        BY <2>1, <4>2 DEF SameSkip
      <4>3. CASE t = Push(s, ">")
        BY <2>1, <4>1, <4>3, PushScans
      <4>4. CASE t = Unpend(s, ">")
        BY <2>1, <4>4, UnpendScans
      <4> QED
        BY <3>1, <4>2, <4>3, <4>4
    <3> QED
      BY <1>3, <2>1, <3>2 DEF Behind
  <2> QED
    BY <2>2, <2>3, <2>4
<1> QED
  BY <1>5, <1>6, <1>7, <1>8

\* The loop of a scan backwards, over the positions from k down to 1.
BackTurn(text, s, i) == OfValue(LAMBDA v : ScanBackward(v, text, i), s)
BackLoop == INSTANCE SequenceLemmas WITH
    Step <- LAMBDA text, a, s, i : BackTurn(text, s, i),
    Holds <- LAMBDA text, a, s, k : IsOver(s, a)
Down(k) == [j \in 1 .. k |-> k + 1 - j]
BackTo(text, a, k, s) == BackLoop!Loop(text, a, s, Down(k))

\* The positions of a scan backwards, and those behind the first one.
LEMMA DownFacts ==
    ASSUME NEW k \in Nat
    PROVE  /\ Len(Down(k)) = k /\ DOMAIN Down(k) = 1 .. k
           /\ \A j \in 1 .. k : Down(k)[j] = k + 1 - j
           /\ Down(0) = <<>>
<1>1. Down(k) \in [1 .. k -> Int] /\ \A j \in 1 .. k : Down(k)[j] = k + 1 - j
  BY DEF Down
<1>2. Len(Down(k)) = k /\ DOMAIN Down(k) = 1 .. k
  BY <1>1, SequenceFromFunction, SequenceFacts
<1>3. Down(0) = <<>>
  BY DEF Down
<1> QED
  BY <1>1, <1>2, <1>3

LEMMA DownRest ==
    ASSUME NEW k \in Nat \ {0}, NEW n \in Nat, n = k - 1, NEW d, NEW r, d = Down(k), r = Down(n)
    PROVE  /\ Len(d) = n + 1 /\ DOMAIN d = 1 .. n + 1 /\ d[1] = k
           /\ Len(r) = n /\ DOMAIN r = 1 .. n
           /\ \A i \in 1 .. n : r[i] = d[i + 1]
<1>1. n = k - 1
  OBVIOUS
<1>2. /\ Len(d) = n + 1 /\ DOMAIN d = 1 .. n + 1 /\ Len(r) = n /\ DOMAIN r = 1 .. n
      /\ d[1] = k
  <2>1. k \in Nat /\ k = n + 1 /\ 1 \in 1 .. k /\ k + 1 - 1 = k
    BY <1>1
  <2> QED
    BY <1>1, <2>1, DownFacts
<1>3. ASSUME NEW i \in 1 .. n PROVE r[i] = d[i + 1]
  <2>1. PICK j : j = i + 1
    OBVIOUS
  <2>2. j \in 1 .. k /\ k + 1 - j = n + 1 - i /\ k \in Nat
    BY <1>1, <2>1
  <2>3. d[j] = k + 1 - j /\ r[i] = n + 1 - i
    BY <1>1, <2>2, DownFacts
  <2> QED
    BY <2>1, <2>2, <2>3
<1> QED
  BY <1>2, <1>3

LEMMA BackToNone == ASSUME NEW text, NEW a, NEW s PROVE BackTo(text, a, 0, s) = s
BY DownFacts, BackLoop!LoopOfNone DEF BackTo

\* The first turn is at k.
LEMMA BackToFirst ==
    ASSUME NEW text, NEW a, NEW s, NEW k \in Nat \ {0}, NEW t, t = ScanBackward(s, text, k)
    PROVE  BackTo(text, a, k, s) = BackTo(text, a, k - 1, t)
<1>0. PICK n \in Nat : n = k - 1
  OBVIOUS
<1>1. PICK d, r : d = Down(k) /\ r = Down(n)
  OBVIOUS
<1>2. /\ Len(d) = n + 1 /\ DOMAIN d = 1 .. n + 1 /\ d[1] = k
      /\ Len(r) = n /\ DOMAIN r = 1 .. n /\ \A i \in 1 .. n : r[i] = d[i + 1]
  BY <1>0, <1>1, DownRest
<1>3. BackLoop!Loop(text, a, s, d) = BackLoop!Loop(text, a, BackTurn(text, s, d[1]), r)
  BY SMTT(30), <1>2, BackLoop!LoopFirst
<1>4. BackTurn(text, s, k) = t
  BY DEF BackTurn, OfValue
<1> QED
  BY <1>0, <1>1, <1>2, <1>3, <1>4 DEF BackTo

\* A scan that is over stays so.
LEMMA BackToOver ==
    ASSUME NEW text, NEW k \in Nat, NEW a \in Nat \ {0}, NEW s, IsOver(s, a)
    PROVE  IsOver(BackTo(text, a, k, s), a)
<1>1. PICK d : d = Down(k)
  OBVIOUS
<1>2. Len(d) \in Nat /\ DOMAIN d = 1 .. Len(d)
  BY <1>1, DownFacts
<1>3. ASSUME NEW x, NEW i, IsOver(x, a) PROVE IsOver(BackTurn(text, x, i), a)
  <2>1. BackTurn(text, x, i) = ScanBackward(x, text, i)
    BY DEF BackTurn, OfValue
  <2>2. ScanBackward(x, text, i) = x
    BY <1>3 DEF IsOver, ScanBackward
  <2> QED
    BY <1>3, <2>1, <2>2
<1>4. IsOver(BackLoop!Loop(text, a, s, d), a)
  BY <1>2, <1>3, BackLoop!LoopHolds
<1> QED
  BY <1>1, <1>4 DEF BackTo

BackScan(stack) == [stack |-> stack, found |-> 0, givenUp |-> FALSE, skipped |-> 0]
\* FindStartOfExpressionInLine is this loop, whatever it is to come to.
LEMMA FindStartIsBackTo ==
    ASSUME NEW text, NEW k, NEW a, NEW stack
    PROVE  FindStartOfExpressionInLine(text, k, stack) = BackTo(text, a, k, BackScan(stack))
<1> DEFINE start == BackScan(stack)
           turns == Down(k)
<1>1. FindStartOfExpressionInLine(text, k, stack)
        = ForEach(LAMBDA s, i : ScanBackward(s, text, i), start, turns)
  BY Zenon DEF FindStartOfExpressionInLine, BackScan, Down
<1>2. ForEach(LAMBDA s, i : ScanBackward(s, text, i), start, turns)
        = BackLoop!Loop(text, a, start, turns)
  <2> HIDE DEF start, turns
  <2> QED
    BY ZenonT(60) DEF ForEach, OfValue, BackTurn, BackLoop!Loop,
                      BackLoop!Largest, FoldLeft, MapThenFoldSet, Max
<1> QED
  BY <1>1, <1>2, Zenon DEF BackTo

\* From position k on, with q open behind it, a scan backwards comes to a, in front
\* of which p is open.
GoesBack(text, a, p, k, q) ==
    \A s : Skips(s, text) /\ Scans(s, Mirror(q), ">") => Behind(BackTo(text, a, k, s), p, a)

\* One position more: a step backwards takes back the step forwards.
LEMMA GoesBackStep ==
    ASSUME NEW text, IsSequence(text), NEW a \in Nat \ {0}, NEW p, NEW u, NEW q,
           IsOpenList(u), IsOpenList(q), NEW i \in 1 .. Len(text),
           BracketStep(text[i], u, q),
           IF u = <<>> THEN p = <<>> /\ i = a ELSE GoesBack(text, a, p, i - 1, u)
    PROVE  GoesBack(text, a, p, i, q)
<1> SUFFICES ASSUME NEW s, Skips(s, text), Scans(s, Mirror(q), ">")
             PROVE  Behind(BackTo(text, a, i, s), p, a)
  BY DEF GoesBack
<1>1. PICK t : t = ScanBackward(s, text, i)
  OBVIOUS
<1>2. i \in DOMAIN text /\ i \in Nat \ {0} /\ i - 1 \in Nat
  BY SequenceFacts
<1>3. Behind(t, u, i) /\ Skips(t, text)
  BY <1>1, <1>2, BackwardStep
<1>4. BackTo(text, a, i, s) = BackTo(text, a, i - 1, t)
  BY <1>1, <1>2, BackToFirst
<1>5. CASE u = <<>>
  <2>1. IsOver(t, a)
    BY <1>3, <1>5 DEF Behind
  <2>2. IsOver(BackTo(text, a, i - 1, t), a)
    BY <1>2, <2>1, BackToOver
  <2> QED
    BY <1>4, <1>5, <2>2 DEF Behind
<1>6. CASE u # <<>>
  BY <1>3, <1>4, <1>6 DEF Behind, GoesBack
<1> QED
  BY <1>5, <1>6

\* A scan forwards from a, where p is open in front of a, after n positions.
Forwards(text, a, p, s, n) ==
    \/ IsGivenUp(s)
    \/ \E e \in DOMAIN text :
            IsOver(s, e) /\ text[e] \in Closing /\ GoesBack(text, a, p, e, <<>>)
    \/ \E q : IsOpenList(q) /\ q # <<>> /\ Scans(s, q, "<") /\ GoesBack(text, a, p, a + n - 1, q)
    \/ n = 0 /\ p = <<>> /\ Scans(s, p, "<")
ForwardTurn(text, s, i) == OfValue(LAMBDA v : ScanForward(v, text, i), s)
ForwardLoop == INSTANCE SequenceLemmas WITH
    Step <- LAMBDA text, q, s, i : ForwardTurn(text, s, i),
    Holds <- LAMBDA text, q, s, n : Forwards(text, q.a, q.p, s, n)

\* A scan of a line starts where nothing is open, at an opening bracket, or at the
\* beginning of the line.
StartsScan(text, a, p) ==
    /\ IsSequence(text) /\ IsOpenList(p)
    /\ IF p = <<>> THEN a \in DOMAIN text /\ text[a] \in Opening ELSE a = 1

\* A turn of FindEndOfExpressionInLine.
LEMMA ForwardsStep ==
    ASSUME NEW text, NEW a, NEW p, StartsScan(text, a, p), NEW s,
           NEW i \in a .. Len(text), Forwards(text, a, p, s, i - a)
    PROVE  Forwards(text, a, p, ScanForward(s, text, i), i + 1 - a)
<1>1. PICK t, n : t = ScanForward(s, text, i) /\ n = i + 1 - a
  OBVIOUS
<1>2. /\ a \in Nat \ {0} /\ i \in 1 .. Len(text) /\ i \in Nat \ {0} /\ i \in DOMAIN text
      /\ n \in Nat /\ n # 0 /\ a + n - 1 = i /\ a + (i - a) - 1 = i - 1
      /\ (i - a = 0 <=> i = a)
  BY <1>1, SequenceFacts, SMTT(30) DEF StartsScan
<1>3. CASE IsGivenUp(s)
  <2>1. t = s
    BY <1>1, <1>3 DEF IsGivenUp, ScanForward
  <2> QED
    BY <1>1, <1>3, <2>1 DEF Forwards
<1>4. ASSUME NEW e \in DOMAIN text, IsOver(s, e), text[e] \in Closing,
             GoesBack(text, a, p, e, <<>>)
      PROVE  Forwards(text, a, p, t, n)
  <2>1. e # 0
    BY SequenceFacts DEF StartsScan
  <2>2. t = s
    BY <1>1, <1>4, <2>1 DEF IsOver, ScanForward
  <2> QED
    BY <1>4, <2>2 DEF Forwards
<1>5. ASSUME NEW u, IsOpenList(u), Scans(s, u, "<"), u # <<>> \/ text[i] \in Opening,
             IF u = <<>> THEN p = <<>> /\ i = a ELSE GoesBack(text, a, p, i - 1, u)
      PROVE  Forwards(text, a, p, t, n)
  <2>1. \/ IsGivenUp(t)
        \/ \E q : /\ IsOpenList(q) /\ BracketStep(text[i], u, q)
                  /\ q # <<>> => Scans(t, q, "<")
                  /\ q = <<>> => IsOver(t, i)
    BY <1>1, <1>2, <1>5, ForwardStep
  <2>2. CASE IsGivenUp(t)
    BY <2>2 DEF Forwards
  <2>3. ASSUME NEW q, IsOpenList(q), BracketStep(text[i], u, q),
               q # <<>> => Scans(t, q, "<"), q = <<>> => IsOver(t, i)
        PROVE  Forwards(text, a, p, t, n)
    <3>1. GoesBack(text, a, p, i, q)
      <4>1. IsSequence(text)
        BY DEF StartsScan
      <4> QED
        BY ONLY <1>2, <1>5, <2>3, <4>1, GoesBackStep
    <3>2. CASE q = <<>>
      <4>1. text[i] \in Closing
        <5>1. ASSUME text[i] \in Opening PROVE q # <<>>
          <6>1. q = Append(u, text[i])
            BY <2>3, <5>1, BracketKinds DEF BracketStep
          <6> QED
            BY <1>5, <5>1, <6>1, OpenListParts
        <5> QED
          BY <2>3, <3>2, <5>1 DEF BracketStep
      <4> QED
        BY <1>2, <2>3, <3>1, <3>2, <4>1 DEF Forwards
    <3>3. CASE q # <<>>
      BY <1>2, <2>3, <3>1, <3>3 DEF Forwards
    <3> QED
      BY <3>2, <3>3
  <2> QED
    BY <2>1, <2>2, <2>3
<1>6. CASE i - a = 0 /\ p = <<>> /\ Scans(s, p, "<")
  <2>1. i = a /\ text[i] \in Opening /\ IsOpenList(p)
    BY <1>2, <1>6 DEF StartsScan
  <2> QED
    BY <1>1, <1>5, <1>6, <2>1
<1>7. \/ IsGivenUp(s)
      \/ \E e \in DOMAIN text :
            IsOver(s, e) /\ text[e] \in Closing /\ GoesBack(text, a, p, e, <<>>)
      \/ \E q : IsOpenList(q) /\ q # <<>> /\ Scans(s, q, "<") /\ GoesBack(text, a, p, i - 1, q)
      \/ i - a = 0 /\ p = <<>> /\ Scans(s, p, "<")
  BY <1>2 DEF Forwards
<1> QED
  BY <1>1, <1>3, <1>4, <1>5, <1>6, <1>7

\* A scan of a line forwards: how it ends, and how a scan backwards returns from there.
LEMMA LineForwards ==
    ASSUME NEW text, NEW a, NEW p, StartsScan(text, a, p), NEW stack, Scans(Scan(stack), p, "<"),
           NEW s, s = FindEndOfExpressionInLine(text, a, stack)
    PROVE  \/ IsGivenUp(s)
           \/ \E e \in DOMAIN text :
                IsOver(s, e) /\ text[e] \in Closing /\ GoesBack(text, a, p, e, <<>>)
           \/ \E q : /\ IsOpenList(q) /\ q # <<>> /\ Scans(s, q, "<")
                     /\ GoesBack(text, a, p, Len(text), q)
<1> DEFINE start == Scan(stack)
           turns == Indices(a, Len(text))
<1>1. PICK m, q : m = Len(text) /\ q = [a |-> a, p |-> p]
  OBVIOUS
<1>2. m \in Nat /\ a \in Nat \ {0} /\ m + 1 - a \in Nat /\ (p = <<>> => m + 1 - a # 0)
  BY <1>1, SequenceFacts DEF StartsScan
<1>3. /\ Len(turns) = m + 1 - a /\ DOMAIN turns = 1 .. m + 1 - a
      /\ \A k \in 1 .. m + 1 - a : turns[k] = a + k - 1
  <2>1. turns \in [1 .. m + 1 - a -> Int] /\ \A k \in 1 .. m + 1 - a : turns[k] = a + k - 1
    BY <1>1, <1>2 DEF Indices
  <2> QED
    BY <1>2, <2>1, SequenceFromFunction, SequenceFacts
<1>4. s = ForwardLoop!Loop(text, q, start, turns)
  <2>1. s = ForEach(LAMBDA x, i : ScanForward(x, text, i), start, turns)
    BY Zenon DEF FindEndOfExpressionInLine
  <2>2. ForEach(LAMBDA x, i : ScanForward(x, text, i), start, turns)
          = ForwardLoop!Loop(text, q, start, turns)
    <3> HIDE DEF start, turns
    <3> QED
      BY ZenonT(60) DEF ForEach, OfValue, ForwardTurn, ForwardLoop!Loop,
                        ForwardLoop!Largest, FoldLeft, MapThenFoldSet, Max
  <2> QED
    BY <2>1, <2>2, Zenon
<1>5. Forwards(text, q.a, q.p, start, 0)
  <2>1. CASE p = <<>>
    BY <1>1, <2>1 DEF Forwards
  <2>2. CASE p # <<>>
    <3>1. a = 1 /\ IsOpenList(p)
      BY <2>2 DEF StartsScan
    <3>2. GoesBack(text, 1, p, 0, p)
      BY <2>2, BackToNone DEF GoesBack, Behind
    <3>3. 1 + 0 - 1 = 0
      OBVIOUS
    <3> QED
      BY <1>1, <2>2, <3>1, <3>2, <3>3 DEF Forwards
  <2> QED
    BY <2>1, <2>2
<1> HIDE DEF start
<1>6. ASSUME NEW x, NEW k \in 1 .. Len(turns), Forwards(text, q.a, q.p, x, k - 1)
      PROVE  Forwards(text, q.a, q.p, ForwardTurn(text, x, turns[k]), k)
  <2>1. PICK i : i = a + k - 1
    OBVIOUS
  <2>2. turns[k] = i /\ i \in a .. m /\ i - a = k - 1 /\ i + 1 - a = k
    BY <1>2, <1>3, <2>1
  <2>3. ForwardTurn(text, x, i) = ScanForward(x, text, i)
    BY DEF ForwardTurn, OfValue
  <2>4. Forwards(text, a, p, ScanForward(x, text, i), i + 1 - a)
    <3>1. Forwards(text, a, p, x, i - a) /\ i \in a .. Len(text)
      BY <1>1, <1>6, <2>2
    <3> QED
      BY ONLY <3>1, StartsScan(text, a, p), ForwardsStep
  <2> QED
    BY <1>1, <2>2, <2>3, <2>4
<1> HIDE DEF turns
<1>7. Forwards(text, q.a, q.p, ForwardLoop!Loop(text, q, start, turns), Len(turns))
  BY <1>2, <1>3, <1>5, <1>6, ForwardLoop!LoopHolds
<1>8. Forwards(text, a, p, s, m + 1 - a)
  BY <1>1, <1>3, <1>4, <1>7
<1>9. a + (m + 1 - a) - 1 = m
  BY <1>2
<1> QED
  BY <1>1, <1>2, <1>8, <1>9 DEF Forwards

\* The loop of a scan backwards over the lines, from line k up to the first one; it
\* began at the place e and is to find the place o.
LineOf(e, i, stack) ==
    FindStartOfExpressionInLine(
        TextAt(e.lines, i), IF i = e.line THEN e.pos ELSE Len(TextAt(e.lines, i)), stack)
LineBackTurn(e, s, i) ==
    OfValue(LAMBDA v : ScanLine(v, i, LAMBDA stack : LineOf(e, i, stack)), s)
IsLineScan(s) == {"line", "scan"} \subseteq DOMAIN s
Finds(s, o) == IsLineScan(s) /\ s.line = o.line /\ IsOver(s.scan, o.pos)
LineBackLoop == INSTANCE SequenceLemmas WITH
    Step <- LAMBDA e, o, s, i : LineBackTurn(e, s, i),
    Holds <- LAMBDA e, o, s, k : Finds(s, o)
LinesBack(e, o, k, s) == LineBackLoop!Loop(e, o, s, Down(k))

\* A turn of that loop: nothing once the bracket is found, else a scan of the line.
LEMMA LineBackTurnFacts ==
    ASSUME NEW e, NEW s, NEW i, NEW t, t = LineBackTurn(e, s, i)
    PROVE  /\ s.scan.found # 0 => t = s
           /\ (s.scan.found = 0 /\ ~s.scan.givenUp /\ (s.line # 0 => s.scan.stack # <<>>)) =>
                t = [line |-> i, scan |-> LineOf(e, i, s.scan.stack)]
<1>1. t = ScanLine(s, i, LAMBDA stack : LineOf(e, i, stack))
  BY Zenon DEF LineBackTurn, OfValue
<1>2. ASSUME s.scan.found # 0 PROVE t = s
  BY <1>1, <1>2, Zenon DEF ScanLine
<1>3. ASSUME s.scan.found = 0, ~s.scan.givenUp, s.line # 0 => s.scan.stack # <<>>
      PROVE  t = [line |-> i, scan |-> LineOf(e, i, s.scan.stack)]
  BY <1>1, <1>3, Zenon DEF ScanLine
<1> QED
  BY <1>2, <1>3

\* The first turn is at line k.
LEMMA LinesBackFirst ==
    ASSUME NEW e, NEW o, NEW s, NEW k \in Nat \ {0}, NEW t, t = LineBackTurn(e, s, k)
    PROVE  LinesBack(e, o, k, s) = LinesBack(e, o, k - 1, t)
<1>0. PICK n \in Nat : n = k - 1
  OBVIOUS
<1>1. PICK d, r : d = Down(k) /\ r = Down(n)
  OBVIOUS
<1>2. /\ Len(d) = n + 1 /\ DOMAIN d = 1 .. n + 1 /\ d[1] = k
      /\ Len(r) = n /\ DOMAIN r = 1 .. n /\ \A i \in 1 .. n : r[i] = d[i + 1]
  BY <1>0, <1>1, DownRest
<1>3. LineBackLoop!Loop(e, o, s, d) = LineBackLoop!Loop(e, o, LineBackTurn(e, s, d[1]), r)
  BY SMTT(30), <1>2, LineBackLoop!LoopFirst
<1> QED
  BY <1>0, <1>1, <1>2, <1>3 DEF LinesBack

\* What is found stays found.
LEMMA LinesBackOver ==
    ASSUME NEW e, NEW o, o.pos # 0, NEW k \in Nat, NEW s, Finds(s, o)
    PROVE  Finds(LinesBack(e, o, k, s), o)
<1>1. PICK d : d = Down(k)
  OBVIOUS
<1>2. Len(d) \in Nat /\ DOMAIN d = 1 .. Len(d)
  BY <1>1, DownFacts
<1>3. ASSUME NEW x, NEW i, Finds(x, o) PROVE Finds(LineBackTurn(e, x, i), o)
  <2>1. x.scan.found # 0
    BY <1>3 DEF Finds, IsOver
  <2> QED
    BY <1>3, <2>1, LineBackTurnFacts
<1>4. Finds(LineBackLoop!Loop(e, o, s, d), o)
  BY <1>2, <1>3, LineBackLoop!LoopHolds
<1> QED
  BY <1>1, <1>4 DEF LinesBack

\* With p open behind line l, a scan backwards from there finds the place o, whatever
\* the place e at which it began.
Returns(lines, o, l, p) ==
    \A line, pos, s :
        (line \in Nat /\ line > l /\ IsLineScan(s) /\ s.line = l + 1 /\ Behind(s.scan, p, o.pos)) =>
            Finds(LinesBack([lines |-> lines, line |-> line, pos |-> pos], o, l, s), o)

\* A line that is scanned backwards from position k on leads to the lines before it.
LEMMA ReturnsStep ==
    ASSUME NEW lines, NEW o, NEW l \in Nat \ {0}, NEW p, NEW q, IsOpenList(q),
           Returns(lines, o, l - 1, p), NEW a, p = <<>> => a = o.pos,
           NEW e, NEW k, e = [lines |-> lines, line |-> e.line, pos |-> e.pos],
           e.line \in Nat, e.line > l - 1,
           k = IF l = e.line THEN e.pos ELSE Len(TextAt(lines, l)),
           GoesBack(TextAt(lines, l), a, p, k, q),
           NEW s, IsLineScan(s), Scans(s.scan, Mirror(q), ">"), s.line # 0 => q # <<>>
    PROVE  Finds(LinesBack(e, o, l, s), o)
<1>1. PICK text, t, b : /\ text = TextAt(lines, l) /\ t = LineBackTurn(e, s, l)
                        /\ b = BackTo(text, a, k, BackScan(s.scan.stack))
  OBVIOUS
<1>2. s.scan.found = 0 /\ ~s.scan.givenUp /\ (s.line # 0 => s.scan.stack # <<>>)
  <2>1. s.line # 0 => Mirror(q) # <<>>
    BY MirrorParts
  <2> QED
    BY <2>1, ScansStack DEF Scans
<1>3. t = [line |-> l, scan |-> b]
  <2>1. t = [line |-> l, scan |-> LineOf(e, l, s.scan.stack)]
    BY <1>1, <1>2, LineBackTurnFacts
  <2>2. LineOf(e, l, s.scan.stack) = FindStartOfExpressionInLine(text, k, s.scan.stack)
    BY <1>1 DEF LineOf
  <2>3. FindStartOfExpressionInLine(text, k, s.scan.stack) = b
    BY <1>1, FindStartIsBackTo, Zenon
  <2> QED
    BY <2>1, <2>2, <2>3, Zenon
<1>4. Behind(b, p, a)
  <2>1. PICK c : c = BackScan(s.scan.stack)
    OBVIOUS
  <2>2. Skips(c, text) /\ Scans(c, Mirror(q), ">")
    BY <2>1 DEF BackScan, Skips, Scans, ScanFields
  <2> QED
    BY <1>1, <2>1, <2>2 DEF GoesBack
<1>5. Behind(t.scan, p, o.pos) /\ t.line = l /\ IsLineScan(t)
  BY <1>3, <1>4 DEF Behind, IsLineScan
<1>6. PICK n, line, pos : n = l - 1 /\ line = e.line /\ pos = e.pos
  OBVIOUS
<1>7. line \in Nat /\ line > n /\ t.line = n + 1 /\ Returns(lines, o, n, p)
  BY <1>5, <1>6
<1>8. Finds(LinesBack([lines |-> lines, line |-> line, pos |-> pos], o, n, t), o)
  BY <1>5, <1>7 DEF Returns
<1>9. LinesBack(e, o, l, s) = LinesBack(e, o, n, t)
  BY <1>1, <1>6, LinesBackFirst
<1> QED
  BY <1>6, <1>8, <1>9

\* The start of a scan that goes back over a line, or over a part of it.
LEMMA ReverseIsLinesBack ==
    ASSUME NEW e, e.line \in Nat, At(TextAt(e.lines, e.line), e.pos) \in Closing, NEW o
    PROVE  ReverseCloseExpression(e.lines, e.line, e.pos)
             = Found(LinesBack(e, o, e.line, NotFound), 0)
<1> DEFINE start == NotFound
           turns == Down(e.line)
<1>1. Reverse(Indices(1, e.line)) = turns
  <2>1. PICK l, d : l = e.line /\ l \in Nat /\ d = Indices(1, l)
    OBVIOUS
  <2>2. d \in [1 .. l -> Int] /\ \A k \in 1 .. l : d[k] = k
    BY <2>1 DEF Indices
  <2>3. Len(d) = l
    BY <2>1, <2>2, SequenceFromFunction
  <2>4. Reverse(d) = [i \in 1 .. l |-> d[(l - i) + 1]]
    BY <2>3 DEF Reverse
  <2>5. \A i \in 1 .. l : d[(l - i) + 1] = l + 1 - i
    <3>1. \A i \in 1 .. l : (l - i) + 1 \in 1 .. l /\ (l - i) + 1 = l + 1 - i
      BY <2>1
    <3> QED
      BY <2>2, <3>1
  <2> QED
    BY <2>1, <2>4, <2>5 DEF Down
<1>2. ReverseCloseExpression(e.lines, e.line, e.pos)
        = Found(ForEach(LAMBDA s, i : ScanLine(s, i, LAMBDA stack : LineOf(e, i, stack)),
                        start, turns), 0)
  BY <1>1, Zenon DEF ReverseCloseExpression, LineOf
<1>3. ForEach(LAMBDA s, i : ScanLine(s, i, LAMBDA stack : LineOf(e, i, stack)),
                        start, turns)
        = LineBackLoop!Loop(e, o, start, turns)
  <2> HIDE DEF start, turns
  <2> QED
    BY ZenonT(60) DEF ForEach, OfValue, LineBackTurn, LineBackLoop!Loop,
                      LineBackLoop!Largest, FoldLeft, MapThenFoldSet, Max
<1> QED
  BY <1>2, <1>3, Zenon DEF LinesBack

\* The end of a line that is scanned as a whole, behind which q is open.
LEMMA ReturnsBehind ==
    ASSUME NEW lines, NEW o, NEW l \in Nat \ {0}, NEW p, NEW q, IsOpenList(q), q # <<>>,
           Returns(lines, o, l - 1, p), NEW a, p = <<>> => a = o.pos,
           GoesBack(TextAt(lines, l), a, p, Len(TextAt(lines, l)), q)
    PROVE  Returns(lines, o, l, q)
<1> SUFFICES ASSUME NEW line, NEW pos, NEW s, line \in Nat, line > l, IsLineScan(s),
                    s.line = l + 1, Behind(s.scan, q, o.pos)
             PROVE  Finds(LinesBack([lines |-> lines, line |-> line, pos |-> pos], o, l, s), o)
  BY DEF Returns
<1>1. PICK e, k : e = [lines |-> lines, line |-> line, pos |-> pos] /\ k = Len(TextAt(lines, l))
  OBVIOUS
<1>2. /\ e = [lines |-> lines, line |-> e.line, pos |-> e.pos] /\ e.line \in Nat
      /\ e.line > l - 1 /\ l # e.line
  BY <1>1
<1>3. k = IF l = e.line THEN e.pos ELSE Len(TextAt(lines, l))
  BY <1>1, <1>2
<1>4. Scans(s.scan, Mirror(q), ">")
  BY DEF Behind
<1>5. GoesBack(TextAt(lines, l), a, p, k, q)
  BY <1>1
<1>6. Finds(LinesBack(e, o, l, s), o)
  BY <1>2, <1>3, <1>4, <1>5, ReturnsStep
<1> QED
  BY <1>1, <1>6

\* The line in which the search ends: from there ReverseCloseExpression finds o.
LEMMA ReturnsFromEnd ==
    ASSUME NEW lines, NEW o, o.pos \in Nat \ {0}, NEW l \in Nat \ {0}, NEW p,
           Returns(lines, o, l - 1, p), NEW a, p = <<>> => a = o.pos,
           NEW pos, At(TextAt(lines, l), pos) \in Closing,
           GoesBack(TextAt(lines, l), a, p, pos, <<>>)
    PROVE  ReverseCloseExpression(lines, l, pos) = Place(o.line, o.pos)
<1>1. PICK e, q, s : e = [lines |-> lines, line |-> l, pos |-> pos] /\ q = <<>> /\ s = NotFound
  OBVIOUS
<1>2. /\ e = [lines |-> lines, line |-> e.line, pos |-> e.pos] /\ e.line \in Nat
      /\ e.line > l - 1 /\ e.line = l /\ e.pos = pos /\ e.lines = lines
  BY <1>1
<1>3. pos = IF l = e.line THEN e.pos ELSE Len(TextAt(lines, l))
  BY <1>2
<1>4. IsOpenList(q) /\ Mirror(q) = <<>>
  <2>1. IsOpenList(<<>>)
    BY DEF IsOpenList
  <2> QED
    BY <1>1, <2>1, MirrorParts
<1>5. IsLineScan(s) /\ s.line = 0 /\ Scans(s.scan, Mirror(q), ">")
  <2>1. IsLineScan(s) /\ s.line = 0 /\ s.scan = Scan(<<>>)
    BY <1>1 DEF NotFound, IsLineScan
  <2>2. IsStackOf(<<>>) /\ Bare(<<>>, ">") = <<>>
    BY BareOfNone DEF IsStackOf
  <2> QED
    BY <1>4, <2>1, <2>2 DEF Scans, Scan, ScanFields
<1>6. GoesBack(TextAt(lines, l), a, p, pos, q)
  BY <1>1
<1>7. Finds(LinesBack(e, o, l, s), o)
  BY <1>2, <1>3, <1>4, <1>5, <1>6, ReturnsStep
<1>8. ReverseCloseExpression(lines, l, pos) = Found(LinesBack(e, o, l, s), 0)
  BY <1>1, <1>2, ReverseIsLinesBack
<1>9. PICK r : r = LinesBack(e, o, l, s)
  OBVIOUS
<1>10. r.line = o.line /\ r.scan.found = o.pos
  BY <1>7, <1>9 DEF Finds, IsOver
<1>11. Found(r, 0) = Place(r.line, r.scan.found + 0)
  BY <1>10 DEF Found
<1> QED
  <2>1. o.pos + 0 = o.pos
    OBVIOUS
  <2> QED
    BY <1>8, <1>9, <1>10, <1>11, <2>1, Zenon

\* The loop of a scan forwards over the lines, from the bracket at the place o on.
EndOfLine(lines, o, k, stack) ==
    FindEndOfExpressionInLine(TextAt(lines, o.line + k), IF k = 0 THEN o.pos ELSE 1, stack)
LineTurn(lines, o, s, k) ==
    OfValue(LAMBDA v : ScanLine(v, o.line + k, LAMBDA stack : EndOfLine(lines, o, k, stack)), s)

\* What it has come to after n lines: it is given up; it has found an end from which a
\* scan backwards finds o; or brackets are open from behind which one does.
Seeks(lines, o, s, n) ==
    /\ IsLineScan(s)
    /\ \/ IsGivenUp(s.scan)
       \/ \E e \in Nat \ {0} : /\ IsOver(s.scan, e)
                               /\ ReverseCloseExpression(lines, s.line, e) = Place(o.line, o.pos)
       \/ \E p : /\ IsOpenList(p) /\ Scans(s.scan, p, "<")
                 /\ Returns(lines, o, o.line + n - 1, p)
                 /\ IF p = <<>> THEN n = 0 /\ s.line = 0 ELSE n # 0
LineLoop == INSTANCE SequenceLemmas WITH
    Step <- LAMBDA lines, o, s, k : LineTurn(lines, o, s, k),
    Holds <- LAMBDA lines, o, s, n : Seeks(lines, o, s, n)

\* A turn of the loop of CloseExpression.
LEMMA LineTurnFacts ==
    ASSUME NEW lines, NEW o, NEW s, NEW k, NEW t, t = LineTurn(lines, o, s, k)
    PROVE  /\ s.scan.found # 0 \/ s.scan.givenUp => t = s
           /\ (s.scan.found = 0 /\ ~s.scan.givenUp /\ (s.line # 0 => s.scan.stack # <<>>)) =>
                t = [line |-> o.line + k, scan |-> EndOfLine(lines, o, k, s.scan.stack)]
<1>1. t = ScanLine(s, o.line + k, LAMBDA stack : EndOfLine(lines, o, k, stack))
  BY Zenon DEF LineTurn, OfValue
<1>2. ASSUME s.scan.found # 0 \/ s.scan.givenUp PROVE t = s
  BY <1>1, <1>2, Zenon DEF ScanLine
<1>3. ASSUME s.scan.found = 0, ~s.scan.givenUp, s.line # 0 => s.scan.stack # <<>>
      PROVE  t = [line |-> o.line + k, scan |-> EndOfLine(lines, o, k, s.scan.stack)]
  BY <1>1, <1>3, Zenon DEF ScanLine
<1> QED
  BY <1>2, <1>3

\* Where the scan starts.
IsOpeningAt(lines, o) ==
    /\ o.line \in Nat \ {0} /\ o.pos \in Nat \ {0}
    /\ \A i : IsSequence(TextAt(lines, i))
    /\ o.pos \in DOMAIN TextAt(lines, o.line) /\ TextAt(lines, o.line)[o.pos] \in Opening

\* Each line keeps what the search knows of the way back.
LEMMA SeeksStep ==
    ASSUME NEW lines, NEW o, IsOpeningAt(lines, o), NEW k \in Nat, NEW s, Seeks(lines, o, s, k)
    PROVE  Seeks(lines, o, LineTurn(lines, o, s, k), k + 1)
<1>1. PICK t, l, text : t = LineTurn(lines, o, s, k) /\ l = o.line + k /\ text = TextAt(lines, l)
  OBVIOUS
<1>2. /\ l \in Nat \ {0} /\ o.line + k - 1 = l - 1 /\ o.line + (k + 1) - 1 = l /\ k + 1 # 0
      /\ IsSequence(text) /\ o.pos \in Nat \ {0}
  BY <1>1 DEF IsOpeningAt
<1>3. CASE IsGivenUp(s.scan)
  <2>1. t = s
    BY <1>1, <1>3, LineTurnFacts DEF IsGivenUp
  <2> QED
    BY <1>1, <1>3, <2>1 DEF Seeks
<1>4. ASSUME NEW e \in Nat \ {0}, IsOver(s.scan, e),
             ReverseCloseExpression(lines, s.line, e) = Place(o.line, o.pos)
      PROVE  Seeks(lines, o, t, k + 1)
  <2>1. s.scan.found # 0
    BY <1>4 DEF IsOver
  <2>2. t = s
    BY <1>1, <2>1, LineTurnFacts
  <2> QED
    BY <1>4, <2>2 DEF Seeks
<1>5. ASSUME NEW p, IsOpenList(p), Scans(s.scan, p, "<"), Returns(lines, o, o.line + k - 1, p),
             IF p = <<>> THEN k = 0 /\ s.line = 0 ELSE k # 0
      PROVE  Seeks(lines, o, t, k + 1)
  <2>1. PICK a, u, stack : /\ a = IF k = 0 THEN o.pos ELSE 1
                           /\ u = FindEndOfExpressionInLine(text, a, stack) /\ stack = s.scan.stack
    OBVIOUS
  <2>2. s.scan.found = 0 /\ ~s.scan.givenUp /\ (s.line # 0 => s.scan.stack # <<>>)
    BY <1>5, ScansStack DEF Scans
  <2>3. t = [line |-> l, scan |-> u]
    <3>1. t = [line |-> l, scan |-> EndOfLine(lines, o, k, s.scan.stack)]
      BY <1>1, <2>2, LineTurnFacts
    <3>2. EndOfLine(lines, o, k, s.scan.stack) = u
      BY <1>1, <2>1, Zenon DEF EndOfLine
    <3> QED
      BY <3>1, <3>2
  <2>4. StartsScan(text, a, p)
    <3>1. CASE k = 0
      <4>1. l = o.line /\ a = o.pos /\ p = <<>>
        BY <1>1, <1>2, <1>5, <2>1, <3>1 DEF IsOpeningAt
      <4> QED
        BY <1>1, <1>2, <1>5, <4>1 DEF IsOpeningAt, StartsScan
    <3>2. CASE k # 0
      BY <1>2, <1>5, <2>1, <3>2 DEF StartsScan
    <3> QED
      BY <3>1, <3>2
  <2>5. Scans(Scan(stack), p, "<")
    BY <1>5, <2>1 DEF Scans, Scan, ScanFields
  <2>6. p = <<>> => a = o.pos
    BY <1>5, <2>1
  <2>7. Returns(lines, o, l - 1, p)
    BY <1>2, <1>5
  <2>8. IsLineScan(t) /\ t.line = l /\ t.scan = u
    BY <2>3 DEF IsLineScan
  <2>9. \/ IsGivenUp(u)
        \/ \E e \in DOMAIN text :
                IsOver(u, e) /\ text[e] \in Closing /\ GoesBack(text, a, p, e, <<>>)
        \/ \E q : /\ IsOpenList(q) /\ q # <<>> /\ Scans(u, q, "<")
                  /\ GoesBack(text, a, p, Len(text), q)
    BY <2>1, <2>4, <2>5, LineForwards
  <2>10. CASE IsGivenUp(u)
    BY <2>8, <2>10 DEF Seeks
  <2>11. ASSUME NEW e \in DOMAIN text, IsOver(u, e), text[e] \in Closing,
                GoesBack(text, a, p, e, <<>>)
         PROVE  Seeks(lines, o, t, k + 1)
    <3>1. e \in Nat \ {0} /\ At(TextAt(lines, l), e) \in Closing
      BY <1>1, <1>2, <2>11, SequenceFacts DEF At
    <3>2. ReverseCloseExpression(lines, l, e) = Place(o.line, o.pos)
      BY <1>1, <1>2, <2>6, <2>7, <2>11, <3>1, ReturnsFromEnd
    <3> QED
      BY <2>8, <2>11, <3>1, <3>2 DEF Seeks
  <2>12. ASSUME NEW q, IsOpenList(q), q # <<>>, Scans(u, q, "<"),
                GoesBack(text, a, p, Len(text), q)
         PROVE  Seeks(lines, o, t, k + 1)
    <3>1. Returns(lines, o, l, q)
      BY <1>1, <1>2, <2>6, <2>7, <2>12, ReturnsBehind
    <3> QED
      BY <1>2, <2>8, <2>12, <3>1 DEF Seeks
  <2> QED
    BY <2>9, <2>10, <2>11, <2>12
<1> QED
  BY <1>1, <1>3, <1>4, <1>5 DEF Seeks

\* It holds at first: in front of o nothing is open.
LEMMA SeeksFirst ==
    ASSUME NEW lines, NEW o, IsOpeningAt(lines, o)
    PROVE  Seeks(lines, o, NotFound, 0)
<1>1. PICK p, s : p = <<>> /\ s = NotFound
  OBVIOUS
<1>2. IsLineScan(s) /\ s.line = 0 /\ s.scan = Scan(<<>>)
  BY <1>1 DEF NotFound, IsLineScan
<1>3. IsOpenList(p) /\ Scans(s.scan, p, "<")
  <2>1. IsStackOf(<<>>) /\ Bare(<<>>, "<") = <<>> /\ IsOpenList(<<>>)
    BY BareOfNone DEF IsStackOf, IsOpenList
  <2> QED
    BY <1>1, <1>2, <2>1 DEF Scans, Scan, ScanFields
<1>4. Returns(lines, o, o.line - 1, p)
  <2> SUFFICES ASSUME NEW line, NEW pos, NEW v, line \in Nat, line > o.line - 1, IsLineScan(v),
                      v.line = (o.line - 1) + 1, Behind(v.scan, p, o.pos)
               PROVE  Finds(LinesBack([lines |-> lines, line |-> line, pos |-> pos], o,
                                      o.line - 1, v), o)
    BY DEF Returns
  <2>1. o.line - 1 \in Nat /\ (o.line - 1) + 1 = o.line /\ o.pos # 0
    BY DEF IsOpeningAt
  <2>2. Finds(v, o)
    BY <1>1, <2>1 DEF Finds, Behind
  <2> QED
    BY <2>1, <2>2, LinesBackOver
<1>5. o.line + 0 - 1 = o.line - 1
  BY DEF IsOpeningAt
<1> QED
  BY <1>1, <1>2, <1>3, <1>4, <1>5 DEF Seeks

\* Looking back from the end that is found for a bracket finds the bracket.
LEMMA EndsAgree ==
    ASSUME NEW lines, Len(lines) \in Nat, NEW o, IsOpeningAt(lines, o), o.line \in 1 .. Len(lines),
           NEW end, end = CloseExpression(lines, o.line, o.pos), end # Nowhere
    PROVE  ReverseCloseExpression(lines, end.line, end.pos - 1) = Place(o.line, o.pos)
<1> DEFINE start == NotFound
           turns == Indices(0, Len(lines) - o.line)
<1>1. At(TextAt(lines, o.line), o.pos) \in Opening
  BY DEF At, IsOpeningAt
<1>2. end = Found(ForEach(LAMBDA s, k : ScanLine(s, o.line + k, LAMBDA stack :
                                                    EndOfLine(lines, o, k, stack)),
                          start, turns), 1)
  <2>1. PICK c : c = At(TextAt(lines, o.line), o.pos)
    OBVIOUS
  <2>2. c \in Opening \cup {"<"} /\ c # "<"
    BY <1>1, <2>1, BracketKinds
  <2> QED
    BY <2>1, <2>2, Zenon DEF CloseExpression, EndOfLine
<1>3. ForEach(LAMBDA s, k : ScanLine(s, o.line + k, LAMBDA stack :
                                                    EndOfLine(lines, o, k, stack)),
              start, turns)
        = LineLoop!Loop(lines, o, start, turns)
  <2> HIDE DEF start, turns
  <2> QED
    BY ZenonT(60) DEF ForEach, OfValue, LineTurn, LineLoop!Loop,
                      LineLoop!Largest, FoldLeft, MapThenFoldSet, Max
<1>4. PICK n : n = Len(lines) - o.line + 1
  OBVIOUS
<1>5. Len(turns) = n /\ n \in Nat /\ DOMAIN turns = 1 .. n /\ \A k \in 1 .. n : turns[k] = k - 1
  <2>1. n \in Nat /\ Len(lines) - o.line + 1 - 0 = n
    BY <1>4 DEF IsOpeningAt
  <2>2. turns \in [1 .. n -> Int] /\ \A k \in 1 .. n : turns[k] = k - 1
    BY <2>1 DEF Indices
  <2> QED
    BY <2>1, <2>2, SequenceFromFunction, SequenceFacts
<1> HIDE DEF turns
<1>6. ASSUME NEW x, NEW k \in 1 .. Len(turns), Seeks(lines, o, x, k - 1)
      PROVE  Seeks(lines, o, LineTurn(lines, o, x, turns[k]), k)
  <2>1. PICK j : j = k - 1
    OBVIOUS
  <2>2. j \in Nat /\ k = j + 1 /\ turns[k] = j
    BY <1>5, <2>1
  <2> QED
    BY <1>6, <2>1, <2>2, SeeksStep
<1>7. Seeks(lines, o, LineLoop!Loop(lines, o, start, turns), Len(turns))
  <2>1. Seeks(lines, o, start, 0)
    BY SeeksFirst
  <2> HIDE DEF start
  <2> QED
    BY <1>5, <1>6, <2>1, LineLoop!LoopHolds
<1>8. PICK r : r = LineLoop!Loop(lines, o, start, turns)
  OBVIOUS
<1>9. end = Found(r, 1)
  BY <1>2, <1>3, <1>8, Zenon
<1>10. r.scan.found # 0
  BY <1>9 DEF Found
<1>11. PICK e \in Nat \ {0} : /\ IsOver(r.scan, e)
                              /\ ReverseCloseExpression(lines, r.line, e) = Place(o.line, o.pos)
  BY <1>7, <1>8, <1>10 DEF Seeks, IsGivenUp, Scans
<1>12. end = Place(r.line, e + 1)
  BY <1>9, <1>10, <1>11 DEF Found, IsOver
<1>13. end.line = r.line /\ end.pos - 1 = e
  BY <1>11, <1>12 DEF Place
<1> QED
  BY <1>11, <1>13

\* Looking back from the bracket that closes an expression finds the one it was looked
\* for from (CloseExpression, ReverseCloseExpression), in any file.
THEOREM BracketsAlwaysAgree == Spec => []BracketsAgree
<1>1. LintInv => BracketsAgree
  <2> SUFFICES ASSUME LintInv, NEW ln \in DOMAIN clean.elided,
                      NEW pos \in DOMAIN clean.elided[ln].text,
                      clean.elided[ln].text[pos] \in Opening,
                      NEW end, end = CloseExpression(clean.elided, ln, pos), end # Nowhere
               PROVE  ReverseCloseExpression(clean.elided, end.line, end.pos - 1) = Place(ln, pos)
    BY DEF BracketsAgree
  <2>1. PICK lines, o : lines = clean.elided /\ o = Place(ln, pos)
    OBVIOUS
  <2>2. AreLines(lines)
    BY <2>1 DEF LintInv, FileInv, IsClean
  <2>3. /\ Len(lines) \in Nat /\ DOMAIN lines = 1 .. Len(lines)
        /\ \A i \in DOMAIN lines : IsSequence(lines[i].text)
    BY <2>2, SequenceFacts DEF AreLines
  <2>4. o.line = ln /\ o.pos = pos
    BY <2>1 DEF Place
  <2>5. \A i : IsSequence(TextAt(lines, i))
    BY <2>3, ShortSequences DEF TextAt
  <2>6. TextAt(lines, ln) = lines[ln].text /\ ln \in 1 .. Len(lines)
    BY <2>1, <2>3 DEF TextAt
  <2>7. IsOpeningAt(lines, o)
    <3>1. pos \in Nat \ {0}
      BY <2>1, <2>3, SequenceFacts
    <3> QED
      BY <2>1, <2>3, <2>4, <2>5, <2>6, <3>1 DEF IsOpeningAt
  <2> QED
    BY <2>1, <2>3, <2>4, <2>6, <2>7, EndsAgree
<1> QED
  BY <1>1, InitHasTypes, StepKeepsTypes, PTL DEF Spec

-----------------------------------------------------------------------------
(* A file linted twice.                                                    *)

\* The configuration of a file, where the files before have left l and r as the length
\* and the root.
ConfigOf(j, f, l, r) ==
    FoldLeft(LAMBDA s, d : ReadConfig(s, j.configs, d),
             [looking |-> TRUE, excluded |-> FALSE, filters |-> <<>>, lineLength |-> l, root |-> r],
             ConfigDirectories(f))

\* It is what StartFile reads.
LEMMA ConfigOfFile == ConfigOverrides = ConfigOf(job, File, lineLength, root)
BY Zenon DEF ConfigOverrides, ConfigOf

\* No configuration file sets the length or the root.
LeavesGlobals(configs) ==
    \A d \in DOMAIN configs : \A i \in DOMAIN configs[d].entries :
        configs[d].entries[i].name \notin {"linelength", "root"}
\* What has been read of the configuration files has the length l and the root r.
Leaves(s, l, r) ==
    /\ {"looking", "excluded", "filters", "lineLength", "root"} \subseteq DOMAIN s
    /\ s.lineLength = l /\ s.root = r
EntryLoop == INSTANCE SequenceLemmas WITH
    Step <- LAMBDA name, q, s, entry : ReadEntry(s, entry, name),
    Holds <- LAMBDA name, q, s, k : Leaves(s, q[1], q[2])
ConfigLoop == INSTANCE SequenceLemmas WITH
    Step <- LAMBDA configs, q, s, d : ReadConfig(s, configs, d),
    Holds <- LAMBDA configs, q, s, k : Leaves(s, q[1], q[2])

\* Without such an entry, the configuration files leave the length and the root.
LEMMA ReadEntryLeaves ==
    ASSUME NEW s, NEW l, NEW r, Leaves(s, l, r), NEW entry, NEW name,
           entry.name \notin {"linelength", "root"}
    PROVE  Leaves(ReadEntry(s, entry, name), l, r)
<1>1. PICK t : t = ReadEntry(s, entry, name)
  OBVIOUS
<1>2. \/ t = s
      \/ t = [s EXCEPT !.looking = FALSE]
      \/ t = [s EXCEPT !.filters = Append(@, entry.list)]
      \/ t = [s EXCEPT !.excluded = name \in entry.names]
  BY <1>1 DEF ReadEntry
<1> QED
  BY <1>1, <1>2 DEF Leaves

LEMMA ReadConfigLeaves ==
    ASSUME NEW s, NEW l, NEW r, Leaves(s, l, r), NEW configs, NEW d, LeavesGlobals(configs),
           \A dir \in DOMAIN configs : IsSequence(configs[dir].entries)
    PROVE  Leaves(ReadConfig(s, configs, d), l, r)
<1>1. PICK t : t = ReadConfig(s, configs, d)
  OBVIOUS
<1>2. CASE t = s \/ t = [s EXCEPT !.looking = FALSE]
  BY <1>1, <1>2 DEF Leaves
<1>3. CASE t # s /\ t # [s EXCEPT !.looking = FALSE]
  <2>1. /\ d.dir \in DOMAIN configs
        /\ t = FoldLeft(LAMBDA u, entry : ReadEntry(u, entry, d.name), s, configs[d.dir].entries)
    BY <1>1, <1>3, Zenon DEF ReadConfig
  <2>2. PICK entries, name, q : entries = configs[d.dir].entries /\ name = d.name /\ q = <<l, r>>
    OBVIOUS
  <2>3. /\ IsSequence(entries)
        /\ \A i \in DOMAIN entries : entries[i].name \notin {"linelength", "root"}
    BY <2>1, <2>2 DEF LeavesGlobals
  <2>4. Len(entries) \in Nat /\ DOMAIN entries = 1 .. Len(entries)
    BY <2>3, SequenceFacts
  <2>5. t = EntryLoop!Loop(name, q, s, entries)
    BY <2>1, <2>2, ZenonT(60) DEF EntryLoop!Loop, EntryLoop!Largest, FoldLeft, MapThenFoldSet, Max
  <2>6. q[1] = l /\ q[2] = r
    BY <2>2
  <2>7. \A u : \A k \in 1 .. Len(entries) :
            Leaves(u, q[1], q[2]) => Leaves(ReadEntry(u, entries[k], name), q[1], q[2])
    BY <2>3, <2>4, ReadEntryLeaves
  <2>8. Leaves(s, q[1], q[2])
    BY <2>6
  <2>9. Leaves(EntryLoop!Loop(name, q, s, entries), q[1], q[2])
    BY <2>4, <2>7, <2>8, EntryLoop!LoopHolds
  <2> QED
    BY <1>1, <2>5, <2>6, <2>9
<1> QED
  BY <1>2, <1>3

LEMMA ConfigLeaves ==
    ASSUME NEW j, NEW f, NEW l, NEW r, LeavesGlobals(j.configs), IsSequence(f.dir),
           \A d \in DOMAIN j.configs : IsSequence(j.configs[d].entries)
    PROVE  Leaves(ConfigOf(j, f, l, r), l, r)
<1>1. PICK dirs, configs, q, start :
        /\ dirs = ConfigDirectories(f) /\ configs = j.configs /\ q = <<l, r>>
        /\ start = [looking |-> TRUE, excluded |-> FALSE, filters |-> <<>>,
                    lineLength |-> l, root |-> r]
  OBVIOUS
<1>2. Len(dirs) \in Nat /\ DOMAIN dirs = 1 .. Len(dirs)
  <2>1. PICK n : n = Len(f.dir) + 1 /\ n \in Nat
    BY SequenceFacts
  <2>2. DOMAIN dirs = 1 .. n
    BY <1>1, <2>1 DEF ConfigDirectories
  <2>3. dirs = [k \in 1 .. n |-> dirs[k]]
    BY <1>1, <2>1 DEF ConfigDirectories
  <2>4. Len(dirs) = n
    BY <2>1, <2>3
  <2> QED
    BY <2>1, <2>2, <2>4
<1>3. ConfigOf(j, f, l, r) = ConfigLoop!Loop(configs, q, start, dirs)
  BY <1>1, ZenonT(60) DEF ConfigOf, ConfigLoop!Loop, ConfigLoop!Largest,
                          FoldLeft, MapThenFoldSet, Max
<1>4. q[1] = l /\ q[2] = r
  BY <1>1
<1>5. \A s : \A k \in 1 .. Len(dirs) :
          Leaves(s, q[1], q[2]) => Leaves(ReadConfig(s, configs, dirs[k]), q[1], q[2])
  BY <1>1, ReadConfigLeaves
<1>6. Leaves(start, q[1], q[2])
  BY <1>1, <1>4 DEF Leaves
<1>7. Leaves(ConfigLoop!Loop(configs, q, start, dirs), q[1], q[2])
  BY <1>2, <1>5, <1>6, ConfigLoop!LoopHolds
<1> QED
  BY <1>3, <1>4, <1>7

\* The errors of one file among those printed.
PickTurn(f, s, p) == IF p.file = f THEN Append(s, p) ELSE s
PickLoop == INSTANCE SequenceLemmas WITH
    Step <- LAMBDA f, q, s, p : PickTurn(f, s, p),
    Holds <- LAMBDA f, q, s, k : s = <<>>
Picked(f, messages) == PickLoop!Loop(f, 0, <<>>, messages)

\* One more message is one more for its file, and for no other.
LEMMA ErrorsOfIsPicked == \A f : ErrorsOf(f) = Picked(f, printed)
BY ZenonT(60) DEF ErrorsOf, Picked, PickTurn, PickLoop!Loop, PickLoop!Largest,
                  FoldLeft, MapThenFoldSet, Max

LEMMA PickedOfAppend ==
    ASSUME NEW f, NEW messages, IsSequence(messages), NEW p
    PROVE  Picked(f, Append(messages, p))
             = IF p.file = f THEN Append(Picked(f, messages), p) ELSE Picked(f, messages)
<1>1. PICK n, more : n = Len(messages) /\ more = Append(messages, p)
  OBVIOUS
<1>2. /\ n \in Nat /\ DOMAIN messages = 1 .. n /\ Len(more) = n + 1 /\ DOMAIN more = 1 .. n + 1
      /\ \A i \in 1 .. n : more[i] = messages[i]
  BY <1>1, SequenceFacts, SequenceAppend
<1>3. more[n + 1] = p
  BY <1>1, SequenceAppend
<1>4. PickLoop!Loop(f, 0, <<>>, more)
        = PickTurn(f, PickLoop!Loop(f, 0, <<>>, messages), more[n + 1])
  <2>1. Len(messages) = n
    BY <1>1
  <2> QED
    BY <1>2, <2>1, PickLoop!LoopAppend
<1> QED
  BY <1>1, <1>3, <1>4 DEF Picked, PickTurn

LEMMA PickedOfOthers ==
    ASSUME NEW f, NEW messages, IsSequence(messages),
           \A i \in DOMAIN messages : messages[i].file # f
    PROVE  Picked(f, messages) = <<>>
<1>1. Len(messages) \in Nat /\ DOMAIN messages = 1 .. Len(messages)
  BY SequenceFacts
<1>2. \A s : \A k \in 1 .. Len(messages) :
          s = <<>> => PickTurn(f, s, messages[k]) = <<>>
  BY <1>1 DEF PickTurn
<1> QED
  BY <1>1, <1>2, PickLoop!LoopHolds DEF Picked

\* An error found, and the message it is in file i.
Finding(line, category, confidence) ==
    [line |-> line, category |-> category, confidence |-> confidence]
MessageOf(e, i) ==
    [file |-> i, line |-> e.line, category |-> e.category, confidence |-> e.confidence]
\* The errors found in file i are those printed for it.
ArePrinted(errors, i, messages) ==
    LET picked == Picked(i, messages)
    IN  /\ IsSequence(errors) /\ IsSequence(picked) /\ Len(picked) = Len(errors)
        /\ \A k \in DOMAIN picked : picked[k] = MessageOf(errors[k], i)

\* What is printed of a file before it is begun, by one more message of it and by
\* one of another file.
LEMMA NonePrinted ==
    ASSUME NEW i, NEW messages, IsSequence(messages),
           \A k \in DOMAIN messages : messages[k].file # i
    PROVE  ArePrinted(<<>>, i, messages)
BY PickedOfOthers, ShortSequences DEF ArePrinted

LEMMA OnePrinted ==
    ASSUME NEW errors, NEW i, NEW messages, IsSequence(messages), ArePrinted(errors, i, messages),
           NEW e, NEW p, p = MessageOf(e, i)
    PROVE  ArePrinted(Append(errors, e), i, Append(messages, p))
<1>1. PICK n, old, new, more :
        /\ n = Len(errors) /\ old = Picked(i, messages) /\ new = Append(old, p)
        /\ more = Append(errors, e)
  OBVIOUS
<1>2. Picked(i, Append(messages, p)) = new
  BY <1>1, PickedOfAppend DEF MessageOf
<1>3. /\ n \in Nat /\ IsSequence(old) /\ Len(old) = n /\ DOMAIN old = 1 .. n
      /\ \A k \in 1 .. n : old[k] = MessageOf(errors[k], i)
  BY <1>1, SequenceFacts DEF ArePrinted
<1>4. /\ IsSequence(new) /\ Len(new) = n + 1 /\ DOMAIN new = 1 .. n + 1
      /\ \A k \in 1 .. n : new[k] = old[k]
      /\ new[n + 1] = p
  BY <1>1, <1>3, SequenceAppend
<1>5. /\ IsSequence(more) /\ Len(more) = n + 1
      /\ \A k \in 1 .. n : more[k] = errors[k]
      /\ more[n + 1] = e
  BY <1>1, SequenceAppend DEF ArePrinted
<1>6. ASSUME NEW k \in 1 .. n + 1 PROVE new[k] = MessageOf(more[k], i)
  <2>1. k \in 1 .. n \/ k = n + 1
    BY <1>3
  <2> QED
    BY <1>3, <1>4, <1>5, <2>1
<1> QED
  BY <1>1, <1>2, <1>4, <1>5, <1>6 DEF ArePrinted

LEMMA OtherPrinted ==
    ASSUME NEW errors, NEW i, NEW messages, IsSequence(messages), ArePrinted(errors, i, messages),
           NEW p, p.file # i
    PROVE  ArePrinted(errors, i, Append(messages, p))
BY PickedOfAppend DEF ArePrinted

\* What the lint of a file reads and writes, the settings of the command line aside.
WorkFields == {"phase", "filters", "position", "clean", "nesting", "includes", "function",
               "pending", "suppressions", "globals", "errors"}

\* The lint of file f of run j: what StartFile begins,
Began(j, f) ==
    LET config == ConfigOf(j, f, Arguments(j).lineLength, Arguments(j).root)
    IN  [phase |-> IF config.excluded THEN "restore" ELSE "read",
         filters |-> ArgumentFilters(j) \o AddedFilters(config), position |-> 1,
         clean |-> NoLines, nesting |-> InitialNesting, includes |-> InitialIncludes,
         function |-> InitialFunction, pending |-> <<>>, suppressions |-> {}, globals |-> {},
         errors |-> <<>>]

\* what OpenFile makes of it,
GlobalsOf(lines) ==
    LET marks == UNION {Range(lines[i].text) : i \in DOMAIN lines}
    IN  {c \in {<<"readability", "casting">>, <<"whitespace", "tab">>} :
            IF c[1] = "readability" THEN "LINT_C_FILE" \in marks ELSE "LINT_KERNEL_FILE" \in marks}
Opened(j, f, w) ==
    LET lines == MarkedLines(f)
        removed == RemoveMultiLineComments(lines)
        cleansed == CleansedLines(removed.lines)
    IN  [w EXCEPT !.phase = "lines", !.position = 1, !.clean = cleansed,
                  !.nesting = InitialNesting, !.includes = InitialIncludes,
                  !.function = InitialFunction, !.suppressions = {}, !.globals = GlobalsOf(lines),
                  !.pending = CheckForCopyright(lines) \o UnclosedEvents(removed)
                              \o IF f.extension = "h"
                                 THEN CheckForHeaderGuard(cleansed, f.guards[Arguments(j).root])
                                 ELSE <<>>]

\* Report,
FilteredBy(list, category) ==
    LET speaking == {i \in DOMAIN list : IsPrefix(list[i].category, category)}
    IN  speaking # {} /\ list[Max(speaking)].sign = "-"
SuppressedIn(globals, marks, category, line) ==
    category \in globals \/ <<category, line>> \in marks \/ <<AllCategories, line>> \in marks
Printable(j, w, line, category, confidence) ==
    /\ ~SuppressedIn(w.globals, w.suppressions, category, line)
    /\ confidence >= Arguments(j).verbosity
    /\ ~FilteredBy(w.filters, category)
Logged(j, w, line, category, confidence) ==
    IF Printable(j, w, line, category, confidence)
    THEN Append(w.errors, Finding(line, category, confidence)) ELSE w.errors
Reported(j, w) ==
    LET e == Head(w.pending)
        category == Nolints[e.mark].category
        known == e.kind # "error" /\ category \in ErrorCategories \cup {AllCategories}
    IN  [w EXCEPT !.pending = Tail(w.pending),
                  !.suppressions = IF known THEN w.suppressions \cup {SuppressionOf(e)}
                                            ELSE w.suppressions,
                  !.errors = IF e.kind = "error" THEN Logged(j, w, e.line, e.category, e.confidence)
                             ELSE IF known \/ category \in LegacyCategories THEN w.errors
                             ELSE Logged(j, w, e.line, UnknownNolint, 5)]

\* ProcessLine
LineDone(j, f, w) ==
    LET ln == w.position
        updated == Update(w.nesting, w.clean, ln)
        measured == CheckForFunctionLengths(w.function, w.clean, ln, Arguments(j).verbosity)
        included == CheckLanguageIncludes(w.includes, w.clean, ln, f)
        inAsm == InAsmBlock(updated.nesting)
    IN  [w EXCEPT !.position = ln + 1, !.nesting = updated.nesting,
                  !.function = IF inAsm THEN w.function ELSE measured.function,
                  !.includes = IF inAsm THEN w.includes ELSE included.includes,
                  !.pending =
                        NolintEvents(w.clean.raw_lines, ln) \o updated.errors
                        \o CheckForNamespaceIndentation(updated.nesting, w.clean, ln)
                        \o IF inAsm THEN <<>>
                           ELSE measured.errors
                                \o CheckForMultilineCommentsAndStrings(w.clean, ln)
                                \o CheckStyle(updated.nesting, w.clean, ln, f,
                                              f.guards[Arguments(j).root], Arguments(j).lineLength)
                                \o included.errors]

\* and FinishLines.
LinesDone(f, w) ==
    [w EXCEPT !.phase = "restore",
              !.pending = CheckCompletedBlocks(w.nesting)
                          \o (IF f.extension \in {"c", "cc", "cpp", "cxx"}
                              THEN CheckHeaderFileIncluded(w.includes, f) ELSE <<>>)
                          \o CheckForNewlineAtEOF(w.clean.raw_lines)
                          \o LineEndEvents(f)]

\* A step of the lint of a file; in the phase "start" it is over.
WorkTurn(j, f, w) ==
    CASE w.phase = "read" /\ f.readable /\ f.extension \in Arguments(j).extensions ->
            Opened(j, f, w)
      [] w.phase = "read" /\ ~(f.readable /\ f.extension \in Arguments(j).extensions) ->
            [w EXCEPT !.phase = "restore"]
      [] w.phase # "read" /\ w.pending # <<>> -> Reported(j, w)
      [] w.phase = "lines" /\ w.pending = <<>> /\ w.position <= Len(w.clean.raw_lines) ->
            LineDone(j, f, w)
      [] w.phase = "lines" /\ w.pending = <<>> /\ ~(w.position <= Len(w.clean.raw_lines)) ->
            LinesDone(f, w)
      [] OTHER -> [w EXCEPT !.phase = "start"]

\* w is where the lint of the file at hand stands.
IsAt(w) ==
    /\ WorkFields \subseteq DOMAIN w
    /\ w.phase = phase /\ w.pending = pending
    /\ phase \in {"read", "lines"} \/ pending # <<>> => w.filters = filters
    /\ phase = "lines" => /\ w.position = position /\ w.clean = clean /\ w.nesting = nesting
                          /\ w.includes = includes /\ w.function = function
    /\ phase = "lines" \/ pending # <<>> =>
            w.suppressions = suppressions /\ w.globals = globalSuppressions
    /\ ArePrinted(w.errors, file, printed)

\* The settings of the command line hold.
IsSetUp ==
    /\ verboseLevel = Arguments(job).verbosity /\ root = Arguments(job).root
    /\ lineLength = Arguments(job).lineLength /\ extensions = Arguments(job).extensions

\* Every step of a file takes its lint to where its next turn does.
LEMMA SkipFileTurn ==
    ASSUME SkipFile, IsSetUp, NEW w, IsAt(w), NEW t, t = WorkTurn(job, File, w)
    PROVE  IsAt(t)'
<1>1. /\ phase = "read" /\ ~(File.readable /\ File.extension \in Arguments(job).extensions)
      /\ phase' = "restore" /\ pending' = pending /\ filters' = filters
      /\ suppressions' = suppressions /\ globalSuppressions' = globalSuppressions
      /\ printed' = printed /\ file' = file
  BY DEF SkipFile, IsSetUp, reportVars
<1>2. t = [w EXCEPT !.phase = "restore"]
  BY <1>1, Zenon DEF WorkTurn, IsAt
<1> QED
  BY <1>1, <1>2 DEF IsAt, WorkFields

LEMMA OpenFileTurn ==
    ASSUME OpenFile, IsSetUp, NEW w, IsAt(w), NEW t, t = WorkTurn(job, File, w)
    PROVE  IsAt(t)'
<1>1. /\ phase = "read" /\ File.readable /\ File.extension \in Arguments(job).extensions
      /\ phase' = "lines" /\ filters' = filters /\ printed' = printed /\ file' = file
      /\ position' = 1 /\ nesting' = InitialNesting /\ includes' = InitialIncludes
      /\ function' = InitialFunction
  BY DEF OpenFile, IsSetUp
<1>2. PICK lines, removed, cleansed :
        lines = MarkedLines(File) /\ removed = RemoveMultiLineComments(lines)
        /\ cleansed = CleansedLines(removed.lines)
  OBVIOUS
<1>3. clean' = cleansed /\ suppressions' = {}
  BY <1>2 DEF OpenFile, ResetNolintSuppressions
<1>4. globalSuppressions' = GlobalsOf(lines)
  BY <1>2, Zenon DEF OpenFile, ProcessGlobalSuppresions, GlobalsOf
<1>5. PICK events :
        events = CheckForCopyright(lines) \o UnclosedEvents(removed)
                 \o IF File.extension = "h"
                    THEN CheckForHeaderGuard(cleansed, File.guards[Arguments(job).root]) ELSE <<>>
  OBVIOUS
<1>6. pending' = events
  BY <1>2, <1>5, <1>3 DEF OpenFile, Cppvar, IsSetUp
<1>7. t = Opened(job, File, w)
  BY <1>1, Zenon DEF WorkTurn, IsAt
<1>8. t = [w EXCEPT !.phase = "lines", !.position = 1, !.clean = cleansed,
                    !.nesting = InitialNesting, !.includes = InitialIncludes,
                    !.function = InitialFunction, !.suppressions = {}, !.globals = GlobalsOf(lines),
                    !.pending = events]
  BY <1>2, <1>5, <1>7, Zenon DEF Opened
<1> QED
  BY <1>1, <1>3, <1>4, <1>6, <1>8 DEF IsAt, WorkFields

LEMMA ProcessLineTurn ==
    ASSUME ProcessLine, IsSetUp, NEW w, IsAt(w), NEW t, t = WorkTurn(job, File, w)
    PROVE  IsAt(t)'
<1>1. /\ phase = "lines" /\ pending = <<>> /\ position <= Len(clean.raw_lines)
      /\ phase' = "lines" /\ filters' = filters /\ printed' = printed /\ file' = file
      /\ position' = position + 1 /\ clean' = clean
      /\ suppressions' = suppressions /\ globalSuppressions' = globalSuppressions
  BY DEF ProcessLine, reportVars
<1>2. /\ w.phase = phase /\ w.pending = pending /\ w.position = position /\ w.clean = clean
      /\ w.nesting = nesting /\ w.includes = includes /\ w.function = function
  BY <1>1 DEF IsAt
<1>3. PICK updated, measured, included :
        /\ updated = Update(nesting, clean, position)
        /\ measured = CheckForFunctionLengths(function, clean, position, verboseLevel)
        /\ included = CheckLanguageIncludes(includes, clean, position, File)
  OBVIOUS
<1>4. PICK inAsm : inAsm = InAsmBlock(updated.nesting)
  OBVIOUS
<1>5. PICK events :
        events = NolintEvents(clean.raw_lines, position) \o updated.errors
                 \o CheckForNamespaceIndentation(updated.nesting, clean, position)
                 \o IF inAsm THEN <<>>
                    ELSE measured.errors
                         \o CheckForMultilineCommentsAndStrings(clean, position)
                         \o CheckStyle(updated.nesting, clean, position, File,
                                       File.guards[Arguments(job).root], Arguments(job).lineLength)
                         \o included.errors
  OBVIOUS
<1>6. FinishLine(position, updated, measured, included)
  BY <1>3 DEF ProcessLine
<1>7. nesting' = updated.nesting
  BY <1>6 DEF FinishLine
<1>8. /\ function' = IF inAsm THEN function ELSE measured.function
      /\ includes' = IF inAsm THEN includes ELSE included.includes
  BY <1>4, <1>6 DEF FinishLine
<1>9. pending' = events
  BY <1>4, <1>5, <1>6, <1>7 DEF FinishLine, Cppvar, IsSetUp
<1>10. t = LineDone(job, File, w)
  BY <1>1, <1>2, Zenon DEF WorkTurn
<1>11. t = [w EXCEPT !.position = position + 1, !.nesting = updated.nesting,
                     !.function = IF inAsm THEN function ELSE measured.function,
                     !.includes = IF inAsm THEN includes ELSE included.includes,
                     !.pending = events]
  BY <1>2, <1>3, <1>4, <1>5, <1>10 DEF LineDone, IsSetUp
<1> QED
  BY <1>1, <1>2, <1>7, <1>8, <1>9, <1>11 DEF IsAt, WorkFields

LEMMA FinishLinesTurn ==
    ASSUME FinishLines, FileInv, IsSetUp, NEW w, IsAt(w), NEW t, t = WorkTurn(job, File, w)
    PROVE  IsAt(t)'
<1>0. ~(position <= Len(clean.raw_lines))
  <2>1. position > Len(clean.raw_lines) /\ position \in 1 .. Len(clean.raw_lines) + 1
    BY DEF FinishLines, FileInv
  <2>2. Len(clean.raw_lines) \in Nat
    BY SequenceFacts DEF FileInv, IsClean, AreLines
  <2> QED
    BY <2>1, <2>2
<1>1. /\ phase = "lines" /\ pending = <<>>
      /\ phase' = "restore" /\ filters' = filters /\ printed' = printed /\ file' = file
      /\ suppressions' = suppressions /\ globalSuppressions' = globalSuppressions
  BY DEF FinishLines, reportVars
<1>2. /\ w.phase = phase /\ w.pending = pending /\ w.position = position /\ w.clean = clean
      /\ w.nesting = nesting /\ w.includes = includes
  BY <1>1 DEF IsAt
<1>3. PICK events :
        events = CheckCompletedBlocks(nesting)
                 \o (IF File.extension \in {"c", "cc", "cpp", "cxx"}
                     THEN CheckHeaderFileIncluded(includes, File) ELSE <<>>)
                 \o CheckForNewlineAtEOF(clean.raw_lines)
                 \o LineEndEvents(File)
  OBVIOUS
<1>4. pending' = events
  BY <1>3 DEF FinishLines
<1>5. t = LinesDone(File, w)
  BY <1>0, <1>1, <1>2, Zenon DEF WorkTurn
<1>6. t = [w EXCEPT !.phase = "restore", !.pending = events]
  BY <1>2, <1>3, <1>5 DEF LinesDone
<1> QED
  BY <1>1, <1>2, <1>4, <1>6 DEF IsAt, WorkFields

\* An error is printed or held back, alike.
LEMMA LogErrorTurn ==
    ASSUME LintInv, IsSetUp, NEW w, IsAt(w), pending # <<>>,
           NEW line, NEW category, NEW confidence, LogError(file, line, category, confidence)
    PROVE  ArePrinted(Logged(job, w, line, category, confidence), file, printed')
<1>1. IsSequence(printed) /\ ArePrinted(w.errors, file, printed)
  BY SMTT(30) DEF LintInv, EventsInv, IsAt
<1>2. w.filters = filters /\ w.suppressions = suppressions /\ w.globals = globalSuppressions
  BY DEF IsAt
<1>3. FilteredBy(filters, category) = IsFiltered(category)
  BY Zenon DEF FilteredBy, IsFiltered
<1>4. SuppressedIn(globalSuppressions, suppressions, category, line)
        = IsErrorSuppressedByNolint(category, line)
  BY Zenon DEF SuppressedIn, IsErrorSuppressedByNolint
<1>5. Printable(job, w, line, category, confidence) <=> ShouldPrintError(category, confidence, line)
  BY <1>2, <1>3, <1>4 DEF Printable, ShouldPrintError, IsSetUp
<1>6. CASE ShouldPrintError(category, confidence, line)
  <2>1. PICK e, p : e = Finding(line, category, confidence) /\ p = MessageOf(e, file)
    OBVIOUS
  <2>2. p = [file |-> file, line |-> line, category |-> category, confidence |-> confidence]
    BY <2>1 DEF Finding, MessageOf
  <2>3. printed' = Append(printed, p)
    BY <1>6, <2>2 DEF LogError
  <2>4. Logged(job, w, line, category, confidence) = Append(w.errors, e)
    BY <1>5, <1>6, <2>1 DEF Logged
  <2> QED
    BY <1>1, <2>1, <2>3, <2>4, OnePrinted
<1>7. CASE ~ShouldPrintError(category, confidence, line)
  <2>1. printed' = printed /\ Logged(job, w, line, category, confidence) = w.errors
    BY <1>5, <1>7 DEF LogError, Logged
  <2> QED
    BY <1>1, <2>1
<1> QED
  BY <1>6, <1>7

LEMMA ReportTurn ==
    ASSUME LintInv, Report, IsSetUp, NEW w, IsAt(w), NEW t, t = WorkTurn(job, File, w)
    PROVE  IsAt(t)'
<1>1. /\ pending # <<>> /\ pending' = Tail(pending) /\ phase' = phase /\ filters' = filters
      /\ file' = file /\ position' = position /\ clean' = clean /\ nesting' = nesting
      /\ includes' = includes /\ function' = function
      /\ globalSuppressions' = globalSuppressions
  BY DEF Report, Handle, fileVars
<1>2. phase \in {"lines", "restore"}
  BY <1>1 DEF LintInv, EventsInv
<1>3. PICK e, category : e = Head(pending) /\ category = Nolints[e.mark].category
  OBVIOUS
<1>4. e.kind = "error" \/ e.kind = "nolint"
  <2>1. 1 \in DOMAIN pending /\ e = pending[1]
    BY <1>1, <1>3, SequenceTail DEF LintInv, EventsInv
  <2> QED
    BY <2>1 DEF LintInv, EventsInv, IsMark, IsError
<1>5. Handle(file, e)
  BY <1>3 DEF Report
<1>6. PICK known, errors, marks :
        /\ known = (e.kind # "error" /\ category \in ErrorCategories \cup {AllCategories})
        /\ marks = IF known THEN w.suppressions \cup {SuppressionOf(e)} ELSE w.suppressions
        /\ errors = IF e.kind = "error" THEN Logged(job, w, e.line, e.category, e.confidence)
                    ELSE IF known \/ category \in LegacyCategories THEN w.errors
                    ELSE Logged(job, w, e.line, UnknownNolint, 5)
  OBVIOUS
<1>7. w.suppressions = suppressions /\ w.pending = pending /\ ArePrinted(w.errors, file, printed)
  BY <1>1 DEF IsAt
<1>8. suppressions' = marks /\ ArePrinted(errors, file, printed')
  <2>1. CASE e.kind = "error"
    <3>1. LogError(file, e.line, e.category, e.confidence) /\ suppressions' = suppressions
      BY <1>5, <2>1 DEF Handle
    <3>2. ArePrinted(Logged(job, w, e.line, e.category, e.confidence), file, printed')
      BY <1>1, <3>1, LogErrorTurn
    <3> QED
      BY <1>6, <1>7, <2>1, <3>1, <3>2
  <2>2. CASE e.kind = "nolint"
    <3>1. ParseNolintSuppressions(file, e)
      BY <1>5, <2>2 DEF Handle
    <3>2. CASE category \in ErrorCategories \cup {AllCategories}
      <4>1. suppressions' = suppressions \cup {SuppressionOf(e)} /\ printed' = printed
        BY <1>3, <3>1, <3>2 DEF ParseNolintSuppressions
      <4> QED
        BY <1>6, <1>7, <2>2, <3>2, <4>1
    <3>3. CASE category \notin ErrorCategories \cup {AllCategories} /\ category \in LegacyCategories
      <4>1. suppressions' = suppressions /\ printed' = printed
        BY <1>3, <3>1, <3>3 DEF ParseNolintSuppressions
      <4> QED
        BY <1>6, <1>7, <2>2, <3>3, <4>1
    <3>4. CASE /\ category \notin ErrorCategories \cup {AllCategories}
               /\ category \notin LegacyCategories
      <4>1. suppressions' = suppressions /\ LogError(file, e.line, UnknownNolint, 5)
        BY <1>3, <3>1, <3>4 DEF ParseNolintSuppressions
      <4>2. ArePrinted(Logged(job, w, e.line, UnknownNolint, 5), file, printed')
        BY <1>1, <4>1, LogErrorTurn
      <4> QED
        BY <1>6, <1>7, <2>2, <3>4, <4>1, <4>2
    <3> QED
      BY <3>2, <3>3, <3>4
  <2> QED
    BY <1>4, <2>1, <2>2
<1>9. t = Reported(job, w)
  BY <1>1, <1>2, Zenon DEF WorkTurn, IsAt
<1>10. t = [w EXCEPT !.pending = Tail(pending), !.suppressions = marks, !.errors = errors]
  BY <1>3, <1>6, <1>7, <1>9, Zenon DEF Reported
<1> QED
  BY <1>1, <1>2, <1>8, <1>10 DEF IsAt, WorkFields

\* StartFile begins the lint of a file, if it does not end the program.
LEMMA StartFileBegins ==
    ASSUME LintInv, FiltersInv, StartFile, IsSetUp, ~SetsGlobals, phase' # "done",
           \A k \in DOMAIN printed : printed[k].file # file,
           NEW w, w = Began(job, File)
    PROVE  IsAt(w)' /\ IsSetUp' /\ w.phase # "start"
<1>1. PICK config : config = ConfigOf(job, File, lineLength, root)
  OBVIOUS
<1>2. config = ConfigOf(job, File, Arguments(job).lineLength, Arguments(job).root)
  BY <1>1 DEF IsSetUp
<1>3. Leaves(config, lineLength, root)
  <2>1. PICK family \in Jobs : job \in family
    BY DEF LintInv, RunInv
  <2>2. file \in DOMAIN job.files
    <3>1. file <= Len(job.files) /\ file \in 1 .. Len(job.files) + 1
      BY DEF StartFile, LintInv, RunInv
    <3>2. Len(job.files) \in Nat /\ DOMAIN job.files = 1 .. Len(job.files)
      BY <2>1, JobsAssumption, SequenceFacts
    <3> QED
      BY <3>1, <3>2
  <2>3. IsSequence(File.dir) /\ \A d \in DOMAIN job.configs : IsSequence(job.configs[d].entries)
    BY <2>1, <2>2, JobsAssumption DEF File
  <2>4. LeavesGlobals(job.configs)
    BY DEF LeavesGlobals, SetsGlobals
  <2> QED
    BY <1>1, <2>3, <2>4, ConfigLeaves
<1>4. PICK added : added = ArgumentFilters(job) \o AddedFilters(config)
  OBVIOUS
<1>5. /\ phase = "start" /\ pending' = <<>> /\ printed' = printed /\ file' = file /\ job' = job
      /\ lineLength' = config.lineLength /\ root' = config.root /\ extensions' = extensions
      /\ verboseLevel' = verboseLevel
      /\ \/ config.excluded /\ phase' = "restore"
         \/ ~config.excluded /\ phase' = "read" /\ filters' = filters \o AddedFilters(config)
  <2>1. phase = "start" /\ pending = <<>>
    BY DEF StartFile, LintInv, EventsInv
  <2> QED
    BY <1>1, <2>1, ConfigOfFile DEF StartFile
<1>6. filters = ArgumentFilters(job)
  BY <1>5 DEF FiltersInv, FiltersAreRestored
<1>7. IsSetUp'
  BY <1>3, <1>5 DEF IsSetUp, Leaves
<1>8. w = [phase |-> IF config.excluded THEN "restore" ELSE "read", filters |-> added,
           position |-> 1, clean |-> NoLines, nesting |-> InitialNesting,
           includes |-> InitialIncludes, function |-> InitialFunction, pending |-> <<>>,
           suppressions |-> {}, globals |-> {}, errors |-> <<>>]
  BY <1>2, <1>4, Zenon DEF Began
<1>9. ArePrinted(<<>>, file, printed)
  BY NonePrinted DEF LintInv, EventsInv
<1> QED
  BY <1>4, <1>5, <1>6, <1>7, <1>8, <1>9 DEF IsAt, WorkFields

\* EndFile ends it.
LEMMA EndFileTurn ==
    ASSUME EndFile, NEW w, IsAt(w), NEW t, t = WorkTurn(job, File, w)
    PROVE  t.phase = "start" /\ ArePrinted(t.errors, file, printed) /\ w.phase # "start"
<1>1. phase = "restore" /\ pending = <<>>
  BY DEF EndFile
<1>2. w.phase = "restore" /\ w.pending = <<>> /\ WorkFields \subseteq DOMAIN w
      /\ ArePrinted(w.errors, file, printed)
  BY <1>1 DEF IsAt
<1>3. t = [w EXCEPT !.phase = "start"]
  BY <1>2, Zenon DEF WorkTurn
<1> QED
  BY <1>2, <1>3 DEF WorkFields

\* Where the lint of file f of run j stands after n steps, and with what it ends.
WorkLoop == INSTANCE SequenceLemmas WITH
    Step <- LAMBDA j, f, w, k : WorkTurn(j, f, w),
    Holds <- LAMBDA j, f, w, k : TRUE
After(j, f, n) == WorkLoop!Loop(j, f, Began(j, f), [k \in 1 .. n |-> k])
IsGoing(j, f, n) == \A m \in 0 .. n : After(j, f, m).phase # "start"
ComesTo(j, f, n, w) ==
    /\ n \in Nat /\ w = After(j, f, n) /\ w.phase = "start"
    /\ \A m \in 0 .. n - 1 : After(j, f, m).phase # "start"

\* The lint of a file from step to step.
LEMMA AfterNone == ASSUME NEW j, NEW f PROVE After(j, f, 0) = Began(j, f)
<1>1. [k \in 1 .. 0 |-> k] = <<>>
  OBVIOUS
<1> QED
  BY <1>1, WorkLoop!LoopOfNone DEF After

LEMMA AfterNext ==
    ASSUME NEW j, NEW f, NEW n \in Nat
    PROVE  After(j, f, n + 1) = WorkTurn(j, f, After(j, f, n))
<1>1. PICK s, t : s = [k \in 1 .. n |-> k] /\ t = [k \in 1 .. n + 1 |-> k]
  OBVIOUS
<1>2. /\ DOMAIN s = 1 .. n /\ Len(s) = n /\ DOMAIN t = 1 .. n + 1 /\ Len(t) = n + 1
      /\ \A k \in 1 .. n : t[k] = s[k]
  <2>1. s \in [1 .. n -> Nat] /\ t \in [1 .. n + 1 -> Nat] /\ n + 1 \in Nat
    BY <1>1
  <2>2. Len(s) = n /\ Len(t) = n + 1
    BY <2>1, SequenceFromFunction
  <2> QED
    BY <1>1, <2>2
<1>3. WorkLoop!Loop(j, f, Began(j, f), t) = WorkTurn(j, f, WorkLoop!Loop(j, f, Began(j, f), s))
  BY <1>2, WorkLoop!LoopAppend
<1> QED
  BY <1>1, <1>3 DEF After

\* The lint of a file has one end.
LEMMA EndIsUnique ==
    ASSUME NEW j, NEW f, NEW m, NEW v, ComesTo(j, f, m, v), NEW n, NEW w, ComesTo(j, f, n, w)
    PROVE  v = w
<1>1. m \in Nat /\ n \in Nat
  BY DEF ComesTo
<1>2. ~(m < n)
  <2> SUFFICES ASSUME m < n PROVE FALSE
    OBVIOUS
  <2>1. m \in 0 .. n - 1
    BY <1>1
  <2> QED
    BY <2>1 DEF ComesTo
<1>3. ~(n < m)
  <2> SUFFICES ASSUME n < m PROVE FALSE
    OBVIOUS
  <2>1. n \in 0 .. m - 1
    BY <1>1
  <2> QED
    BY <2>1 DEF ComesTo
<1>4. m = n
  BY <1>1, <1>2, <1>3
<1> QED
  BY <1>4 DEF ComesTo

\* The files that are done, and the one at hand.
FilesAreDone ==
    \A i \in 1 .. file - 1 : \E n, w :
        ComesTo(job, job.files[i], n, w) /\ ArePrinted(w.errors, i, printed)
FileIsAtHand ==
    \E n \in Nat : \E w : w = After(job, File, n) /\ IsGoing(job, File, n) /\ IsAt(w)
SameInv ==
    ~SetsGlobals =>
        /\ phase \in {"start", "read", "lines", "restore"} => IsSetUp
        /\ phase \in {"arguments", "start"} => \A k \in DOMAIN printed : printed[k].file # file
        /\ FilesAreDone
        /\ phase \in {"read", "lines", "restore"} => FileIsAtHand

\* A step of the lint takes it one turn further.
LEMMA FileAtHandStep ==
    ASSUME FileIsAtHand, job' = job, file' = file, phase' # "start",
           \A w, t : IsAt(w) /\ t = WorkTurn(job, File, w) => IsAt(t)'
    PROVE  FileIsAtHand'
<1>1. PICK n, w : n \in Nat /\ w = After(job, File, n) /\ IsGoing(job, File, n) /\ IsAt(w)
  BY DEF FileIsAtHand
<1>2. PICK t, m : t = WorkTurn(job, File, w) /\ m = n + 1
  OBVIOUS
<1>3. IsAt(t)'
  BY <1>1, <1>2
<1>4. m \in Nat /\ t = After(job, File, m)
  BY <1>1, <1>2, AfterNext
<1>5. t.phase # "start"
  BY <1>3 DEF IsAt
<1>6. IsGoing(job, File, m)
  <2>1. n \in Nat /\ m = n + 1
    BY <1>1, <1>2
  <2>2. \A k \in 0 .. m : k \in 0 .. n \/ k = m
    BY <2>1
  <2> QED
    BY <1>1, <1>4, <1>5, <2>2 DEF IsGoing
<1>7. job' = job /\ File' = File
  BY DEF File
<1> QED
  BY <1>3, <1>4, <1>6, <1>7 DEF FileIsAtHand

\* A message is one of the file at hand: those of the files before stay what they are.
LEMMA OnePrintedAtMost ==
    ASSUME [Next]_vars
    PROVE  printed' = printed \/ \E p : p.file = file /\ printed' = Append(printed, p)
<1>1. CASE Report
  <2>1. PICK e : Handle(file, e)
    BY <1>1 DEF Report
  <2>2. ASSUME NEW line, NEW category, NEW confidence, LogError(file, line, category, confidence)
        PROVE  printed' = printed \/ \E p : p.file = file /\ printed' = Append(printed, p)
    <3>1. PICK p : p = [file |-> file, line |-> line, category |-> category,
                        confidence |-> confidence]
      OBVIOUS
    <3>2. p.file = file
      BY <3>1
    <3>3. printed' = printed \/ printed' = Append(printed, p)
      BY <2>2, <3>1 DEF LogError
    <3> QED
      BY <3>2, <3>3
  <2>3. \/ printed' = printed
        \/ LogError(file, e.line, e.category, e.confidence)
        \/ LogError(file, e.line, UnknownNolint, 5)
    BY <2>1 DEF Handle, ParseNolintSuppressions
  <2> QED
    BY <2>2, <2>3
<1>2. CASE ~Report
  BY <1>2 DEF Next, vars, reportVars, ParseArguments, Exit, StartFile, SkipFile, OpenFile,
              ProcessLine, FinishLines, EndFile, Ended
<1> QED
  BY <1>1, <1>2

\* Files before the one at hand stay done; their number grows at the end of a file.
LEMMA FileIsNumber ==
    ASSUME LintInv
    PROVE  file \in Nat
<1>1. RunInv
  BY DEF LintInv
<1>2. Len(job.files) \in Nat
  BY <1>1, JobType
<1>3. file \in 1 .. Len(job.files) + 1
  BY <1>1 DEF RunInv
<1> QED
  BY <1>2, <1>3

LEMMA FilesStayDone ==
    ASSUME LintInv, FilesAreDone, [Next]_vars, job' = job, file' = file
    PROVE  FilesAreDone'
<1>1. IsSequence(printed) /\ file \in Nat
  BY FileIsNumber DEF LintInv, EventsInv
<1>2. ASSUME NEW i \in 1 .. file - 1, NEW errors, ArePrinted(errors, i, printed)
      PROVE  ArePrinted(errors, i, printed')
  <2>1. CASE printed' = printed
    BY <1>2, <2>1
  <2>2. CASE \E p : p.file = file /\ printed' = Append(printed, p)
    <3>1. PICK p : p.file = file /\ printed' = Append(printed, p)
      BY <2>2
    <3>2. i # file
      BY <1>1, <1>2
    <3> QED
      BY <1>1, <1>2, <3>1, <3>2, OtherPrinted
  <2> QED
    BY <2>1, <2>2, OnePrintedAtMost
<1> QED
  BY <1>2 DEF FilesAreDone

\* The invariant holds at the start and after every step.
LEMMA InitIsSame == ASSUME Init PROVE SameInv
<1>1. phase = "arguments" /\ file = 1 /\ printed = <<>>
  BY DEF Init, InitReport
<1>2. 1 .. file - 1 = {}
  BY <1>1
<1>3. FilesAreDone
  BY <1>2 DEF FilesAreDone
<1>4. DOMAIN printed = {}
  BY <1>1
<1> QED
  BY <1>1, <1>3, <1>4 DEF SameInv

LEMMA EndFileKeepsSame ==
    ASSUME LintInv, EndFile, ~SetsGlobals, FilesAreDone, FileIsAtHand, IsSetUp
    PROVE  SameInv'
<1>1. /\ file' = file + 1 /\ job' = job /\ printed' = printed /\ phase' = "start"
      /\ UNCHANGED <<verboseLevel, root, lineLength, extensions>>
  BY DEF EndFile, globalVars
<1>2. IsSetUp'
  BY <1>1 DEF IsSetUp
<1>3. PICK n, w : n \in Nat /\ w = After(job, File, n) /\ IsGoing(job, File, n) /\ IsAt(w)
  BY DEF FileIsAtHand
<1>4. PICK t, m : t = WorkTurn(job, File, w) /\ m = n + 1
  OBVIOUS
<1>5. t.phase = "start" /\ ArePrinted(t.errors, file, printed)
  BY <1>3, <1>4, EndFileTurn
<1>6. ComesTo(job, File, m, t)
  <2>1. m \in Nat /\ m - 1 = n /\ t = After(job, File, m)
    BY <1>3, <1>4, AfterNext
  <2> QED
    BY <1>3, <1>5, <2>1 DEF ComesTo, IsGoing
<1>7. file \in Nat
  BY FileIsNumber
<1>8. FilesAreDone'
  <2>1. ASSUME NEW i \in 1 .. file' - 1
        PROVE  \E k, v : ComesTo(job, job.files[i], k, v) /\ ArePrinted(v.errors, i, printed)
    <3>1. i \in 1 .. file - 1 \/ i = file
      BY <1>1, <1>7
    <3>2. CASE i = file
      BY <1>5, <1>6, <3>2 DEF File
    <3>3. CASE i \in 1 .. file - 1
      BY <3>3 DEF FilesAreDone
    <3> QED
      BY <3>1, <3>2, <3>3
  <2> QED
    BY <1>1, <2>1 DEF FilesAreDone
<1>9. \A k \in DOMAIN printed : printed[k].file # file + 1
  <2>1. \A k \in DOMAIN printed : printed[k].file \in 1 .. file
    BY DEF LintInv, EventsInv
  <2> QED
    BY <1>7, <2>1
<1> QED
  BY <1>1, <1>2, <1>8, <1>9 DEF SameInv

LEMMA StepKeepsSame ==
    ASSUME LintInv, FiltersInv, SameInv, [Next]_vars
    PROVE  SameInv'
<1>1. job' = job
  BY DEF Next, vars, ParseArguments, Exit, StartFile, SkipFile, OpenFile, Report, ProcessLine,
         FinishLines, EndFile, Ended
<1>2. SetsGlobals' = SetsGlobals
  BY <1>1 DEF SetsGlobals
<1> SUFFICES ASSUME ~SetsGlobals PROVE SameInv'
  BY <1>2 DEF SameInv
<1>3. FilesAreDone
  BY DEF SameInv
<1>4. ASSUME file' = file PROVE FilesAreDone'
  BY <1>1, <1>3, <1>4, FilesStayDone
<1>5. CASE ParseArguments
  <2>1. phase = "arguments" /\ phase' \in {"start", "done"} /\ file' = file /\ printed' = printed
    BY <1>5 DEF ParseArguments
  <2>2. phase' = "start" => IsSetUp'
    BY <1>1, <1>5 DEF ParseArguments, IsSetUp
  <2> QED
    BY <1>4, <2>1, <2>2 DEF SameInv
<1>6. CASE Exit
  <2>1. phase' = "done" /\ file' = file
    BY <1>6 DEF Exit
  <2> QED
    BY <1>4, <2>1 DEF SameInv
<1>7. CASE StartFile
  <2>1. /\ phase = "start" /\ phase' \in {"restore", "read", "done"}
        /\ file' = file /\ printed' = printed
    BY <1>7 DEF StartFile
  <2>2. IsSetUp /\ \A k \in DOMAIN printed : printed[k].file # file
    BY <2>1 DEF SameInv
  <2>3. CASE phase' = "done"
    BY <1>4, <2>1, <2>3 DEF SameInv
  <2>4. CASE phase' # "done"
    <3>1. PICK w : w = Began(job, File)
      OBVIOUS
    <3>2. IsAt(w)' /\ IsSetUp' /\ w.phase # "start"
      BY <1>7, <2>2, <2>4, <3>1, StartFileBegins
    <3>3. w = After(job, File, 0)
      BY <3>1, AfterNone
    <3>4. IsGoing(job, File, 0)
      <4>1. \A m \in 0 .. 0 : m = 0
        OBVIOUS
      <4> QED
        BY <3>2, <3>3, <4>1 DEF IsGoing
    <3>5. File' = File
      BY <1>1, <2>1 DEF File
    <3>6. FileIsAtHand'
      BY <1>1, <3>2, <3>3, <3>4, <3>5 DEF FileIsAtHand
    <3> QED
      BY <1>4, <2>1, <2>4, <3>2, <3>6 DEF SameInv
  <2> QED
    BY <2>3, <2>4
<1>8. CASE SkipFile \/ OpenFile \/ ProcessLine \/ FinishLines \/ Report
  <2>1. /\ phase \in {"read", "lines", "restore"} /\ phase' \in {"read", "lines", "restore"}
        /\ file' = file /\ UNCHANGED <<verboseLevel, root, lineLength, extensions>>
    <3>1. CASE Report
      BY <3>1 DEF Report, Handle, globalVars, LintInv, EventsInv, RunInv
    <3>2. CASE SkipFile \/ OpenFile \/ ProcessLine \/ FinishLines
      BY <3>2 DEF SkipFile, OpenFile, ProcessLine, FinishLines, reportVars, globalVars
    <3> QED
      BY <1>8, <3>1, <3>2
  <2>2. IsSetUp /\ FileIsAtHand
    BY <2>1 DEF SameInv
  <2>3. ASSUME NEW w, NEW t, IsAt(w), t = WorkTurn(job, File, w) PROVE IsAt(t)'
    BY <1>8, <2>2, <2>3, SkipFileTurn, OpenFileTurn, ProcessLineTurn, FinishLinesTurn, ReportTurn
       DEF LintInv
  <2>4. FileIsAtHand'
    BY <1>1, <2>1, <2>2, <2>3, FileAtHandStep
  <2>5. IsSetUp'
    BY <1>1, <2>1, <2>2 DEF IsSetUp
  <2> QED
    BY <1>4, <2>1, <2>4, <2>5 DEF SameInv
<1>9. CASE EndFile
  <2>1. phase = "restore"
    BY <1>9 DEF EndFile
  <2> QED
    BY <1>9, <2>1, <1>3, EndFileKeepsSame DEF SameInv
<1>10. CASE Ended \/ UNCHANGED vars
  <2>1. UNCHANGED vars
    BY <1>10 DEF Ended
  <2> QED
    BY <2>1 DEF SameInv, SetsGlobals, FilesAreDone, FileIsAtHand, IsSetUp, IsAt, File, vars,
                reportVars, globalVars, fileVars
<1> QED
  BY <1>5, <1>6, <1>7, <1>8, <1>9, <1>10 DEF Next

\* A file linted twice in one run has the same errors both times, unless a configuration
\* file sets the length or the root: nothing of a file is left for the next (ProcessFile,
\* ProcessFileData).
THEOREM SameFileAlwaysSameErrors == Spec => []SameFileSameErrors
<1>1. LintInv /\ SameInv => SameFileSameErrors
  <2> SUFFICES ASSUME LintInv, SameInv, file > Len(job.files), ~SetsGlobals,
                      NEW i \in DOMAIN job.files, NEW j \in DOMAIN job.files,
                      job.files[i] = job.files[j]
               PROVE  /\ Len(ErrorsOf(i)) = Len(ErrorsOf(j))
                      /\ \A k \in DOMAIN ErrorsOf(i) :
                              ErrorsOf(i)[k] = [ErrorsOf(j)[k] EXCEPT !.file = i]
    BY DEF SameFileSameErrors
  <2>1. i \in 1 .. file - 1 /\ j \in 1 .. file - 1
    <3>1. /\ Len(job.files) \in Nat /\ DOMAIN job.files = 1 .. Len(job.files)
          /\ file \in 1 .. Len(job.files) + 1
      BY JobType, SequenceFacts DEF LintInv, RunInv
    <3> QED
      BY <3>1
  <2>2. PICK m, v : ComesTo(job, job.files[i], m, v) /\ ArePrinted(v.errors, i, printed)
    BY <2>1 DEF SameInv, FilesAreDone
  <2>3. PICK n, w : ComesTo(job, job.files[j], n, w) /\ ArePrinted(w.errors, j, printed)
    BY <2>1 DEF SameInv, FilesAreDone
  <2>4. v = w
    BY <2>2, <2>3, EndIsUnique
  <2>5. PICK s, t : s = ErrorsOf(i) /\ t = ErrorsOf(j)
    OBVIOUS
  <2>6. s = Picked(i, printed) /\ t = Picked(j, printed)
    BY <2>5, ErrorsOfIsPicked
  <2>7. /\ IsSequence(s) /\ Len(s) = Len(v.errors)
        /\ \A k \in DOMAIN s : s[k] = MessageOf(v.errors[k], i)
        /\ IsSequence(t) /\ Len(t) = Len(v.errors)
        /\ \A k \in DOMAIN t : t[k] = MessageOf(v.errors[k], j)
    BY <2>2, <2>3, <2>4, <2>6 DEF ArePrinted
  <2>8. DOMAIN s = DOMAIN t
    BY <2>7, SequenceFacts
  <2>9. \A e : MessageOf(e, i) = [MessageOf(e, j) EXCEPT !.file = i]
    BY DEF MessageOf
  <2> QED
    BY <2>5, <2>7, <2>8, <2>9
<1>2. Init => FiltersInv
  BY DEF Init, FiltersInv, FiltersAreRestored
<1> QED
  BY <1>1, <1>2, InitHasTypes, StepKeepsTypes, FiltersStep, InitIsSame, StepKeepsSame, PTL DEF Spec
=============================================================================
